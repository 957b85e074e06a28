------------------------------ MODULE JcatItem ------------------------------
(***************************************************************************)
(* Items, blobs, and what an engine says of one blob: the vocabulary that  *)
(* the verification modules share.                                         *)
(*                                                                         *)
(* An item is the sequence of its blobs (JcatItem, jcat-item.c).  A blob   *)
(* is a record (JcatBlob, jcat-blob.c) of its kind, the kind of the blob a *)
(* signature was made over (target), the IS_UTF8 flag and its data.        *)
(*                                                                         *)
(* Data is symbolic.  Digest(k, d) is the checksum of kind k of the data   *)
(* d, and Signature(key, d) the signature that key makes over d; both are  *)
(* injective, which is what the hash and signature libraries promise.      *)
(***************************************************************************)
EXTENDS Naturals, Sequences, FiniteSets

CONSTANTS
  Unknown,     \* JCAT_BLOB_KIND_UNKNOWN
  CsumKinds,   \* the kinds whose engine has method JCAT_BLOB_METHOD_CHECKSUM
  SigKinds,    \* the kinds whose engine has method JCAT_BLOB_METHOD_SIGNATURE
  OtherKinds,  \* the kinds no engine was compiled in for, e.g. BT_LOGINDEX
  PqFilters,   \* the signature kinds whose engine honours ONLY_PQ
  Keys,        \* the keys signatures are made with
  PqKeys,      \* those that use a post-quantum algorithm
  BlobData     \* the data of files and blobs

ASSUME KindAssumption ==
  /\ CsumKinds \cap SigKinds = {}
  /\ OtherKinds \cap (CsumKinds \cup SigKinds) = {}
  /\ Unknown \notin CsumKinds \cup SigKinds

Kinds == CsumKinds \cup SigKinds \cup OtherKinds \cup {Unknown}

Blob == [kind : Kinds, target : Kinds, utf8 : BOOLEAN, data : BlobData]

\* The bits of JcatVerifyFlags that decide a verdict.
VerifyFlags == {"REQUIRE_CHECKSUM", "REQUIRE_SIGNATURE", "ONLY_PQ"}

Digest(kind, data)    == [checksum |-> kind, of |-> data]
Signature(key, data)  == [signer |-> key, over |-> data]

\* jcat_blob_get_data_as_string: UTF-8 data as it is, anything else as base64.
AsString(blob) ==
  IF blob.utf8 THEN blob.data ELSE [base64 |-> blob.data]

BlobsByKind(item, kind) == {n \in DOMAIN item : item[n].kind = kind}

\* jcat_item_get_blob_by_kind fails unless exactly one blob has the kind.
HasBlobByKind(item, kind) ==
  \E n \in DOMAIN item : BlobsByKind(item, kind) = {n}

GetBlobByKind(item, kind) ==
  item[CHOOSE n \in BlobsByKind(item, kind) : TRUE]

(***************************************************************************)
(* A request r is one call of jcat_context_verify_item (r.op = "item") or  *)
(* jcat_context_verify_target ("target"): its arguments, and what it reads *)
(* of the context, which no other call changes while it runs: the allowed  *)
(* kinds and the keys the signature engines trust.                         *)
(***************************************************************************)
Request == [op : {"item", "target"}, item : Seq(Blob), target : Seq(Blob),
            data : BlobData, flags : SUBSET VerifyFlags,
            allowed : SUBSET Kinds, trusted : SUBSET Keys]

\* jcat_context_get_engine: the kind must be allowed and have an engine.
HasEngine(r, kind) == kind \in r.allowed /\ kind \in CsumKinds \cup SigKinds

\* The self_verify of the checksum engines, which compares raw bytes.
SelfVerify(kind, data, blob) == blob.data = Digest(kind, data)

\* The pubkey_verify of the signature engines: some trusted key made the
\* signature; under ONLY_PQ the engines in PqFilters trust only PqKeys.
PubkeyVerify(r, kind, data, blob) ==
  \E key \in r.trusted :
     /\ blob.data = Signature(key, data)
     /\ "ONLY_PQ" \in r.flags /\ kind \in PqFilters => key \in PqKeys

\* The blobs the first loop of verify_item or verify_target looks at ...
CsumConsidered(r, n) ==
  LET kind == r.item[n].kind
  IN  /\ HasEngine(r, kind)
      /\ kind \in CsumKinds
      /\ r.op = "target" => HasBlobByKind(r.target, kind)

\* ... and whether such a blob agrees with the data or with the target.
CsumAgrees(r, n) ==
  LET blob == r.item[n]
  IN  IF r.op = "item"
      THEN SelfVerify(blob.kind, r.data, blob)
      ELSE AsString(blob) = AsString(GetBlobByKind(r.target, blob.kind))

\* The blobs the second loop hands to a signature engine, and for which of
\* them the engine returns a result.
SigConsidered(r, n) ==
  LET blob == r.item[n]
  IN  /\ HasEngine(r, blob.kind)
      /\ blob.kind \in SigKinds
      /\ r.op = "target" => /\ blob.target # Unknown
                            /\ HasBlobByKind(r.target, blob.target)

SigVerifies(r, n) ==
  LET blob == r.item[n]
      data == IF r.op = "item" THEN r.data
              ELSE GetBlobByKind(r.target, blob.target).data
  IN  PubkeyVerify(r, blob.kind, data, blob)
=============================================================================
