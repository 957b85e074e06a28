-------------------------- MODULE JcatVerify_proofs --------------------------
(***************************************************************************)
(* Proofs that, for every set of requests, every kind of blob and items of *)
(* every length, the two loops of JcatVerify give the declarative verdict. *)
(***************************************************************************)
EXTENDS JcatVerify, FiniteSetTheorems, TLAPS

-----------------------------------------------------------------------------
(* Facts about sequences and about the indices of an item. *)

LEMMA ElementsEmpty == Elements(<<>>) = {}
  BY DEF Elements

LEMMA ElementsAppend ==
  ASSUME NEW S, NEW s \in Seq(S), NEW x \in S
  PROVE  /\ Append(s, x) \in Seq(S)
         /\ Elements(Append(s, x)) = Elements(s) \cup {x}
  <1>1. /\ Append(s, x) \in Seq(S)
        /\ DOMAIN Append(s, x) = DOMAIN s \cup {Len(s) + 1}
        /\ Append(s, x)[Len(s) + 1] = x
        /\ \A n \in DOMAIN s : Append(s, x)[n] = s[n]
    OBVIOUS
  <1> QED  BY <1>1 DEF Elements

LEMMA ElementsNonEmpty ==
  ASSUME NEW S, NEW s \in Seq(S)
  PROVE  s = <<>> <=> Elements(s) = {}
  <1>1. CASE s = <<>>
    BY <1>1, ElementsEmpty
  <1>2. CASE s # <<>>
    <2>1. 1 \in DOMAIN s
      BY <1>2
    <2> QED  BY <1>2, <2>1 DEF Elements
  <1> QED  BY <1>1, <1>2

\* The specification instanced from JcatVerdict speaks of the same blobs.
LEMMA SameBlobs ==
  ASSUME NEW r
  PROVE  /\ V!Checksums(r) = {n \in DOMAIN r.item : CsumConsidered(r, n)}
         /\ V!Signatures(r) = {n \in DOMAIN r.item : SigConsidered(r, n) /\ SigVerifies(r, n)}
         /\ V!Accepts(r) <=>
              /\ \A n \in V!Checksums(r) : CsumAgrees(r, n)
              /\ "REQUIRE_CHECKSUM" \in r.flags => V!Checksums(r) # {}
              /\ "REQUIRE_SIGNATURE" \in r.flags => V!Signatures(r) # {}
              /\ V!Checksums(r) \cup V!Signatures(r) # {}
  <1>1. \A n : V!CsumConsidered(r, n) <=> CsumConsidered(r, n)
    BY DEF V!CsumConsidered, CsumConsidered, V!HasEngine, HasEngine,
           V!HasBlobByKind, HasBlobByKind, V!BlobsByKind, BlobsByKind
  <1>2. \A n : V!CsumAgrees(r, n) <=> CsumAgrees(r, n)
    BY DEF V!CsumAgrees, CsumAgrees, V!SelfVerify, SelfVerify, V!Digest, Digest,
           V!AsString, AsString, V!GetBlobByKind, GetBlobByKind,
           V!BlobsByKind, BlobsByKind
  <1>3. \A n : V!SigConsidered(r, n) <=> SigConsidered(r, n)
    BY DEF V!SigConsidered, SigConsidered, V!HasEngine, HasEngine,
           V!HasBlobByKind, HasBlobByKind, V!BlobsByKind, BlobsByKind
  <1>4. \A n : V!SigVerifies(r, n) <=> SigVerifies(r, n)
    BY DEF V!SigVerifies, SigVerifies, V!PubkeyVerify, PubkeyVerify,
           V!Signature, Signature, V!GetBlobByKind, GetBlobByKind,
           V!BlobsByKind, BlobsByKind
  <1> QED  BY <1>1, <1>2, <1>3, <1>4 DEF V!Checksums, V!Signatures, V!Accepts

\* The indices of an item's blobs are 1 to their number.
LEMMA BlobIndices ==
  ASSUME TypeOK
  PROVE  /\ Blobs = 1..Len(req.item)
         /\ Len(req.item) \in Nat
         /\ req.item = <<>> <=> Blobs = {}
  <1>1. req.item \in Seq(Blob)
    BY RequestAssumption DEF TypeOK, Request
  <1>2. Blobs = 1..Len(req.item) /\ Len(req.item) \in Nat
    BY <1>1 DEF Blobs
  <1>3. req.item = <<>> => Blobs = {}
    BY DEF Blobs
  <1>4. req.item # <<>> => 1 \in Blobs
    BY <1>1, <1>2
  <1> QED  BY <1>2, <1>3, <1>4

-----------------------------------------------------------------------------
(* The loop invariant is inductive. *)

LEMMA InitLoopInv == Init => LoopInv
  <1> SUFFICES ASSUME Init PROVE LoopInv
    OBVIOUS
  <1>1. TypeOK
    <2>1. req.item \in Seq(Blob)
      BY RequestAssumption DEF Init, Request
    <2> QED  BY <2>1 DEF Init, TypeOK
  <1> QED  BY <1>1 DEF Init, LoopInv, StartInv, ChecksumLoopInv, SignatureLoopInv,
              DoneInv, Accepted, Rejected

LEMMA NextLoopInv == LoopInv /\ [Next]_vars => LoopInv'
  <1> SUFFICES ASSUME LoopInv, [Next]_vars PROVE LoopInv'
    OBVIOUS
  <1> USE DEF LoopInv
  <1>1. CASE NoBlobs
    <2>1. ~V!Accepts(req)
      BY <1>1, BlobIndices, SameBlobs DEF NoBlobs, Blobs
    <2> QED  BY <1>1, <2>1 DEF NoBlobs, Finish, TypeOK, StartInv, ChecksumLoopInv,
                SignatureLoopInv, DoneInv, Accepted, Rejected, Blobs
  <1>2. CASE Start
    <2>1. ChecksumsBefore' = {}
      BY <1>2, BlobIndices, SameBlobs
      DEF Start, StartInv, ChecksumsBefore, Blobs
    <2> QED  BY <1>2, <2>1, ElementsEmpty DEF Start, TypeOK, StartInv, ChecksumLoopInv,
                SignatureLoopInv, DoneInv, Accepted, Rejected, Blobs
  <1>3. CASE ChecksumSkip
    <2>1. TypeOK'
      BY <1>3, BlobIndices DEF ChecksumSkip, TypeOK, Blobs
    <2>2. ChecksumsBefore' = ChecksumsBefore
      BY <1>3, BlobIndices, SameBlobs DEF ChecksumSkip, ChecksumsBefore, TypeOK, Blobs
    <2> QED  BY <1>3, <2>1, <2>2 DEF ChecksumSkip, StartInv, ChecksumLoopInv,
                SignatureLoopInv, DoneInv, Accepted, Rejected
  <1>4. CASE ChecksumAgrees
    <2>1. results \in Seq(Blobs) /\ i \in Blobs
      BY <1>4 DEF ChecksumAgrees, TypeOK
    <2>2. results' \in Seq(Blobs) /\ Elements(results') = Elements(results) \cup {i}
      BY <1>4, <2>1, ElementsAppend DEF ChecksumAgrees
    <2>3. TypeOK'
      BY <1>4, <2>2, BlobIndices DEF ChecksumAgrees, TypeOK, Blobs
    <2>4. ChecksumsBefore' = ChecksumsBefore \cup {i}
      BY <1>4, BlobIndices, SameBlobs DEF ChecksumAgrees, ChecksumsBefore, TypeOK, Blobs
    <2>5. ChecksumLoopInv'
      BY <1>4, <2>2, <2>4 DEF ChecksumAgrees, ChecksumLoopInv
    <2> QED  BY <1>4, <2>3, <2>5 DEF ChecksumAgrees, StartInv,
                SignatureLoopInv, DoneInv, Accepted, Rejected
  <1>5. CASE ChecksumFails
    <2>1. ~V!Accepts(req)
      BY <1>5, SameBlobs DEF ChecksumFails, Blobs
    <2> QED  BY <1>5, <2>1 DEF ChecksumFails, Finish, TypeOK, StartInv, ChecksumLoopInv,
                SignatureLoopInv, DoneInv, Accepted, Rejected, Blobs
  <1>6. CASE ChecksumsEnd
    <2>1. ChecksumsBefore = V!Checksums(req)
      BY <1>6, BlobIndices, SameBlobs DEF ChecksumsEnd, ChecksumsBefore, TypeOK, Blobs
    <2>2. results = <<>> <=> V!Checksums(req) = {}
      BY <1>6, <2>1, ElementsNonEmpty DEF ChecksumsEnd, ChecksumLoopInv, TypeOK
    <2>3. CASE MissesChecksum
      <3>1. ~V!Accepts(req)
        BY <2>2, <2>3, SameBlobs DEF MissesChecksum
      <3> QED  BY <1>6, <2>3, <3>1 DEF ChecksumsEnd, Finish, TypeOK, StartInv,
                  ChecksumLoopInv, SignatureLoopInv, DoneInv, Accepted, Rejected, Blobs
    <2>4. CASE ~MissesChecksum
      <3>1. pc' = "signatures" /\ i' = 1 /\ UNCHANGED <<req, results, nr_signature, verdict>>
        BY <1>6, <2>4 DEF ChecksumsEnd
      <3>2. TypeOK'
        BY <3>1, BlobIndices DEF TypeOK, Blobs
      <3>3. SignaturesBefore' = {}
        BY <3>1, BlobIndices, SameBlobs DEF SignaturesBefore, Blobs
      <3>4. ChecksumsAgree' /\ ("REQUIRE_CHECKSUM" \in req.flags => V!Checksums(req) # {})
        BY <1>6, <2>1, <2>2, <2>4, <3>1
        DEF ChecksumsEnd, ChecksumLoopInv, ChecksumsAgree, MissesChecksum
      <3>5. SignatureLoopInv'
        BY <1>6, <2>1, <3>1, <3>3, <3>4
        DEF ChecksumsEnd, ChecksumLoopInv, SignatureLoopInv
      <3> QED  BY <1>6, <3>1, <3>2, <3>5 DEF ChecksumsEnd, StartInv, ChecksumLoopInv,
                  DoneInv, Accepted, Rejected
    <2> QED  BY <2>3, <2>4
  <1>7. CASE SignatureSkip
    <2>1. TypeOK'
      BY <1>7, BlobIndices DEF SignatureSkip, TypeOK, Blobs
    <2>2. SignaturesBefore' = SignaturesBefore
      BY <1>7, BlobIndices, SameBlobs DEF SignatureSkip, SignaturesBefore, TypeOK, Blobs
    <2>3. SignatureLoopInv'
      BY <1>7, <2>2, BlobIndices DEF SignatureSkip, SignatureLoopInv, ChecksumsAgree, TypeOK
    <2> QED  BY <1>7, <2>1, <2>3 DEF SignatureSkip, StartInv, ChecksumLoopInv,
                DoneInv, Accepted, Rejected
  <1>8. CASE SignatureVerifies
    <2>1. results \in Seq(Blobs) /\ i \in Blobs
      BY <1>8 DEF SignatureVerifies, TypeOK
    <2>2. results' \in Seq(Blobs) /\ Elements(results') = Elements(results) \cup {i}
      BY <1>8, <2>1, ElementsAppend DEF SignatureVerifies
    <2>3. TypeOK'
      BY <1>8, <2>2, BlobIndices DEF SignatureVerifies, SignatureLoopInv, TypeOK, Blobs
    <2>4. SignaturesBefore' = SignaturesBefore \cup {i}
      BY <1>8, BlobIndices, SameBlobs DEF SignatureVerifies, SignaturesBefore, TypeOK, Blobs
    <2>5. nr_signature' # 0 /\ nr_signature' < i'
      BY <1>8, BlobIndices DEF SignatureVerifies, SignatureLoopInv, TypeOK
    <2>6. SignatureLoopInv'
      BY <1>8, <2>2, <2>4, <2>5 DEF SignatureVerifies, SignatureLoopInv, ChecksumsAgree
    <2> QED  BY <1>8, <2>3, <2>6 DEF SignatureVerifies, StartInv, ChecksumLoopInv,
                DoneInv, Accepted, Rejected
  <1>9. CASE SignaturesEnd
    <2>1. SignaturesBefore = V!Signatures(req)
      BY <1>9, BlobIndices, SameBlobs DEF SignaturesEnd, SignaturesBefore, TypeOK, Blobs
    <2>2. Elements(results) = V!Checksums(req) \cup V!Signatures(req)
      BY <1>9, <2>1 DEF SignaturesEnd, SignatureLoopInv
    <2>3. results = <<>> <=> V!Checksums(req) \cup V!Signatures(req) = {}
      BY <2>2, ElementsNonEmpty DEF TypeOK
    <2>4. V!Accepts(req) <=> ~(MissesSignature \/ results = <<>>)
      BY <1>9, <2>1, <2>3, SameBlobs
      DEF SignaturesEnd, SignatureLoopInv, ChecksumsAgree, MissesSignature
    <2> QED  BY <1>9, <2>2, <2>4 DEF SignaturesEnd, Finish, TypeOK, StartInv,
                ChecksumLoopInv, SignatureLoopInv, DoneInv, Accepted, Rejected, Blobs
  <1>10. CASE UNCHANGED vars
    BY <1>10 DEF vars, TypeOK, StartInv, ChecksumLoopInv, SignatureLoopInv, DoneInv,
       Accepted, Rejected, Blobs, ChecksumsBefore, SignaturesBefore, ChecksumsAgree
  <1> QED
    BY <1>1, <1>2, <1>3, <1>4, <1>5, <1>6, <1>7, <1>8, <1>9, <1>10 DEF Next

-----------------------------------------------------------------------------
(* The theorems. *)

\* The loop invariant holds in every reachable state: both loops have appended
\* exactly the blobs that vouch among those they have passed.
THEOREM LoopInvariant == Spec => []LoopInv
  BY InitLoopInv, NextLoopInv, PTL DEF Spec

\* The variables of the two loops keep their types; in particular the index
\* never runs past the end of the blob array.
THEOREM TypeCorrect == Spec => []TypeOK
  <1>1. LoopInv => TypeOK
    BY DEF LoopInv
  <1> QED  BY <1>1, LoopInvariant, PTL

\* The two loops implement the one-step declarative verdict: JcatVerdict.
THEOREM Refinement == Spec => RefinesVerdict
  <1>1. Init => V!Init
    BY DEF Init, V!Init, Vouching, Accepted
  <1>2. LoopInv /\ LoopInv' /\ [Next]_vars => [V!Next]_V!vars
    <2> SUFFICES ASSUME LoopInv, LoopInv', [Next]_vars
                 PROVE  V!Next \/ UNCHANGED <<req, verdict, Vouching>>
      BY DEF V!vars
    <2>1. req' = req
      BY DEF Next, vars, NoBlobs, Start, ChecksumSkip, ChecksumAgrees, ChecksumFails,
         ChecksumsEnd, SignatureSkip, SignatureVerifies, SignaturesEnd, Finish
    <2>2. CASE verdict = "pending" /\ verdict' = "accepted"
      BY <2>1, <2>2 DEF V!Next, V!Answer, Vouching, LoopInv, DoneInv, Accepted, Elements
    <2>3. CASE verdict = "pending" /\ verdict' = "rejected"
      BY <2>1, <2>3 DEF V!Next, V!Answer, Vouching, LoopInv, DoneInv, Accepted, Rejected
    <2>4. CASE verdict = "pending" /\ verdict' = "pending"
      BY <2>1, <2>4 DEF Vouching, Accepted
    <2>5. CASE verdict # "pending"
      <3>1. UNCHANGED vars
        BY <2>5 DEF LoopInv, DoneInv, Next, vars, NoBlobs, Start, ChecksumSkip,
           ChecksumAgrees, ChecksumFails, ChecksumsEnd, SignatureSkip,
           SignatureVerifies, SignaturesEnd
      <3> QED  BY <3>1 DEF vars, Vouching, Accepted
    <2> QED  BY <2>2, <2>3, <2>4, <2>5 DEF LoopInv, TypeOK
  <1> QED  BY <1>1, <1>2, LoopInvariant, PTL DEF Spec, RefinesVerdict, V!Spec
-----------------------------------------------------------------------------
(* What a verdict does not depend on.                                       *)

\* Fewer flags: the same checksums are considered, and no signature is lost.
LEMMA FewerFlags ==
  ASSUME NEW r \in Request, NEW flags \in SUBSET r.flags, V!Accepts(r)
  PROVE  V!Accepts([r EXCEPT !.flags = flags])
  <1> DEFINE s == [r EXCEPT !.flags = flags]
  <1>1. /\ s.op = r.op /\ s.item = r.item /\ s.target = r.target /\ s.data = r.data
        /\ s.allowed = r.allowed /\ s.trusted = r.trusted /\ s.flags = flags
    BY DEF Request
  <1> HIDE DEF s
  <1>2. \A n : /\ CsumConsidered(s, n) <=> CsumConsidered(r, n)
               /\ CsumAgrees(s, n) <=> CsumAgrees(r, n)
               /\ SigConsidered(s, n) <=> SigConsidered(r, n)
    BY <1>1 DEF CsumConsidered, CsumAgrees, SigConsidered, HasEngine
  <1>3. \A n : SigVerifies(r, n) => SigVerifies(s, n)
    BY <1>1 DEF SigVerifies, PubkeyVerify
  <1>4. V!Checksums(s) = V!Checksums(r) /\ V!Signatures(r) \subseteq V!Signatures(s)
    BY <1>1, <1>2, <1>3, SameBlobs
  <1>5. V!Accepts(s)
    BY <1>1, <1>2, <1>4, SameBlobs
  <1> QED  BY <1>5 DEF s

\* A rearrangement of finitely many indices leaves none out.
LEMMA InjectionIsOnto ==
  ASSUME NEW m \in Nat, NEW f \in [1..m -> 1..m],
         \A a, b \in 1..m : f[a] = f[b] => b = a
  PROVE  \A b \in 1..m : \E a \in 1..m : f[a] = b
  <1>1. IsFiniteSet(1..m)
    BY FS_Interval
  <1>2. f \in Injection(1..m, 1..m)
    BY DEF Injection, IsInjective
  <1>3. f \in Surjection(1..m, 1..m)
    BY <1>1, <1>2, FS_Injection
  <1> QED  BY <1>3 DEF Surjection

LEMMA SameInAnyOrder ==
  ASSUME NEW r \in Request, NEW s \in Reorderings(r)
  PROVE  V!Accepts(s) <=> V!Accepts(r)
  <1> DEFINE D == DOMAIN r.item
  <1>1. PICK f \in [D -> D] : /\ s = [r EXCEPT !.item = [n \in D |-> r.item[f[n]]]]
                              /\ \A m, n \in D : f[m] = f[n] => n = m
    BY DEF Reorderings
  <1>2. /\ s.op = r.op /\ s.target = r.target /\ s.data = r.data /\ s.flags = r.flags
        /\ s.allowed = r.allowed /\ s.trusted = r.trusted
        /\ s.item = [n \in D |-> r.item[f[n]]]
    BY <1>1 DEF Request
  <1>3. DOMAIN s.item = D /\ \A n \in D : f[n] \in D /\ s.item[n] = r.item[f[n]]
    BY <1>1, <1>2
  <1>4. \A m \in D : \E n \in D : f[n] = m
    <2>1. D = 1..Len(r.item) /\ Len(r.item) \in Nat
      BY DEF Request
    <2>2. /\ f \in [1..Len(r.item) -> 1..Len(r.item)]
          /\ \A a, b \in 1..Len(r.item) : f[a] = f[b] => b = a
      BY <1>1, <2>1
    <2>3. \A b \in 1..Len(r.item) : \E a \in 1..Len(r.item) : f[a] = b
      BY <2>1, <2>2, InjectionIsOnto
    <2> QED  BY <2>1, <2>3
  <1> HIDE DEF D
  <1>5. \A n \in D : /\ CsumConsidered(s, n) <=> CsumConsidered(r, f[n])
                     /\ CsumAgrees(s, n) <=> CsumAgrees(r, f[n])
                     /\ SigConsidered(s, n) <=> SigConsidered(r, f[n])
                     /\ SigVerifies(s, n) <=> SigVerifies(r, f[n])
    BY <1>2, <1>3
    DEF CsumConsidered, CsumAgrees, SigConsidered, SigVerifies, HasEngine, PubkeyVerify
  <1>6. (\A n \in V!Checksums(s) : CsumAgrees(s, n))
          <=> (\A n \in V!Checksums(r) : CsumAgrees(r, n))
    BY <1>3, <1>4, <1>5, SameBlobs DEF D
  <1>7. V!Checksums(s) = {} <=> V!Checksums(r) = {}
    BY <1>3, <1>4, <1>5, SameBlobs DEF D
  <1>8. V!Signatures(s) = {} <=> V!Signatures(r) = {}
    BY <1>3, <1>4, <1>5, SameBlobs DEF D
  <1> QED  BY <1>2, <1>6, <1>7, <1>8, SameBlobs

\* The verdict is the declarative one.
LEMMA VerdictIsDeclared ==
  ASSUME LoopInv, pc = "done"
  PROVE  req \in Request /\ (Accepted <=> V!Accepts(req))
  BY RequestAssumption DEF LoopInv, TypeOK, DoneInv, Accepted, Rejected

\* The order in which an item holds its blobs is irrelevant.
THEOREM AnyOrder == Spec => []OrderIrrelevant
  <1>1. LoopInv => OrderIrrelevant
    BY VerdictIsDeclared, SameInAnyOrder DEF OrderIrrelevant
  <1> QED  BY <1>1, LoopInvariant, PTL

\* An item accepted under some flags is accepted under fewer.
THEOREM FlagsRestrict == Spec => []FlagsOnlyRestrict
  <1>1. LoopInv => FlagsOnlyRestrict
    <2> SUFFICES ASSUME LoopInv, Accepted, NEW flags \in SUBSET req.flags
                 PROVE  V!Accepts([req EXCEPT !.flags = flags])
      BY DEF FlagsOnlyRestrict
    <2>1. req \in Request /\ V!Accepts(req)
      BY RequestAssumption DEF LoopInv, TypeOK, DoneInv
    <2> QED  BY <2>1, FewerFlags
  <1> QED  BY <1>1, LoopInvariant, PTL

\* A target with the true checksums of some data stands for the data.
THEOREM TargetIsEnough == Spec => []TargetStandsForData
  <1>1. LoopInv => TargetStandsForData
    <2> SUFFICES ASSUME LoopInv, Accepted, req.op = "target", HonestTarget(req),
                        NEW n \in Blobs,
                        req.item[n].kind \in CsumKinds \cap req.allowed,
                        HasBlobByKind(req.target, req.item[n].kind)
                 PROVE  \/ SelfVerify(req.item[n].kind, req.data, req.item[n])
                        \/ /\ req.item[n].utf8
                           /\ req.item[n].data =
                                [base64 |-> Digest(req.item[n].kind, req.data)]
                           /\ ~GetBlobByKind(req.target, req.item[n].kind).utf8
      BY DEF TargetStandsForData
    <2> DEFINE blob == req.item[n]
               other == GetBlobByKind(req.target, blob.kind)
               digest == Digest(blob.kind, req.data)
    <2>1. CsumConsidered(req, n)
      BY DEF CsumConsidered, HasEngine
    <2>2. V!Accepts(req)
      BY DEF LoopInv, DoneInv
    <2>3. AsString(blob) = AsString(other)
      BY <2>1, <2>2, SameBlobs DEF CsumAgrees, Blobs
    <2>4. other.data = digest
      <3>1. PICK m \in DOMAIN req.target : BlobsByKind(req.target, blob.kind) = {m}
        BY DEF HasBlobByKind
      <3>2. other = req.target[m] /\ req.target[m].kind = blob.kind
        BY <3>1 DEF GetBlobByKind, BlobsByKind
      <3> QED  BY <3>2 DEF HonestTarget
    <2>5. \A d : [base64 |-> d] # digest
      <3>1. \A d : "checksum" \notin DOMAIN [base64 |-> d]
        OBVIOUS
      <3>2. "checksum" \in DOMAIN digest
        BY DEF Digest
      <3> QED  BY <3>1, <3>2
    <2>6. \A d, e : [base64 |-> d] = [base64 |-> e] => d = e
      <3>1. \A d : [base64 |-> d].base64 = d
        OBVIOUS
      <3> QED  BY <3>1
    <2> QED  BY <2>3, <2>4, <2>5, <2>6 DEF AsString, SelfVerify
  <1> QED  BY <1>1, LoopInvariant, PTL
=============================================================================
