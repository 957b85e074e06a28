----------------------------- MODULE JcatVerify -----------------------------
(***************************************************************************)
(* jcat_context_verify_item and jcat_context_verify_target                 *)
(* (jcat-context.c) as the code runs them: a loop over the blobs for the   *)
(* checksums, a check, a second loop over the same blobs for the           *)
(* signatures, and two more checks.  One step is one iteration.            *)
(***************************************************************************)
EXTENDS JcatItem

CONSTANT Requests   \* the requests a caller may make

ASSUME RequestAssumption == Requests \subseteq Request

VARIABLES
  req,           \* the request (arguments and context), fixed
  pc,            \* "start", "checksums", "signatures", "done"
  i,             \* index of the blob the running loop looks at next
  results,       \* the blobs whose JcatResult was appended, in that order
  nr_signature,  \* how many of the results are of signatures
  verdict        \* "pending", then "accepted" or "rejected"

vars == <<req, pc, i, results, nr_signature, verdict>>

Blobs == DOMAIN req.item

Init ==
  /\ req \in Requests
  /\ pc = "start"
  /\ i = 1
  /\ results = <<>>
  /\ nr_signature = 0
  /\ verdict = "pending"

Finish(answer) ==
  /\ pc' = "done"
  /\ verdict' = answer
  /\ UNCHANGED <<req, i, results, nr_signature>>

-----------------------------------------------------------------------------
(* Mutations of the actions below: plausible bugs that the properties must  *)
(* tell from the code.                                                      *)

\* A bad checksum is only logged, as a bad signature is, ...
ChecksumFailsIsLogged ==
  /\ pc = "checksums" /\ i \in Blobs /\ CsumConsidered(req, i) /\ ~CsumAgrees(req, i)
  /\ i' = i + 1 /\ UNCHANGED <<req, pc, results, nr_signature, verdict>>

\* ... or is tolerated once there is a good one.
ChecksumFailsOnlyFirst ==
  /\ pc = "checksums" /\ i \in Blobs /\ CsumConsidered(req, i) /\ ~CsumAgrees(req, i)
  /\ IF results = <<>> THEN Finish("rejected")
     ELSE i' = i + 1 /\ UNCHANGED <<req, pc, results, nr_signature, verdict>>

\* REQUIRE_CHECKSUM is not looked at.
NeverMissesChecksum == FALSE

\* Nothing needs to vouch for the data unless a flag requires it.
SignaturesEndWithoutResults ==
  /\ pc = "signatures" /\ i \notin Blobs
  /\ Finish(IF "REQUIRE_SIGNATURE" \in req.flags /\ nr_signature = 0
            THEN "rejected" ELSE "accepted")

-----------------------------------------------------------------------------
NoBlobs ==
  /\ pc = "start"
  /\ req.item = <<>>
  /\ Finish("rejected")

Start ==
  /\ pc = "start"
  /\ req.item # <<>>
  /\ pc' = "checksums"
  /\ UNCHANGED <<req, i, results, nr_signature, verdict>>

-----------------------------------------------------------------------------
(* The first loop. *)

ChecksumSkip ==
  /\ pc = "checksums"
  /\ i \in Blobs
  /\ ~CsumConsidered(req, i)
  /\ i' = i + 1
  /\ UNCHANGED <<req, pc, results, nr_signature, verdict>>

ChecksumAgrees ==
  /\ pc = "checksums"
  /\ i \in Blobs
  /\ CsumConsidered(req, i)
  /\ CsumAgrees(req, i)
  /\ results' = Append(results, i)
  /\ i' = i + 1
  /\ UNCHANGED <<req, pc, nr_signature, verdict>>

ChecksumFails ==
  /\ pc = "checksums"
  /\ i \in Blobs
  /\ CsumConsidered(req, i)
  /\ ~CsumAgrees(req, i)
  /\ Finish("rejected")

MissesChecksum == "REQUIRE_CHECKSUM" \in req.flags /\ results = <<>>

ChecksumsEnd ==
  /\ pc = "checksums"
  /\ i \notin Blobs
  /\ IF MissesChecksum
     THEN Finish("rejected")
     ELSE /\ pc' = "signatures"
          /\ i' = 1
          /\ UNCHANGED <<req, results, nr_signature, verdict>>

-----------------------------------------------------------------------------
(* The second loop. *)

SignatureSkip ==
  /\ pc = "signatures"
  /\ i \in Blobs
  /\ ~(SigConsidered(req, i) /\ SigVerifies(req, i))
  /\ i' = i + 1
  /\ UNCHANGED <<req, pc, results, nr_signature, verdict>>

SignatureVerifies ==
  /\ pc = "signatures"
  /\ i \in Blobs
  /\ SigConsidered(req, i)
  /\ SigVerifies(req, i)
  /\ results' = Append(results, i)
  /\ nr_signature' = nr_signature + 1
  /\ i' = i + 1
  /\ UNCHANGED <<req, pc, verdict>>

MissesSignature == "REQUIRE_SIGNATURE" \in req.flags /\ nr_signature = 0

SignaturesEnd ==
  /\ pc = "signatures"
  /\ i \notin Blobs
  /\ Finish(IF MissesSignature \/ results = <<>> THEN "rejected" ELSE "accepted")

Next ==
  \/ NoBlobs \/ Start
  \/ ChecksumSkip \/ ChecksumAgrees \/ ChecksumFails \/ ChecksumsEnd
  \/ SignatureSkip \/ SignatureVerifies \/ SignaturesEnd

\* The caller's thread runs the function to its end.
Spec == Init /\ [][Next]_vars /\ WF_vars(Next)

-----------------------------------------------------------------------------
(* Properties. *)

\* Every variable keeps its type.
TypeOK ==
  /\ req \in Requests
  /\ pc \in {"start", "checksums", "signatures", "done"}
  /\ i \in 1..Len(req.item) + 1
  /\ results \in Seq(Blobs)
  /\ nr_signature \in 0..Len(req.item)
  /\ verdict \in {"pending", "accepted", "rejected"}

Accepted == verdict = "accepted"
Rejected == verdict = "rejected"

\* The caller gets the results only if the item was accepted.
Vouching ==
  IF Accepted THEN {results[n] : n \in DOMAIN results} ELSE {}

V == INSTANCE JcatVerdict WITH vouching <- Vouching

\* The two loops answer as the declarative specification does, and the results
\* they return are exactly the blobs that vouch for the data.
RefinesVerdict == V!Spec

\* The elements of a sequence.
Elements(s) == {s[n] : n \in DOMAIN s}

\* The blobs before index i that count for the loop running now.
ChecksumsBefore  == {n \in V!Checksums(req) : n < i}
SignaturesBefore == {n \in V!Signatures(req) : n < i}

ChecksumsAgree == \A n \in V!Checksums(req) : CsumAgrees(req, n)

StartInv ==
  pc = "start" => i = 1 /\ results = <<>> /\ nr_signature = 0

ChecksumLoopInv ==
  pc = "checksums" =>
    /\ nr_signature = 0
    /\ Elements(results) = ChecksumsBefore
    /\ \A n \in ChecksumsBefore : CsumAgrees(req, n)

SignatureLoopInv ==
  pc = "signatures" =>
    /\ nr_signature < i
    /\ nr_signature = 0 <=> SignaturesBefore = {}
    /\ Elements(results) = V!Checksums(req) \cup SignaturesBefore
    /\ ChecksumsAgree
    /\ "REQUIRE_CHECKSUM" \in req.flags => V!Checksums(req) # {}

DoneInv ==
  /\ verdict = "pending" <=> pc # "done"
  /\ Accepted => /\ V!Accepts(req)
                 /\ Elements(results) = V!Checksums(req) \cup V!Signatures(req)
  /\ Rejected => ~V!Accepts(req)

\* The inductive invariant: what each loop of verify_item and verify_target
\* knows about the blobs it has passed when it starts an iteration.
LoopInv == TypeOK /\ StartInv /\ ChecksumLoopInv /\ SignatureLoopInv /\ DoneInv

\* The same request with the item's blobs in another order.
Reorderings(r) ==
  LET D == DOMAIN r.item
  IN  {[r EXCEPT !.item = [n \in D |-> r.item[f[n]]]] :
         f \in {g \in [D -> D] : \A m, n \in D : g[m] = g[n] => m = n}}

\* The verdict does not depend on the order in which an item stores its blobs.
OrderIrrelevant ==
  pc = "done" => \A r \in Reorderings(req) : V!Accepts(r) <=> Accepted

\* A flag only restricts: what is accepted under some flags is accepted under
\* fewer of them.
FlagsOnlyRestrict ==
  Accepted => \A flags \in SUBSET req.flags :
                V!Accepts([req EXCEPT !.flags = flags])

\* A blob of the target item is a true checksum of the data.
HonestTarget(r) ==
  \A n \in DOMAIN r.target :
    r.target[n].data = Digest(r.target[n].kind, r.data)

\* verify_target against the true checksums of some data accepts only items
\* whose checksums of the kinds the target can answer for are those of the data,
\* what verify_item would have required of them, or text that is their base64: that
\* passes for a checksum which the target does not flag as text.
TargetStandsForData ==
  Accepted /\ req.op = "target" /\ HonestTarget(req) =>
    \A n \in Blobs :
      LET blob == req.item[n]
      IN  blob.kind \in CsumKinds \cap req.allowed /\ HasBlobByKind(req.target, blob.kind)
            => \/ SelfVerify(blob.kind, req.data, blob)
               \/ /\ blob.utf8 /\ blob.data = [base64 |-> Digest(blob.kind, req.data)]
                  /\ ~GetBlobByKind(req.target, blob.kind).utf8

-----------------------------------------------------------------------------
(* What the documentation says, and the code does not do. *)

\* jcat_context_verify_target: "At least one `verify=CHECKSUM` (e.g. SHA256) must
\* exist": an accepted item has a checksum that was compared with the target.
DocTargetHasChecksum ==
  Accepted /\ req.op = "target" => \E n \in Blobs : CsumConsidered(req, n)

=============================================================================
