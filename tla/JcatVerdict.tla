----------------------------- MODULE JcatVerdict -----------------------------
(***************************************************************************)
(* What a verification promises, with no loop in it: a request is answered *)
(* in one step, and the answer is a condition on the SET of the item's     *)
(* blobs.  JcatVerify is the code, and implements this.                    *)
(***************************************************************************)
EXTENDS JcatItem

CONSTANT Requests

VARIABLES
  req,       \* the request being answered
  verdict,   \* "pending", then "accepted" or "rejected"
  vouching   \* the blobs whose JcatResult the caller is given

vars == <<req, verdict, vouching>>

Checksums(r)  == {n \in DOMAIN r.item : CsumConsidered(r, n)}
Signatures(r) == {n \in DOMAIN r.item : SigConsidered(r, n) /\ SigVerifies(r, n)}

\* Every checksum considered agrees, what the flags require is there, and
\* something vouches for the data.
Accepts(r) ==
  /\ \A n \in Checksums(r) : CsumAgrees(r, n)
  /\ "REQUIRE_CHECKSUM" \in r.flags => Checksums(r) # {}
  /\ "REQUIRE_SIGNATURE" \in r.flags => Signatures(r) # {}
  /\ Checksums(r) \cup Signatures(r) # {}

Init ==
  /\ req \in Requests
  /\ verdict = "pending"
  /\ vouching = {}

Answer ==
  /\ verdict = "pending"
  /\ IF Accepts(req)
     THEN /\ verdict' = "accepted"
          /\ vouching' = Checksums(req) \cup Signatures(req)
     ELSE /\ verdict' = "rejected"
          /\ vouching' = {}
  /\ UNCHANGED req

Next == Answer

Spec == Init /\ [][Next]_vars
=============================================================================
