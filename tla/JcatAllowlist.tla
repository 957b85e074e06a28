--------------------------- MODULE JcatAllowlist ---------------------------
(***************************************************************************)
(* The allowlist of blob kinds of a JcatContext (jcat-context.c): a 32-bit *)
(* mask whose all-ones value doubles as "no list has been given yet".      *)
(* The other state of a context is in JcatEngine.                          *)
(***************************************************************************)
EXTENDS Naturals

CONSTANTS
  KindLast,   \* JCAT_BLOB_KIND_LAST: the kinds are 0 .. KindLast - 1
  Width,      \* the bits of blob_kinds, 32 in the code
  Shift,      \* the bits of 1ull, 64 in the code
  Supported   \* the kinds an engine was compiled in for

ASSUME WidthAssumption ==
  /\ KindLast \in Nat /\ Width \in Nat /\ Shift \in Nat
  /\ KindLast < Width /\ Width <= Shift
  /\ Supported \subseteq 0..(KindLast - 1)

Bits  == 0..(Width - 1)          \* G_MAXUINT32, as the set of its bits
Kinds == 0..(KindLast - 1)

VARIABLES
  blob_kinds,   \* the mask, as the set of its bits
  lastCall,     \* per kind: the last call that named it, or "none"
  style         \* how the list was built so far, see Styles

mask_vars == <<blob_kinds, lastCall, style>>

\* No call yet; blob_kind_allow was called first; only blob_kind_disallow was
\* called; blob_kind_allow was called, but not first.
Styles == {"none", "allowing", "disallowing", "mixed"}

MaskInit ==
  /\ blob_kinds = Bits
  /\ lastCall = [kind \in Kinds |-> "none"]
  /\ style = "none"

-----------------------------------------------------------------------------
(* Mutations of the definitions below: plausible bugs that the properties   *)
(* must tell from the code.                                                 *)

\* The first call adds to the initial mask instead of replacing it.
AllowWithoutReset(kind) ==
  /\ blob_kinds' = blob_kinds \cup {kind}
  /\ lastCall' = [lastCall EXCEPT ![kind] = "allow"]
  /\ style' = IF style \in {"none", "allowing"} THEN "allowing" ELSE "mixed"

\* The bit is flipped, not cleared.
DisallowFlips(kind) ==
  /\ blob_kinds' = IF kind \in blob_kinds THEN blob_kinds \ {kind} ELSE blob_kinds \cup {kind}
  /\ lastCall' = [lastCall EXCEPT ![kind] = "disallow"]
  /\ style' = IF style = "none" THEN "disallowing" ELSE style

-----------------------------------------------------------------------------
\* jcat_context_blob_kind_allow
Allow(kind) ==
  /\ blob_kinds' = (IF blob_kinds = Bits THEN {} ELSE blob_kinds) \cup {kind}
  /\ lastCall' = [lastCall EXCEPT ![kind] = "allow"]
  /\ style' = IF style \in {"none", "allowing"} THEN "allowing" ELSE "mixed"

\* jcat_context_blob_kind_disallow
Disallow(kind) ==
  /\ blob_kinds' = blob_kinds \ {kind}
  /\ lastCall' = [lastCall EXCEPT ![kind] = "disallow"]
  /\ style' = IF style = "none" THEN "disallowing" ELSE style

MaskNext == \E kind \in Kinds : Allow(kind) \/ Disallow(kind)

MaskSpec == MaskInit /\ [][MaskNext]_mask_vars

-----------------------------------------------------------------------------
(* jcat_context_is_blob_kind_allowed and jcat_context_get_engine.  A blob   *)
(* keeps the kind it was imported with, known or not; shifting 1ull by more *)
(* than its width is undefined, so such a kind may test as any bit.         *)

TestedBits(kind) == IF kind < Shift THEN {kind} ELSE 0..(Shift - 1)

Answers(kind) ==
  {IF bit \notin blob_kinds THEN "not allowed"
   ELSE IF kind \in Supported THEN "engine" ELSE "not supported" :
     bit \in TestedBits(kind)}

-----------------------------------------------------------------------------
(* Properties. *)

\* The variables keep their types.
MaskTypeOK ==
  /\ blob_kinds \subseteq Bits
  /\ lastCall \in [Kinds -> {"none", "allow", "disallow"}]
  /\ style \in Styles

\* A kind that was disallowed is answered "not allowed" until it is allowed
\* again, whatever other calls come in between.
DisallowedStaysOut ==
  \A kind \in Kinds : lastCall[kind] = "disallow" => Answers(kind) = {"not allowed"}

\* A caller that starts with blob_kind_allow gets exactly the kinds it allowed
\* last, and one that never allows gets all but the ones it disallowed: no
\* sequence of such calls makes the mask look like the initial one.
ExactUnlessMixed ==
  /\ style = "allowing" =>
       blob_kinds = {kind \in Kinds : lastCall[kind] = "allow"}
  /\ style \in {"none", "disallowing"} =>
       blob_kinds = {bit \in Bits : bit \in Kinds => lastCall[bit] = "none"}

=============================================================================
