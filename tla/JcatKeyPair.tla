----------------------------- MODULE JcatKeyPair -----------------------------
(***************************************************************************)
(* What self-signing promises (README.md, "Self Signing"): there is at     *)
(* most one key pair of an engine in a keyring directory; it is generated  *)
(* when first needed, never changes, and every self-signature is made with *)
(* it, so that the certificate or public key on disk verifies it.          *)
(***************************************************************************)
CONSTANTS
  Keys,   \* the key pairs that can be generated
  None    \* no key pair

VARIABLES
  pair,    \* the key pair of the keyring, or None
  signed   \* the keys that self-signatures were made with

vars == <<pair, signed>>

Init == pair = None /\ signed = {}

Generate ==
  /\ pair = None
  /\ pair' \in Keys
  /\ UNCHANGED signed

Sign ==
  /\ pair # None
  /\ signed' = signed \cup {pair}
  /\ UNCHANGED pair

Next == Generate \/ Sign

Spec == Init /\ [][Next]_vars
=============================================================================
