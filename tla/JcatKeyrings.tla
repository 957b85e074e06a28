---------------------------- MODULE JcatKeyrings ----------------------------
(***************************************************************************)
(* One keyring directory, in which processes self-sign with the engine of  *)
(* their choice (jcat-tool self-sign --kind).  Each engine keeps two files *)
(* of its own, but the pki directory they are in is the same, and the      *)
(* process that first finds it missing makes it.  The bound: a process     *)
(* keeps to the engine it has chosen.                                      *)
(***************************************************************************)
EXTENDS Naturals

CONSTANTS
  Procs,       \* the processes
  Keys,        \* the private keys that an engine can generate
  None,        \* no such file, or nothing in a variable
  MaxAborts    \* bound on the calls that are cut short

ASSUME KeyringAssumption == None \notin Keys /\ MaxAborts \in Nat

VARIABLES
  engine,                \* per process: the kind it self-signs with, fixed
  serial, dir, aborts,   \* as in both modules
  p_secret, p_public, p_used, p_pc, p_privkey, p_cert, p_signed,
  e_secret, e_public, e_used, e_pc, e_pubkey, e_privkey, e_signed

Pkcs7 == INSTANCE JcatPkcs7Keyring
           WITH secret <- p_secret, public <- p_public, used <- p_used, pc <- p_pc,
                privkey <- p_privkey, cert <- p_cert, signed <- p_signed

Ed25519 == INSTANCE JcatEd25519Keyring
             WITH secret <- e_secret, public <- e_public, used <- e_used, pc <- e_pc,
                  pubkey <- e_pubkey, privkey <- e_privkey, signed <- e_signed

pkcs7_vars   == <<p_secret, p_public, p_used, p_pc, p_privkey, p_cert, p_signed>>
ed25519_vars == <<e_secret, e_public, e_used, e_pc, e_pubkey, e_privkey, e_signed>>
vars == <<engine, serial, dir, aborts, pkcs7_vars, ed25519_vars>>

Init == engine \in [Procs -> {"pkcs7", "ed25519"}] /\ Pkcs7!Init /\ Ed25519!Init

\* serial is about calls of either engine.
MayBegin(p, kind) ==
  /\ engine[p] = kind
  /\ serial => \A q \in Procs : p_pc[q] = "idle" /\ e_pc[q] = "idle"

Pkcs7Step(p)   == Pkcs7!Step(p) /\ UNCHANGED <<engine, ed25519_vars>>
Ed25519Step(p) == Ed25519!Step(p) /\ UNCHANGED <<engine, pkcs7_vars>>

Next ==
  \E p \in Procs :
    \/ MayBegin(p, "pkcs7") /\ Pkcs7!Begin(p) /\ UNCHANGED <<engine, ed25519_vars>>
    \/ MayBegin(p, "ed25519") /\ Ed25519!Begin(p) /\ UNCHANGED <<engine, pkcs7_vars>>
    \/ Pkcs7Step(p) \/ Ed25519Step(p)
    \/ Pkcs7!Abort(p) /\ UNCHANGED <<engine, ed25519_vars>>
    \/ Ed25519!Abort(p) /\ UNCHANGED <<engine, pkcs7_vars>>

\* A process that is signing goes on.
Fairness == \A p \in Procs : WF_vars(Pkcs7Step(p) \/ Ed25519Step(p))

Spec == Init /\ [][Next]_vars /\ Fairness

-----------------------------------------------------------------------------
(* Properties: what each engine promises holds whatever the other one does *)
(* in the same directory.                                                  *)

\* Every self-signature ever made by processes that take turns verifies on this
\* computer (README.md, "Self Signing"), whichever calls were cut short and where.
OwnSignaturesVerify == Pkcs7!OwnSignaturesVerify /\ Ed25519!OwnSignaturesVerify

\* The file accesses of processes that take turns implement two key pairs, each
\* generated once and for all.
RefinesKeyPair == Pkcs7!RefinesKeyPair /\ Ed25519!RefinesKeyPair

\* Once a key pair is there, processes may sign with it at the same time: it stays
\* as it is and what they sign verifies.
SettledKeyringIsSafe == Pkcs7!SettledKeyringIsSafe /\ Ed25519!SettledKeyringIsSafe

\* Whatever calls cut short have left behind, and although one engine's making of
\* the directory may fail the other's call, a keyring that keeps being used signs
\* in the end.
SigningRecovers == Pkcs7!SigningRecovers /\ Ed25519!SigningRecovers
=============================================================================
