------------------------- MODULE JcatEd25519Keyring -------------------------
(***************************************************************************)
(* The keyring of the Ed25519 engine: jcat_gnutls_ed25519_engine_self_sign *)
(* (jcat-gnutls-ed25519-engine.c), run by several processes of one user,   *)
(* on pki/public.ed25519 and pki/secret.ed25519 of the keyring directory.  *)
(* A step is one access to the file system; a file is replaced as a whole  *)
(* (g_file_set_contents_full, CONSISTENT).  Unlike the PKCS-7 engine this  *)
(* one writes the public half first and tests only for the secret one.     *)
(***************************************************************************)
EXTENDS Naturals

CONSTANTS
  Procs,       \* the processes
  Keys,        \* the private keys that can be generated
  None,        \* no such file, or nothing in a variable
  MaxAborts    \* bound on the calls that are cut short

VARIABLES
  serial,    \* whether the processes take turns, which nothing makes them do
  dir,       \* whether the pki directory exists
  secret,    \* the key in secret.ed25519, or None
  public,    \* the key whose public half is in public.ed25519, or None
  used,      \* the keys generated so far
  pc,        \* per process: the step of self_sign it is at
  pubkey,    \* per process: blob_pubkey
  privkey,   \* per process: privkey
  signed,    \* the pairs of halves that signatures were made with
  aborts     \* how many calls were cut short

vars == <<serial, dir, secret, public, used, pc, pubkey, privkey, signed, aborts>>
disk == <<dir, secret, public>>

Init ==
  /\ serial \in BOOLEAN
  /\ dir = FALSE
  /\ secret = None
  /\ public = None
  /\ used = {}
  /\ pc = [p \in Procs |-> "idle"]
  /\ pubkey = [p \in Procs |-> None]
  /\ privkey = [p \in Procs |-> None]
  /\ signed = {}
  /\ aborts = 0

Goto(p, label) == pc' = [pc EXCEPT ![p] = label]

Begin(p) ==
  /\ pc[p] = "idle"
  /\ serial => \A q \in Procs : pc[q] = "idle"
  /\ Goto(p, "test secret")
  /\ pubkey' = [pubkey EXCEPT ![p] = None]
  /\ privkey' = [privkey EXCEPT ![p] = None]
  /\ UNCHANGED <<serial, disk, used, signed, aborts>>

-----------------------------------------------------------------------------
(* Mutations of the definitions below: plausible bugs that the properties   *)
(* must tell from the code.                                                 *)

\* The pair is generated anew by every call.
TestSecretNever(p) ==
  /\ pc[p] = "test secret"
  /\ Goto(p, "test dir")
  /\ UNCHANGED <<serial, disk, used, pubkey, privkey, signed, aborts>>

-----------------------------------------------------------------------------
TestSecret(p) ==
  /\ pc[p] = "test secret"
  /\ Goto(p, IF secret = None THEN "test dir" ELSE "read public")
  /\ UNCHANGED <<serial, disk, used, pubkey, privkey, signed, aborts>>

\* A pair is generated, then jcat_mkdir_parent looks for the directory ...
\* Generated keys are new; which ones they are does not matter.
NewPair(p) ==
  /\ pc[p] = "test dir"
  /\ used # Keys
  /\ LET key == CHOOSE k \in Keys : k \notin used
     IN  /\ pubkey' = [pubkey EXCEPT ![p] = key]
         /\ privkey' = [privkey EXCEPT ![p] = key]
         /\ used' = used \cup {key}
  /\ Goto(p, IF dir THEN "write public" ELSE "make dir")
  /\ UNCHANGED <<serial, disk, signed, aborts>>

\* ... and makes it, which is an error if it has appeared in between.
MakeDir(p) ==
  /\ pc[p] = "make dir"
  /\ dir' = TRUE
  /\ Goto(p, IF dir THEN "idle" ELSE "write public")
  /\ UNCHANGED <<serial, secret, public, used, pubkey, privkey, signed, aborts>>

WritePublic(p) ==
  /\ pc[p] = "write public"
  /\ public' = privkey[p]
  /\ Goto(p, "write secret")
  /\ UNCHANGED <<serial, dir, secret, used, pubkey, privkey, signed, aborts>>

WriteSecret(p) ==
  /\ pc[p] = "write secret"
  /\ secret' = privkey[p]
  /\ Goto(p, "sign")
  /\ UNCHANGED <<serial, dir, public, used, pubkey, privkey, signed, aborts>>

\* The public half is read first; it is an error if there is none.
ReadPublic(p) ==
  /\ pc[p] = "read public"
  /\ pubkey' = [pubkey EXCEPT ![p] = public]
  /\ Goto(p, IF public = None THEN "idle" ELSE "read secret")
  /\ UNCHANGED <<serial, disk, used, privkey, signed, aborts>>

ReadSecret(p) ==
  /\ pc[p] = "read secret"
  /\ privkey' = [privkey EXCEPT ![p] = secret]
  /\ Goto(p, IF secret = None THEN "idle" ELSE "sign")
  /\ UNCHANGED <<serial, disk, used, pubkey, signed, aborts>>

\* Both halves enter an Ed25519 signature.
Sign(p) ==
  /\ pc[p] = "sign"
  /\ signed' = signed \cup {<<pubkey[p], privkey[p]>>}
  /\ Goto(p, "idle")
  /\ UNCHANGED <<serial, disk, used, pubkey, privkey, aborts>>

\* The process is killed, or a call it makes fails and self_sign returns.
Abort(p) ==
  /\ pc[p] # "idle"
  /\ aborts < MaxAborts
  /\ aborts' = aborts + 1
  /\ Goto(p, "idle")
  /\ UNCHANGED <<serial, disk, used, pubkey, privkey, signed>>

Step(p) ==
  \/ TestSecret(p) \/ NewPair(p) \/ MakeDir(p) \/ WritePublic(p) \/ WriteSecret(p)
  \/ ReadPublic(p) \/ ReadSecret(p) \/ Sign(p)

Next == \E p \in Procs : Begin(p) \/ Step(p) \/ Abort(p)

\* A process that is signing goes on.
Fairness == \A p \in Procs : WF_vars(Step(p))

Spec == Init /\ [][Next]_vars /\ Fairness

-----------------------------------------------------------------------------
(* Properties. *)

\* The variables keep their types.
TypeOK ==
  /\ serial \in BOOLEAN
  /\ dir \in BOOLEAN
  /\ {secret, public} \subseteq Keys \cup {None}
  /\ used \subseteq Keys /\ signed \subseteq Keys \X Keys
  /\ pc \in [Procs -> {"idle", "test secret", "test dir", "make dir", "write public",
                       "write secret", "read public", "read secret", "sign"}]
  /\ pubkey \in [Procs -> Keys \cup {None}]
  /\ privkey \in [Procs -> Keys \cup {None}]

\* jcat_gnutls_ed25519_engine_self_verify, which loads the public half on disk.
SelfVerify(halves) == halves = <<public, public>>

\* Every self-signature ever made by processes that take turns verifies on this
\* computer (README.md, "Self Signing"), whichever calls were cut short and where.
OwnSignaturesVerify == serial => \A halves \in signed : SelfVerify(halves)

P == INSTANCE JcatKeyPair
       WITH pair <- IF serial THEN secret ELSE None,
            signed <- IF serial THEN {halves[2] : halves \in signed} ELSE {}

\* The file accesses of processes that take turns implement a key pair that is
\* generated once and for all: the secret half, which decides that there is one,
\* is never there without the public one that belongs to it.
RefinesKeyPair == P!Spec

\* Both files are there and match, and no process is about to write or to sign
\* with another key.
Settled ==
  /\ secret # None /\ public = secret
  /\ \A p \in Procs :
       \/ pc[p] \in {"idle", "test secret", "read public"}
       \/ pc[p] = "read secret" /\ pubkey[p] = public
       \/ pc[p] = "sign" /\ pubkey[p] = public /\ privkey[p] = secret

\* Once the key pair is there, processes may sign at the same time: the keyring
\* stays as it is and what they sign verifies.
SettledKeyringIsSafe ==
  [][Settled => Settled' /\ \A halves \in signed' \ signed : SelfVerify(halves)']_vars

\* Whatever calls cut short have left behind, a keyring that keeps being used
\* signs in the end.
SigningRecovers == []<>(\E p \in Procs : pc[p] # "idle") => <>(signed # {})
=============================================================================
