-------------------------- MODULE JcatPkcs7Keyring --------------------------
(***************************************************************************)
(* The keyring of the PKCS-7 engine: jcat_gnutls_pkcs7_engine_self_sign,   *)
(* run by several processes of one user, on pki/secret.key and             *)
(* pki/client.pem of the keyring directory.  With USE_PQ it does the same  *)
(* on two files of their own, and jcat_libcrypto_pkcs7_engine_self_sign,   *)
(* of a build with OpenSSL, takes the same steps on the first two.         *)
(*                                                                         *)
(* A step is one access to the file system; a file is replaced as a whole  *)
(* (g_file_set_contents_full, CONSISTENT).                                 *)
(***************************************************************************)
EXTENDS Naturals

CONSTANTS
  Procs,       \* the processes
  Keys,        \* the private keys that can be generated
  None,        \* no such file, or nothing in a variable
  MaxAborts    \* bound on the calls that are cut short

VARIABLES
  serial,    \* whether the processes take turns, which nothing makes them do
  dir,       \* whether the pki directory exists
  secret,    \* the key in secret.key, or None
  public,    \* the key client.pem certifies, or None
  used,      \* the keys generated so far
  pc,        \* per process: the step of self_sign it is at
  privkey,   \* per process: privkey
  cert,      \* per process: the key its cert certifies
  signed,    \* the keys that signatures were made with
  aborts     \* how many calls were cut short

vars == <<serial, dir, secret, public, used, pc, privkey, cert, signed, aborts>>
disk == <<dir, secret, public>>

Init ==
  /\ serial \in BOOLEAN
  /\ dir = FALSE
  /\ secret = None
  /\ public = None
  /\ used = {}
  /\ pc = [p \in Procs |-> "idle"]
  /\ privkey = [p \in Procs |-> None]
  /\ cert = [p \in Procs |-> None]
  /\ signed = {}
  /\ aborts = 0

Goto(p, label) == pc' = [pc EXCEPT ![p] = label]

Begin(p) ==
  /\ pc[p] = "idle"
  /\ serial => \A q \in Procs : pc[q] = "idle"
  /\ Goto(p, "test key")
  /\ privkey' = [privkey EXCEPT ![p] = None]
  /\ cert' = [cert EXCEPT ![p] = None]
  /\ UNCHANGED <<serial, disk, used, signed, aborts>>

-----------------------------------------------------------------------------
(* Mutations of the definitions below: plausible bugs that the properties   *)
(* must tell from the code.                                                 *)

\* The key is generated anew by every call.
TestKeyNever(p) ==
  /\ pc[p] = "test key"
  /\ Goto(p, "test dir")
  /\ UNCHANGED <<serial, disk, used, privkey, cert, signed, aborts>>

\* A key without its certificate is taken for one that is still being written.
ReadKeyWaits(p) ==
  /\ pc[p] = "read key"
  /\ privkey' = [privkey EXCEPT ![p] = secret]
  /\ Goto(p, IF public = None THEN "test key" ELSE "test cert")
  /\ UNCHANGED <<serial, disk, used, cert, signed, aborts>>

-----------------------------------------------------------------------------
TestKey(p) ==
  /\ pc[p] = "test key"
  /\ Goto(p, IF secret = None THEN "test dir" ELSE "read key")
  /\ UNCHANGED <<serial, disk, used, privkey, cert, signed, aborts>>

ReadKey(p) ==
  /\ pc[p] = "read key"
  /\ privkey' = [privkey EXCEPT ![p] = secret]
  /\ Goto(p, "test cert")
  /\ UNCHANGED <<serial, disk, used, cert, signed, aborts>>

\* The key is generated, then jcat_mkdir_parent looks for the directory ...
\* Generated keys are new; which ones they are does not matter.
NewKey(p) ==
  /\ pc[p] = "test dir"
  /\ used # Keys
  /\ LET key == CHOOSE k \in Keys : k \notin used
     IN  /\ privkey' = [privkey EXCEPT ![p] = key]
         /\ used' = used \cup {key}
  /\ Goto(p, IF dir THEN "write key" ELSE "make dir")
  /\ UNCHANGED <<serial, disk, cert, signed, aborts>>

\* ... and makes it, which is an error if it has appeared in between.
MakeDir(p) ==
  /\ pc[p] = "make dir"
  /\ dir' = TRUE
  /\ Goto(p, IF dir THEN "idle" ELSE "write key")
  /\ UNCHANGED <<serial, secret, public, used, privkey, cert, signed, aborts>>

WriteKey(p) ==
  /\ pc[p] = "write key"
  /\ secret' = privkey[p]
  /\ Goto(p, "test cert")
  /\ UNCHANGED <<serial, dir, public, used, privkey, cert, signed, aborts>>

TestCert(p) ==
  /\ pc[p] = "test cert"
  /\ Goto(p, IF public = None THEN "write cert" ELSE "read cert")
  /\ UNCHANGED <<serial, disk, used, privkey, cert, signed, aborts>>

ReadCert(p) ==
  /\ pc[p] = "read cert"
  /\ cert' = [cert EXCEPT ![p] = public]
  /\ Goto(p, "sign")
  /\ UNCHANGED <<serial, disk, used, privkey, signed, aborts>>

\* The certificate is made from the private key in memory.
WriteCert(p) ==
  /\ pc[p] = "write cert"
  /\ cert' = [cert EXCEPT ![p] = privkey[p]]
  /\ public' = privkey[p]
  /\ Goto(p, "sign")
  /\ UNCHANGED <<serial, dir, secret, used, privkey, signed, aborts>>

\* jcat_gnutls_pkcs7_engine_pubkey_sign signs with the key, whatever the
\* certificate certifies.
Sign(p) ==
  /\ pc[p] = "sign"
  /\ signed' = signed \cup {privkey[p]}
  /\ Goto(p, "idle")
  /\ UNCHANGED <<serial, disk, used, privkey, cert, aborts>>

\* The process is killed, or a call it makes fails and self_sign returns.
Abort(p) ==
  /\ pc[p] # "idle"
  /\ aborts < MaxAborts
  /\ aborts' = aborts + 1
  /\ Goto(p, "idle")
  /\ UNCHANGED <<serial, disk, used, privkey, cert, signed>>

Step(p) ==
  \/ TestKey(p) \/ ReadKey(p) \/ NewKey(p) \/ MakeDir(p) \/ WriteKey(p)
  \/ TestCert(p) \/ ReadCert(p) \/ WriteCert(p) \/ Sign(p)

Next == \E p \in Procs : Begin(p) \/ Step(p) \/ Abort(p)

\* A process that is signing goes on.
Fairness == \A p \in Procs : WF_vars(Step(p))

Spec == Init /\ [][Next]_vars /\ Fairness

-----------------------------------------------------------------------------
(* Properties. *)

\* The variables keep their types.
TypeOK ==
  /\ serial \in BOOLEAN
  /\ dir \in BOOLEAN
  /\ {secret, public} \subseteq Keys \cup {None}
  /\ used \subseteq Keys /\ signed \subseteq Keys
  /\ pc \in [Procs -> {"idle", "test key", "read key", "test dir", "make dir", "write key",
                       "test cert", "read cert", "write cert", "sign"}]
  /\ privkey \in [Procs -> Keys \cup {None}]
  /\ cert \in [Procs -> Keys \cup {None}]

\* jcat_gnutls_pkcs7_engine_self_verify, of a signature made with key.
SelfVerify(key) == public = key

\* Every self-signature ever made by processes that take turns verifies on this
\* computer (README.md, "Self Signing"), whichever calls were cut short and where.
OwnSignaturesVerify == serial => \A key \in signed : SelfVerify(key)

\* The key pair of the keyring, once both files are there.
Pair == IF secret # None /\ public # None THEN secret ELSE None

P == INSTANCE JcatKeyPair
       WITH pair <- IF serial THEN Pair ELSE None,
            signed <- IF serial THEN signed ELSE {}

\* The file accesses of processes that take turns implement a key pair that is
\* generated once and for all.
RefinesKeyPair == P!Spec

\* Both files are there and match, and no process is about to write or to sign
\* with another key.
Settled ==
  /\ public # None /\ public = secret
  /\ \A p \in Procs :
       \/ pc[p] \in {"idle", "test key", "read key"}
       \/ pc[p] \in {"test cert", "read cert", "sign"} /\ privkey[p] = secret

\* Once the key pair is there, processes may sign at the same time: the keyring
\* stays as it is and what they sign verifies.
SettledKeyringIsSafe ==
  [][Settled => Settled' /\ \A key \in signed' \ signed : SelfVerify(key)']_vars

\* Whatever calls cut short have left behind, a keyring that keeps being used
\* signs in the end.
SigningRecovers == []<>(\E p \in Procs : pc[p] # "idle") => <>(signed # {})
=============================================================================
