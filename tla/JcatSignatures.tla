--------------------------- MODULE JcatSignatures ---------------------------
(***************************************************************************)
(* How an engine verifies one blob: the loop over the signatures in it     *)
(* (the two PKCS#7 engines and the GnuPG engine) or over the public keys   *)
(* (the Ed25519 engine), and what it reports of them in the JcatResult.    *)
(*                                                                         *)
(* Of a signature we keep the certificate (or key) its chain leads to,     *)
(* whether it is good, good but out of a certificate's validity period, or *)
(* bad, when it says it was made (0: it does not), and whether the name of *)
(* its issuer can be converted.                                            *)
(*                                                                         *)
(* One call is followed.  What earlier calls of the engine have left it is *)
(* the flag in the store of the OpenSSL engine, which may be anything.     *)
(***************************************************************************)
EXTENDS Integers, Sequences, SequencesExt, FiniteSetsExt

CONSTANTS
  Engines,     \* the engines at hand, of those below
  Certs,       \* certificates, which are the names of authorities too
  PqCerts,     \* those signed with ML-DSA
  NoName,      \* the empty authority
  Signatures,  \* the signatures a blob may hold
  UtcOffsets,  \* the local time, as an offset to UTC
  MaxKeys, MaxSignatures   \* bounds on the keys of an engine, the signatures of a blob

Gnutls    == "gnutls-pkcs7"
Libcrypto == "libcrypto-pkcs7"
Gpg       == "gpg"
Ed25519   == "ed25519"

ASSUME SignaturesAssumption ==
  /\ Engines \subseteq {Gnutls, Libcrypto, Gpg, Ed25519}
  /\ PqCerts \subseteq Certs /\ NoName \notin Certs
  /\ Signatures \subseteq [cert : Certs, named : BOOLEAN, time : Nat,
                           status : {"good", "expired", "bad"}]
  /\ UtcOffsets \subseteq Int
  /\ MaxKeys \in Nat /\ MaxSignatures \in Nat

VARIABLES
  input,      \* what is verified, with which engine, keys and flags
  no_check_time,  \* X509_V_FLAG_NO_CHECK_TIME of the store CMS_verify is given
  next,       \* the signature or key the loop is at; 0: CMS_verify was not called yet
  newest,     \* timestamp_newest
  authority,  \* authority_newest
  outcome     \* "running", "accepted" or "rejected"

vars == <<input, no_check_time, next, newest, authority, outcome>>

\* The keys are those that were added, or for self_verify the one certificate of
\* the keyring: none if it cannot be read.  The GnuPG engine has no self_verify,
\* signatures of GnuPG have a time, and one of Ed25519 is alone in its blob.
Input ==
  {i \in [engine : Engines, self : BOOLEAN, keys : BoundedSeq(Certs, MaxKeys),
          sigs : BoundedSeq(Signatures, MaxSignatures),
          disable_time_checks : BOOLEAN, only_pq : BOOLEAN, utc_offset : UtcOffsets] :
     /\ i.self => Len(i.keys) <= 1 /\ i.engine # Gpg
     /\ i.engine = Gpg => \A n \in DOMAIN i.sigs : i.sigs[n].time # 0
     /\ i.engine = Ed25519 => Len(i.sigs) = 1}

\* The OpenSSL engine verifies with its own store, as earlier calls have left it:
\* self_verify with a new one.
Start ==
  /\ no_check_time \in IF input.engine = Libcrypto /\ ~input.self THEN BOOLEAN ELSE {FALSE}
  /\ next = IF input.engine = Libcrypto THEN 0 ELSE 1
  /\ newest = 0
  /\ authority = NoName

Init ==
  /\ input \in Input
  /\ Start
  /\ outcome = "running"

Runs(engine) == outcome = "running" /\ input.engine = engine

Answer(o) ==
  /\ outcome' = o
  /\ UNCHANGED <<input, no_check_time, next, newest, authority>>

Sig == input.sigs[next]

-----------------------------------------------------------------------------
(* When one signature holds. *)

KeySet(i) == ToSet(i.keys)

InTime(disabled, s) == s.status = "good" \/ (s.status = "expired" /\ disabled)

(* A mutation of TrustList: any post-quantum certificate is trusted. *)
TrustOnlyPqCerts(i) == IF i.only_pq THEN PqCerts ELSE KeySet(i)

\* jcat_gnutls_pkcs7_engine_build_trust_list and _only_pq; self_verify makes the
\* same test of its one certificate.  It is the signature on the certificate that
\* is looked at.  An empty list is an error.
TrustList(i) == IF i.only_pq THEN KeySet(i) \cap PqCerts ELSE KeySet(i)

GnutlsHolds(i, s)    == s.cert \in TrustList(i) /\ InTime(i.disable_time_checks, s)

\* ONLY_PQ is not looked at.
LibcryptoHolds(i, s) == s.cert \in KeySet(i) /\ InTime(i.disable_time_checks, s)

\* jcat_gpg_engine_check_signature: the status has to be GPG_ERR_NO_ERROR.
GpgHolds(i, s)       == s.cert \in KeySet(i) /\ s.status = "good"

Ed25519Holds(key, s) == s.cert = key /\ s.status # "bad"

-----------------------------------------------------------------------------
(* jcat_gnutls_pkcs7_engine_verify *)

GnutlsTime(s) == IF s.time > 0 THEN s.time ELSE 1

GnutlsNoSignatures == Runs(Gnutls) /\ input.sigs = <<>> /\ Answer("rejected")

GnutlsFails ==
  /\ Runs(Gnutls) /\ next \in DOMAIN input.sigs
  /\ ~GnutlsHolds(input, Sig)
  /\ Answer("rejected")

(* Mutations of GnutlsVerifies. *)

\* The last signature is reported, not the newest.
GnutlsLatest ==
  /\ Runs(Gnutls) /\ next \in DOMAIN input.sigs
  /\ GnutlsHolds(input, Sig)
  /\ next' = next + 1
  /\ newest' = GnutlsTime(Sig)
  /\ authority' = IF Sig.named THEN Sig.cert ELSE authority
  /\ UNCHANGED <<input, no_check_time, outcome>>

\* The authority is that of the first signature.
GnutlsFirstAuthority ==
  /\ Runs(Gnutls) /\ next \in DOMAIN input.sigs
  /\ GnutlsHolds(input, Sig)
  /\ next' = next + 1
  /\ newest' = IF GnutlsTime(Sig) > newest THEN GnutlsTime(Sig) ELSE newest
  /\ authority' = IF authority = NoName /\ Sig.named THEN Sig.cert ELSE authority
  /\ UNCHANGED <<input, no_check_time, outcome>>

\* A name that cannot be converted leaves the authority of an older signature.
GnutlsVerifies ==
  /\ Runs(Gnutls) /\ next \in DOMAIN input.sigs
  /\ GnutlsHolds(input, Sig)
  /\ next' = next + 1
  /\ IF GnutlsTime(Sig) > newest
     THEN /\ newest' = GnutlsTime(Sig)
          /\ authority' = IF Sig.named THEN Sig.cert ELSE authority
     ELSE UNCHANGED <<newest, authority>>
  /\ UNCHANGED <<input, no_check_time, outcome>>

GnutlsAccepts ==
  /\ Runs(Gnutls) /\ input.sigs # <<>> /\ next > Len(input.sigs)
  /\ Answer("accepted")

-----------------------------------------------------------------------------
(* jcat_libcrypto_pkcs7_engine_verify: CMS_verify looks at all signatures,  *)
(* then the loop reads their times.  The time is UTC, and mktime takes it   *)
(* for local time.                                                          *)

Mktime(s) == s.time - input.utc_offset

(* A mutation of ConfigureStore: the flag of an earlier call is not cleared. *)
ConfigureStoreOnlySets == no_check_time' = (no_check_time \/ input.disable_time_checks)

\* The flag is set or cleared, for what earlier calls have left.
ConfigureStore == no_check_time' = input.disable_time_checks

\* CMS_verify with such a store: it goes by the flag in the store.
CmsVerifies(disabled) ==
  /\ input.sigs # <<>>
  /\ \A n \in DOMAIN input.sigs :
       input.sigs[n].cert \in KeySet(input) /\ InTime(disabled, input.sigs[n])

LibcryptoFails ==
  /\ Runs(Libcrypto) /\ next = 0
  /\ ConfigureStore /\ ~CmsVerifies(no_check_time')
  /\ outcome' = "rejected"
  /\ UNCHANGED <<input, next, newest, authority>>

LibcryptoVerifies ==
  /\ Runs(Libcrypto) /\ next = 0
  /\ ConfigureStore /\ CmsVerifies(no_check_time')
  /\ next' = 1
  /\ UNCHANGED <<input, newest, authority, outcome>>

\* It has no time, or it is newer and its issuer cannot be printed.
LibcryptoReadFails ==
  /\ Runs(Libcrypto) /\ next \in DOMAIN input.sigs
  /\ Sig.time = 0 \/ (Mktime(Sig) > newest /\ ~Sig.named)
  /\ Answer("rejected")

(* A mutation of LibcryptoReads: the authority is set, whatever is newest. *)
LibcryptoReadsAny ==
  /\ Runs(Libcrypto) /\ next \in DOMAIN input.sigs
  /\ Sig.time # 0 /\ (Mktime(Sig) > newest => Sig.named)
  /\ next' = next + 1
  /\ newest' = IF Mktime(Sig) > newest THEN Mktime(Sig) ELSE newest
  /\ authority' = Sig.cert
  /\ UNCHANGED <<input, no_check_time, outcome>>

LibcryptoReads ==
  /\ Runs(Libcrypto) /\ next \in DOMAIN input.sigs
  /\ Sig.time # 0 /\ (Mktime(Sig) > newest => Sig.named)
  /\ next' = next + 1
  /\ IF Mktime(Sig) > newest
     THEN newest' = Mktime(Sig) /\ authority' = Sig.cert
     ELSE UNCHANGED <<newest, authority>>
  /\ UNCHANGED <<input, no_check_time, outcome>>

LibcryptoAccepts ==
  /\ Runs(Libcrypto) /\ next > Len(input.sigs)
  /\ Answer("accepted")

-----------------------------------------------------------------------------
(* jcat_gpg_engine_pubkey_verify *)

\* gpgme_op_verify fails or finds no signature, or one does not check.
GpgFails ==
  /\ Runs(Gpg)
  /\ input.sigs = <<>> \/ (next \in DOMAIN input.sigs /\ ~GpgHolds(input, Sig))
  /\ Answer("rejected")

GpgChecks ==
  /\ Runs(Gpg) /\ next \in DOMAIN input.sigs
  /\ GpgHolds(input, Sig)
  /\ next' = next + 1
  /\ IF Sig.time > newest
     THEN newest' = Sig.time /\ authority' = Sig.cert
     ELSE UNCHANGED <<newest, authority>>
  /\ UNCHANGED <<input, no_check_time, outcome>>

GpgAccepts ==
  /\ Runs(Gpg) /\ input.sigs # <<>> /\ next > Len(input.sigs)
  /\ Answer("accepted")

-----------------------------------------------------------------------------
(* jcat_gnutls_ed25519_engine_pubkey_verify, with one key self_verify *)

Ed25519NoKeys == Runs(Ed25519) /\ input.keys = <<>> /\ Answer("rejected")

Ed25519Verifies ==
  /\ Runs(Ed25519) /\ next \in DOMAIN input.keys
  /\ Ed25519Holds(input.keys[next], input.sigs[1])
  /\ Answer("accepted")

(* A mutation of Ed25519TryNext: the first key decides. *)
Ed25519FirstKey ==
  /\ Runs(Ed25519) /\ next \in DOMAIN input.keys
  /\ ~Ed25519Holds(input.keys[next], input.sigs[1])
  /\ Answer("rejected")

Ed25519TryNext ==
  /\ Runs(Ed25519) /\ next \in DOMAIN input.keys
  /\ ~Ed25519Holds(input.keys[next], input.sigs[1])
  /\ next' = next + 1
  /\ UNCHANGED <<input, no_check_time, newest, authority, outcome>>

Ed25519KeysEnd ==
  /\ Runs(Ed25519) /\ input.keys # <<>> /\ next > Len(input.keys)
  /\ Answer("rejected")

Next ==
  \/ GnutlsNoSignatures \/ GnutlsFails \/ GnutlsVerifies \/ GnutlsAccepts
  \/ LibcryptoFails \/ LibcryptoVerifies \/ LibcryptoReadFails \/ LibcryptoReads
  \/ LibcryptoAccepts
  \/ GpgFails \/ GpgChecks \/ GpgAccepts
  \/ Ed25519NoKeys \/ Ed25519Verifies \/ Ed25519TryNext \/ Ed25519KeysEnd

Spec == Init /\ [][Next]_vars /\ WF_vars(Next)

-----------------------------------------------------------------------------
(* Properties. *)

\* The variables keep their types.
TypeOK ==
  /\ input \in [engine : Engines, self : BOOLEAN, keys : Seq(Certs), sigs : Seq(Signatures),
                disable_time_checks : BOOLEAN, only_pq : BOOLEAN, utc_offset : UtcOffsets]
  /\ no_check_time \in BOOLEAN
  /\ next \in Nat
  /\ newest \in Nat
  /\ authority \in Certs \cup {NoName}
  /\ outcome \in {"running", "accepted", "rejected"}

All(i, One(_, _)) == i.sigs # <<>> /\ \A n \in DOMAIN i.sigs : One(i, i.sigs[n])

\* The verdict on a blob, without the loops.
Holds(i) ==
  CASE i.engine = Gnutls    -> All(i, GnutlsHolds)
    [] i.engine = Libcrypto -> All(i, LibcryptoHolds)
    [] i.engine = Gpg       -> All(i, GpgHolds)
    [] i.engine = Ed25519   -> \E key \in KeySet(i) : Ed25519Holds(key, i.sigs[1])

\* No early return of a loop gets the verdict wrong, and no flag that an earlier call
\* has left: a blob is accepted if every signature in it holds under the flags of this
\* call, or any key verifies it.  (OpenSSL may also find it unable to report a time or
\* a name.)
VerdictIsExact ==
  /\ outcome = "accepted" => Holds(input)
  /\ outcome = "rejected" /\ input.engine # Libcrypto => ~Holds(input)

Time(i, s) ==
  CASE i.engine = Gnutls    -> GnutlsTime(s)
    [] i.engine = Libcrypto -> s.time - i.utc_offset
    [] OTHER                -> s.time

\* The timestamp of the result is that of the newest signature, wherever it is: 0 if
\* mktime takes that for one of before 1970.
NewestIsReported ==
  outcome = "accepted" =>
    newest = IF input.engine = Ed25519 THEN 0
             ELSE Max({0} \cup {Time(input, s) : s \in ToSet(input.sigs)})

\* The authority of the result is a key that was trusted and made a signature,
\* and the newest one unless the name of that cannot be converted.
AuthorityIsSigner ==
  outcome = "accepted" /\ authority # NoName =>
    \E s \in ToSet(input.sigs) :
      /\ s.cert = authority /\ authority \in KeySet(input)
      /\ \/ newest = Time(input, s)
         \/ \E t \in ToSet(input.sigs) : ~t.named /\ newest = Time(input, t)

\* Time checks and post-quantum keys only restrict what is accepted.  (With
\* self_verify, the latter are in a file of their own.)
FlagsOnlyRestrict ==
  outcome = "accepted" =>
    /\ Holds([input EXCEPT !.disable_time_checks = TRUE])
    /\ ~input.self => Holds([input EXCEPT !.only_pq = FALSE])

\* jcat-result.c, jcat_result_get_timestamp: "Returns: UNIX timestamp".
DocTimestampIsUnix ==
  outcome = "accepted" /\ newest > 1 => \E s \in ToSet(input.sigs) : s.time = newest

=============================================================================
