------------------------------ MODULE JcatSign ------------------------------
(***************************************************************************)
(* How an engine signs (pubkey_sign of the PKCS#7 and Ed25519 engines, and *)
(* self_sign once it has its pair), and what an engine then makes of the   *)
(* signature: JcatSignatures goes on with the blob that was signed, in the *)
(* build that has signed it or in the other one.  What self_sign has made  *)
(* is given to self_verify, which reads a certificate file of the keyring: *)
(* the engine and a flag of its own decide which.                          *)
(*                                                                         *)
(* A key goes by the name of its certificate, as in JcatSignatures.  Of a  *)
(* certificate file we keep the key it is for, the certificate its issuer  *)
(* has, and whether it is out of its validity period.                      *)
(***************************************************************************)
EXTENDS JcatSignatures

CONSTANTS
  Certificates,   \* the certificates there are files of
  SelfKeys,       \* the keys self_sign may generate
  NotPem,         \* a file that is neither a certificate nor a key
  Now             \* the time it is

ASSUME SignAssumption ==
  /\ Certificates \subseteq [key : Certs, issuer : Certs, expired : BOOLEAN]
  /\ SelfKeys \subseteq Certs /\ NotPem \notin Certs \cup Certificates
  /\ Now \in Nat \ {0}

VARIABLES
  request,   \* the call that has made the signature, a set of at most one
  keyring    \* the certificate files when it is verified: <<>>, or <<key>> for one of a key

signVars == <<request, keyring, vars>>

-----------------------------------------------------------------------------
(* The pair self_sign uses, which it generates if there is none.            *)

CreatePrivateKeyGnutls(pq) == {key \in SelfKeys : key \in PqCerts <=> pq}

\* USE_PQ is not looked at.
CreatePrivateKeyLibcrypto(pq) == SelfKeys \ PqCerts

\* Without a time of expiration, and signed with its own key.
ClientCertificateGnutls(key)    == [key |-> key, issuer |-> key, expired |-> FALSE]
ClientCertificateLibcrypto(key) == [key |-> key, issuer |-> key, expired |-> FALSE]

SelfPairs(engine, pq) ==
  IF engine = Gnutls
  THEN {<<ClientCertificateGnutls(key), key>> : key \in CreatePrivateKeyGnutls(pq)}
  ELSE {<<ClientCertificateLibcrypto(key), key>> : key \in CreatePrivateKeyLibcrypto(pq)}

\* The pairs of either build that an engine can read: OpenSSL reads no post-quantum
\* key.  openssl35 is OPENSSL_VERSION_PREREQ(3, 5), which OpenSSL is built with.
ReadablePairs(signer) ==
  LET made(pq) == SelfPairs(Gnutls, pq) \cup SelfPairs(Libcrypto, pq)
  IN  made(FALSE) \cup IF signer = Gnutls THEN made(TRUE) ELSE {}

SelfRequests(signer) ==
  UNION {[engine : {signer}, self : {TRUE}, empty : BOOLEAN, openssl35 : BOOLEAN,
          add_timestamp : BOOLEAN, add_cert : BOOLEAN, cert : {p[1]}, key : {p[2]}] :
            p \in ReadablePairs(signer)}

\* The file self_sign keeps a certificate in.  GnuTLS goes by USE_PQ, by which the key
\* was made too, and OpenSSL has no post-quantum key.
CertificateFile(pq) == IF pq THEN "client-mldsa87.pem" ELSE "client.pem"

\* The certificate a signature was made with may have been removed, or replaced.
Keyring ==
  {files \in [{CertificateFile(pq) : pq \in BOOLEAN} -> {<<>>} \cup {<<key>> : key \in SelfKeys}] :
     \A key \in SelfKeys, pq \in BOOLEAN :
       files[CertificateFile(pq)] = <<key>> => (key \in PqCerts <=> pq)}

EmptyKeyring == [file \in {CertificateFile(pq) : pq \in BOOLEAN} |-> <<>>]

(* A mutation of SelfVerifyFile: ONLY_PQ is forgotten. *)
SelfVerifyFileClassic(engine, only_pq) == CertificateFile(FALSE)

\* The file self_verify reads: USE_PQ and ONLY_PQ are flags of different calls.
SelfVerifyFile(engine, only_pq) == CertificateFile(engine = Gnutls /\ only_pq)

\* pubkey_sign of a program and jcat-tool sign add the certificate; self_sign is
\* also called without it (jcat-tool), and self_verify has the certificate then.
Request ==
  [engine : Engines \ {Gpg}, self : {FALSE}, empty : BOOLEAN, openssl35 : BOOLEAN,
   add_timestamp : BOOLEAN, add_cert : {TRUE},
   cert : Certificates \cup {NotPem}, key : Certs \cup {NotPem}]
    \cup
  UNION {SelfRequests(signer) : signer \in Engines \ {Gpg, Ed25519}}

-----------------------------------------------------------------------------
(* pubkey_sign: the signatures that may come of a request; none if it fails. *)

\* jcat_gnutls_pkcs7_load_privkey_from_blob, _load_crt_from_blob
GnutlsLoads(key, cert) == key # NotPem /\ cert # NotPem

\* jcat_libcrypto_pkcs7_load_privkey_from_blob_pem is for RSA keys.
LibcryptoLoads(key, cert) == key \in Certs \ PqCerts /\ cert # NotPem

Status(r) ==
  IF r.key # r.cert.key THEN "bad" ELSE IF r.cert.expired THEN "expired" ELSE "good"

\* With its certificate the chain of a signature leads to the issuer.
SignatureAt(r, time) ==
  [cert |-> IF r.add_cert THEN r.cert.issuer ELSE r.cert.key,
   named |-> TRUE, time |-> time, status |-> Status(r)]

(* A mutation of GnutlsSigns: the certificate is left out. *)
GnutlsSignsBare(r) ==
  IF r.empty \/ ~GnutlsLoads(r.key, r.cert) THEN {}
  ELSE {SignatureAt([r EXCEPT !.add_cert = FALSE], IF r.add_timestamp THEN Now ELSE 0)}

\* Nothing compares the key with the certificate.
GnutlsSigns(r) ==
  IF r.empty \/ ~GnutlsLoads(r.key, r.cert) THEN {}
  ELSE {SignatureAt(r, IF r.add_timestamp THEN Now ELSE 0)}

(* A mutation of LibcryptoSigns: the flag is read the wrong way round. *)
LibcryptoSignsUntimed(r) ==
  IF r.empty \/ ~LibcryptoLoads(r.key, r.cert) \/ r.key # r.cert.key THEN {}
  ELSE {SignatureAt(r, IF r.add_timestamp /\ r.openssl35 THEN 0 ELSE Now)}

\* CMS_sign returns NULL for a key that is not the certificate's.  The result is not
\* looked at; encoding it is what fails then.
LibcryptoSigns(r) ==
  IF r.empty \/ ~LibcryptoLoads(r.key, r.cert) \/ r.key # r.cert.key THEN {}
  ELSE {SignatureAt(r, IF r.add_timestamp \/ ~r.openssl35 THEN Now ELSE 0)}

\* The certificate is the raw public key here.  GnuTLS may refuse one that is not
\* the private key's, sign with it all the same, or go by the private key.
Ed25519Signs(r) ==
  IF r.empty \/ NotPem \in {r.key, r.cert} THEN {}
  ELSE {[cert |-> r.key, named |-> TRUE, time |-> 0, status |-> status] :
          status \in IF r.key = r.cert.key THEN {"good"} ELSE {"good", "bad"}}

PubkeySigns(r) ==
  CASE r.engine = Gnutls    -> GnutlsSigns(r)
    [] r.engine = Libcrypto -> LibcryptoSigns(r)
    [] r.engine = Ed25519   -> Ed25519Signs(r)

MayFail(r) ==
  PubkeySigns(r) = {} \/ (r.engine = Ed25519 /\ r.cert # NotPem /\ r.key # r.cert.key)

-----------------------------------------------------------------------------
(* Signing, then verifying with an engine of the same blob kind.            *)

SameKind(e, f) == (e = Ed25519) <=> (f = Ed25519)

SignInit ==
  /\ request \in {{r} : r \in Request}
  /\ \E r \in request :
       /\ keyring \in IF r.self THEN Keyring ELSE {EmptyKeyring}
       /\ input \in {i \in [engine : Engines, self : {r.self},
                            keys : IF r.self THEN Range(keyring) ELSE BoundedSeq(Certs, MaxKeys),
                            sigs : {<<>>}, disable_time_checks : BOOLEAN, only_pq : BOOLEAN,
                            utc_offset : UtcOffsets] :
                       /\ SameKind(i.engine, r.engine) /\ i.engine # Gpg
                       /\ r.self => i.keys = keyring[SelfVerifyFile(i.engine, i.only_pq)]}
  /\ Start
  /\ outcome = "signing"

Sign ==
  /\ outcome = "signing"
  /\ \E r \in request : \E s \in PubkeySigns(r) : input' = [input EXCEPT !.sigs = <<s>>]
  /\ outcome' = "running"
  /\ UNCHANGED <<request, keyring, no_check_time, next, newest, authority>>

SignFails ==
  /\ outcome = "signing"
  /\ \E r \in request : MayFail(r)
  /\ outcome' = "unsigned"
  /\ UNCHANGED <<request, keyring, input, no_check_time, next, newest, authority>>

Verifies == Next /\ UNCHANGED <<request, keyring>>

SignNext == Sign \/ SignFails \/ Verifies

\* Or any signature is verified, as in JcatSignatures.
NoRequest == Init /\ request = {} /\ keyring = EmptyKeyring

SignSpec == (SignInit \/ NoRequest) /\ [][SignNext]_signVars

-----------------------------------------------------------------------------
(* Properties. *)

\* The certificate that has to be trusted for what was signed.
Root(r) == IF r.engine = Ed25519 THEN r.key ELSE r.cert.issuer

Pair(r) == r.key = r.cert.key

\* The root is trusted: it is among the keys of the engine, or the certificate is still
\* where self_sign has found or put it.
Trusted(r) ==
  IF r.self THEN keyring[CertificateFile(r.key \in PqCerts)] = <<r.cert.key>>
  ELSE Root(r) \in KeySet(input)

\* What is signed with a pair whose issuer is trusted verifies in every build and with
\* all flags, unless
\*  - the certificate has expired,
\*  - it is not post-quantum and GnuTLS is asked for ONLY_PQ,
\*  - OpenSSL is to verify a signature without a time, which its engine cannot do: what
\*    self_sign signs with OpenSSL 3.5 and no ADD_TIMESTAMP (jcat-tool) is of that kind,
\*  - or self_verify looks in client.pem for a post-quantum certificate, as it does
\*    without ONLY_PQ, and always with OpenSSL.
SignedVerifies ==
  outcome = "rejected" =>
    \A r \in request :
      Pair(r) /\ Trusted(r) =>
        \/ r.engine # Ed25519 /\ r.cert.expired /\ ~input.disable_time_checks
        \/ input.engine = Gnutls /\ input.only_pq /\ Root(r) \notin PqCerts
        \/ /\ input.engine = Libcrypto /\ ~r.add_timestamp
           /\ r.engine = Gnutls \/ r.openssl35
        \/ /\ r.self /\ Root(r) \in PqCerts
           /\ input.engine = Gnutls => ~input.only_pq

\* A key that is not the certificate's never yields a PKCS#7 signature that verifies,
\* though GnuTLS makes one, and the result of a verification has the time of
\* signing, if that was asked for: 0 if mktime takes that for one of before 1970.
OnlyPairsVerify ==
  outcome = "accepted" =>
    \A r \in request :
      /\ r.engine # Ed25519 => Pair(r)
      /\ Root(r) \in KeySet(input)
      /\ r.engine # Ed25519 /\ r.add_timestamp =>
           newest = IF input.engine = Gnutls THEN Now ELSE Max({0, Now - input.utc_offset})
=============================================================================
