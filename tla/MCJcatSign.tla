----------------------------- MODULE MCJcatSign -----------------------------
(* JcatSign with the certificates of MCJcatSignatures: Rsa has issued       *)
(* itself, an expired certificate and that of a user; MlDsa has issued      *)
(* itself.                                                                  *)
EXTENDS JcatSign, MCJcatSignatures

CONSTANT User

MCSignCerts == {Rsa, MlDsa, User}

Certificate(key, issuer, expired) == [key |-> key, issuer |-> issuer, expired |-> expired]

MCCertificates ==
  { Certificate(Rsa, Rsa, FALSE), Certificate(MlDsa, MlDsa, FALSE),
    Certificate(User, Rsa, FALSE), Certificate(User, Rsa, TRUE) }

\* Two RSA keys: the certificate in the keyring may be another one by the time.
MCSelfKeys == {Rsa, User, MlDsa}

Ended == outcome \in {"accepted", "rejected", "unsigned"} /\ UNCHANGED signVars

MCSignSpec == (SignInit \/ NoRequest) /\ [][SignNext \/ Ended]_signVars
=============================================================================
