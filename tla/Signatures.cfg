CONSTANTS
  Rsa           = rsa
  MlDsa         = mldsa
  User          = user
  NoName        = noname
  NotPem        = not_pem
  Certs         <- MCSignCerts
  PqCerts       <- MCPqCerts
  Signatures    <- MCSignatures
  UtcOffsets    <- MCUtcOffsets
  MaxKeys       = 2
  MaxSignatures = 3
  Engines       = {"gnutls-pkcs7", "libcrypto-pkcs7", "gpg", "ed25519"}
  Certificates  <- MCCertificates
  SelfKeys      <- MCSelfKeys
  Now           = 2
SPECIFICATION MCSignSpec
INVARIANTS
  VerdictIsExact
  NewestIsReported
  AuthorityIsSigner
  FlagsOnlyRestrict
  SignedVerifies
  OnlyPairsVerify
