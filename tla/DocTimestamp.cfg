CONSTANTS
  Rsa = rsa
  MlDsa = mldsa
  NoName = noname
  Certs <- MCCerts
  PqCerts <- MCPqCerts
  Signatures <- MCSignatures
  UtcOffsets <- MCUtcOffsets
  MaxKeys = 2
  MaxSignatures = 1
  Engines = {"libcrypto-pkcs7"}
SPECIFICATION MCSpec
INVARIANT DocTimestampIsUnix
