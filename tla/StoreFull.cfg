CONSTANTS
  Ids = {a, b, empty, raw}
  Kinds = {sha256, pkcs7}
  Checksum = sha256
  Pkcs7 = pkcs7
  Unknown = unknown
  Procs = {p}
  NewBlobs <- MCNewBlobs
  Files <- MCFiles
  NoId = empty
  RawIds = {raw}
  NullIfEmpty = TRUE
  MaxItems = 2
  MaxParts = 3
  MaxUnclean = 1
  MaxFaults = 1
SPECIFICATION Spec
PROPERTY DocSuccessIsStored
