CONSTANTS
  KeyFiles    = {"GPG-KEY-a", "b.pem"}
  RawKeys     = {"raw"}
  MemEngines  = {"pkcs7"}
  Gpg         = "gpg"
  EngineOf    <- MCEngineOf
  Paths       = {"home", "other"}
  DefaultPath = "home"
  UserHome    = "~/.gnupg"
  GpgBinary   = "gpg-binary"
  MaxKeys     = 2
  MaxRestarts = 1
SPECIFICATION Spec
INVARIANTS
  OnlyAddedKeys
PROPERTIES
  SetupLoadsEveryKey
  TrustIsKept
  SetupRecovers
