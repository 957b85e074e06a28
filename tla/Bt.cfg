CONSTANTS
  Logs          = {lvfs, lvfsqa}
  PlusLogs      = {lvfsqa}
  Width         = 3
  MaxUint       = 3
  MaxUint64     = 7
  HashSize      = 1
  KeySize       = 2
  SignatureSize = 3
  MaxSize       = 8
  MaxNotes      = 2
SPECIFICATION Spec
INVARIANTS
  AcceptedIsSigned
  WholeIsVerified
  KeysAreWhole
  BitsAgree
