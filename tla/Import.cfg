CONSTANTS
  Ids         <- MCIds
  NoId        = empty
  Other       = other
  NotJson     = not_json
  Limit       = 8
  NullIfEmpty = TRUE
  NewBlobs    <- MCNewBlobs
  Documents   <- MCDocuments
  MaxItems    = 2
  MaxBlobs    = 1
  MaxTime     = 2
  A           = a
  B           = b
SPECIFICATION Spec
INVARIANTS
  RoundTrip
  AgreesWithJcatJson
PROPERTIES
  ImportAppends
  NumbersAreKept
VIEW View
