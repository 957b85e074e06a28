CONSTANTS
  Unknown     = "unknown"
  CsumKinds   <- MCCsumKinds
  SigKinds    <- MCSigKinds
  OtherKinds  <- MCOtherKinds
  PqFilters   <- MCPqFilters
  Keys        <- MCKeys
  PqKeys      <- MCPqKeys
  BlobData    <- MCBlobData
  File        = File
  Other       = Other
  MaxBlobs    = 3
  MaxTargeted = 2
  Requests    <- AllRequests
SPECIFICATION MCSpec
INVARIANTS
  LoopInv
  OrderIrrelevant
  FlagsOnlyRestrict
  TargetStandsForData
PROPERTIES
  RefinesVerdict
