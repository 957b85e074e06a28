CONSTANTS
  Unknown     = "unknown"
  CsumKinds   <- MCCsumKinds
  SigKinds    <- MCSigKinds
  OtherKinds  <- MCOtherKinds
  PqFilters   <- MCPqFilters
  Keys        <- MCKeys
  PqKeys      <- MCPqKeys
  BlobData    <- MCBlobData
  File        = File
  Other       = Other
  MaxBlobs    = 3
  MaxTargeted = 2
  Requests    <- TargetRequests
SPECIFICATION MCSpec
INVARIANT DocTargetHasChecksum
