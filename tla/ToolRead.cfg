CONSTANTS
  Unknown      = "unknown"
  CsumKinds    <- MCCsumKinds
  SigKinds     <- MCSigKinds
  OtherKinds   <- MCOtherKinds
  PqFilters    <- MCPqFilters
  Keys         <- MCKeys
  PqKeys       <- MCPqKeys
  BlobData     <- MCBlobData
  Ids          <- MCIds
  AppstreamIds <- MCAppstreamIds
  NoAppstream  = none
  Unreadable   = unreadable
  Commands     <- MCCommands
  A            = a
  B            = b
  File         = file
  Other        = other
  App          = app
SPECIFICATION MCSpec
INVARIANTS
  VerifyIsExact
  AgreesWithLibrary
  ExportIsComplete
