SPECIFICATION FairSpec
CONSTANTS
  Sources = 2
  Version <- Contents
  Gone = Gone
  RowId <- Ids
  FullId <- Ids
  MaxResources = 2
  MaxSourceBytes = 4
  MaxOutputBytes = 101
  ManifestBytes = 10
  RecordBytes = 4
  Edits = 2
INVARIANTS IInv WithinLimits AcceptedAgrees OwnOutputVerifies
PROPERTY AdmissibleIsVerified
CHECK_DEADLOCK FALSE
