SPECIFICATION Spec
CONSTANTS
  Sources = 2
  Version <- Contents
  Gone = Gone
  RowId <- ShortIds
  FullId <- LongIds
  MaxResources = 2
  MaxSourceBytes = 4
  MaxOutputBytes = 101
  ManifestBytes = 10
  RecordBytes = 4
  Edits = 0
INVARIANT OwnOutputVerifies
CHECK_DEADLOCK FALSE
