SPECIFICATION SessionSpec
CONSTANTS
  Refused = Refused
  Absent = Absent
  MaxPreview = 64
  PageSlots = 2
  PageWords = 2
  LuaChunks <- MCLuaChunks
  XmlDocuments <- MCXmlDocuments
  Disks <- MCDisks
  Edited <- MCEdited
  Hows <- MCHows
  Requests <- MCRequests
  Batches <- MCBatches
  Inputs <- MCInputs
  Contents <- MCContents
  SheetNames <- MCSheetNames
  MaxDepth = 2
  MaxReferences = 4
  MaxOutput = 4
  MaxControls = 2
  MaxMessage = 5
  Lookups <- MCLookups
  Messages <- MCMessages
  Changing <- MCChanging
  MaxAsks = 2
  MaxChanges = 2
INVARIANTS
  OwnOutputAccepted
  AcceptedIsExtracted
  ReadersHold
  AnswersPinned
CHECK_DEADLOCK FALSE
