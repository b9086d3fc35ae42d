SPECIFICATION Spec
CONSTANTS
  Writer = {w1, w2, w3}
  Bare = {w3}
  Json = {w2}
  Files = 2
  UserMoves = 1
  Nobody = Nobody
  NoFile = NoFile
  NoDir = NoDir
INVARIANTS IInv VerdictIsExact AcceptedStays
CHECK_DEADLOCK FALSE
