SPECIFICATION Spec
CONSTANTS
  Writer = {w1, w3}
  Bare = {w3}
  Json = {}
  Files = 1
  UserMoves = 0
  Nobody = Nobody
  NoFile = NoFile
  NoDir = NoDir
PROPERTY NoRunOverwritten
CHECK_DEADLOCK FALSE
