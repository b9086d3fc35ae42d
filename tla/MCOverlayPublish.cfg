CONSTANTS
  Proc = {p1, p2}
  Files = 2
  Dirs = 3
  UserMoves = 1
  Parent <- Parents
  DirOf <- Places
  User = User
  NoFile = NoFile
  NoDir = NoDir
SPECIFICATION FairSpec
INVARIANT IInv
PROPERTIES OthersUntouched EventuallyImported
CHECK_DEADLOCK FALSE
