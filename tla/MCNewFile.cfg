\* Two runs of any kinds at one path: one at work and one that finds its file, or
\* comes after it.
CONSTANTS
  Proc = {p1, p2}
  User = User
  NoFile = NoFile
SPECIFICATION FairSpec
INVARIANT IInv
PROPERTIES NoClobber EventuallyWritten
CHECK_DEADLOCK FALSE
