\* A package run and a project run; two resources, so that one can be lost
\* behind another.
CONSTANTS
  Proc = {p1, p2}
  Package = {p1}
  Files = 2
  Nobody = Nobody
  NoDir = NoDir
  NoFile = NoFile
SPECIFICATION FairSpec
INVARIANT IInv
PROPERTIES OthersUntouched AtomicPublication EventuallyPublished
CHECK_DEADLOCK FALSE
