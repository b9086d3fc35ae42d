\* Two runs, two process ids (so a dead run's id is met again), two files.
CONSTANTS
  Proc = {p1, p2}
  Pid = {i1, i2}
  Files = 2
  Nobody = Nobody
  NoDir = NoDir
  Out = Out
SPECIFICATION FairSpec
INVARIANTS IInv SomebodyWins
PROPERTIES OutputNeverClobbered AtomicPublication EventuallyPublished
CHECK_DEADLOCK FALSE
