CONSTANTS
  Callers = {c1, c2, c3}
  Leases = {l1, l2}
  Tables = {t1, t2}
  None = None
SPECIFICATION FairSpec
INVARIANTS
  LeasedFilesOpen
PROPERTIES
  OwnersKept
  ClosesReturn
