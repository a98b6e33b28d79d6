CONSTANTS
  c1 = c1
  c2 = c2
  t1 = t1
  t2 = t2
  s1 = s1
  s2 = s2
  Consoles <- MCConsoles
  Times <- MCTimes
  Slugs <- MCSlugs
  Fields = 2
  Numbers = {1}
  MaxRuns = 3
SYMMETRY Symmetric
SPECIFICATION Spec
CHECK_DEADLOCK FALSE
INVARIANT ListedRunReadable
INVARIANT LossBounded
INVARIANT EntriesOfOneRun
