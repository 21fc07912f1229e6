SPECIFICATION FairSpec
CONSTANTS
  b1 = b1
  b2 = b2
  commit1 = commit1
  commit2 = commit2
  cancel1 = cancel1
  other = other
  Begins = {b1, b2}
  Commits = {commit1, commit2}
  Cancels = {cancel1}
  Others = {other}
  Of <- MCOf
  PoolSize = 2
  MaxFaults = 1
  Old = Old
  Fake = Fake
  Null = Null
  Gone = Gone
  None = None
INVARIANTS TypeOK NoDangling StatusIsTrue
PROPERTIES CompletedWithItsRow ActionsEnd
CHECK_DEADLOCK FALSE
