SPECIFICATION FairSpec
CONSTANTS
  plain = plain
  hooked = hooked
  reader = reader
  c1 = c1
  c2 = c2
  c3 = c3
  Unset = Unset
  None = None
  Txs = {plain, hooked, reader}
  Clients = {c1, c2}
  PoolSize = 2
  Readers = {reader}
  Timed = {plain}
  Hooked = {hooked}
  Cancellable = {plain}
  Droppers = {hooked}
  Lenient = {plain}
  Hanging = {plain}
  MaxStatements = 1
  MaxFaults = 1
  TimeoutMS <- MCTimeoutMS
INVARIANTS OwnConnection CleanPool SettledIsAnnounced
PROPERTIES AtomicSpec ConnectionReturned
CHECK_DEADLOCK FALSE
