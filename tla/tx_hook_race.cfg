SPECIFICATION Spec
CONSTANTS
  plain = plain
  hooked = hooked
  reader = reader
  c1 = c1
  c2 = c2
  c3 = c3
  Unset = Unset
  None = None
  Txs = {plain, hooked}
  Clients = {c1}
  PoolSize = 1
  Readers = {}
  Timed = {}
  Hooked = {hooked}
  Cancellable = {hooked}
  Droppers = {}
  Lenient = {}
  Hanging = {}
  MaxStatements = 1
  MaxFaults = 0
  TimeoutMS <- MCTimeoutMS
INVARIANTS OwnConnection
CHECK_DEADLOCK FALSE
