SPECIFICATION Spec
CONSTANTS
  i1 = i1
  i2 = i2
  s1 = s1
  s2 = s2
  job = job
  cron = cron
  None = None
  Instances = {i1, i2}
  Slots = {s1}
  Jobs = {job}
  Crons = {cron}
  Preexisting = {cron}
  Limit = 2
  QueueConcurrency = {1}
  InitialConcurrency = 1
  Outcomes = {"succeeded", "failed"}
  MaxFaults = 1
  MaxMoves = 0
  AttemptLimit <- MCAttemptLimit
SYMMETRY Symmetry
INVARIANTS ExecutesAlone AttemptsCounted
PROPERTIES ExpressionKept JobCancelled
