SPECIFICATION FairSpec
CONSTANTS
  i1 = i1
  i2 = i2
  s1 = s1
  s2 = s2
  job = job
  cron = cron
  None = None
  Instances = {i1}
  Slots = {s1, s2}
  Jobs = {job}
  Crons = {cron}
  Preexisting = {}
  Limit = 1
  QueueConcurrency = {1, 2}
  InitialConcurrency = 2
  Outcomes = {"succeeded", "failed"}
  MaxFaults = 1
  MaxMoves = 1
  AttemptLimit <- MCAttemptLimit
PROPERTIES ExcessStops TasksGoOn
