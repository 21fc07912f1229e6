SPECIFICATION FairSpec
CONSTANTS
  old1 = old1
  old2 = old2
  new1 = new1
  new2 = new2
  k1 = k1
  k2 = k2
  Instances = {old1, new1}
  New = {}
  Keys = {k1}
  Finalized = {}
  ErrorThreshold = 2
  Rows = 1
  Switchable = {}
  Operated = {}
  Crashes = 1
  Losses = 2
  Failures = 2
  NewRows = 1
  Finalizes <- MCFinalizes
  MaxFaults <- MCMaxFaults
PROPERTIES RecordIsCurrent ConvergedOnce MigrationGoesOn
