SPECIFICATION Spec
CONSTANTS
  old1 = old1
  old2 = old2
  new1 = new1
  new2 = new2
  k1 = k1
  k2 = k2
  Instances = {old1, new1, new2}
  New = {new1, new2}
  Keys = {k1, k2}
  Finalized = {k1}
  ErrorThreshold = 1
  Rows = 1
  Switchable = {old1}
  Operated = {k2}
  Crashes = 1
  Losses = 1
  Failures = 0
  NewRows = 0
  Finalizes <- MCFinalizes
  MaxFaults <- MCMaxFaults
INVARIANTS OneBatch SyncOnce
PROPERTIES IntervalKept
SYMMETRY Symmetry
