SPECIFICATION FairSpec
CONSTANTS
  old = old
  post = post
  patch = patch
  reset = reset
  delete = delete
  a = a
  b = b
  Gone = Gone
  Null = Null
  None = None
  Posts = {post}
  Patches = {patch, reset}
  Deletes = {delete}
  OldRows = {old}
  Fields = {a, b}
  Json = {reset}
  Filtered = {patch}
  Late = {}
  MaxFaults = 1
  Target <- MCTarget
  Touches <- MCTouches
INVARIANTS NoDangling
PROPERTIES FilesAreCleared
CHECK_DEADLOCK FALSE
