SPECIFICATION FairSpec
CONSTANTS
  Resources = {"app", "device"}
  Rows <- MCRows
  Plain <- MCPlain
  Links <- MCLinks
  Compound <- MCCompound
  Permissions <- MCPermissions
  Unlimited = 0
  Always = "always"
  Versions = 2
  Named <- MCNamed
  Translated <- MCTranslated
  ToResource <- MCToResource
  Inner <- MCInner
  u = u
  k = k
  g = g
  nobody = nobody
  r1 = r1
  r2 = r2
  reader = reader
  AnswerOf <- Decision
  Requests = {r1, r2}
  Asks <- MCAsks
  Callers <- MCCallers
  Users = {u}
  Keys = {k}
  Guest = g
  Holdings <- MCHoldings
  Roles <- MCRoles
  Nobody = nobody
  RootRead <- MCRootRead
  MaxRevoked = 1
  MaxFaults = 1
INVARIANTS TypeOK GuestsAgree
PROPERTIES ShowsGranted ExpandShowsReadable PermissionsKnown
CHECK_DEADLOCK FALSE
