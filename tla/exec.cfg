SPECIFICATION Spec
CONSTANTS
  dev = dev
  auth = auth
  migrations = migrations
  app1 = app1
  app2 = app2
  k1 = k1
  k2 = k2
  old1 = old1
  new1 = new1
  new2 = new2
  Absent = Absent
  Unwritten = Unwritten
  Dev = dev
  MigrationsModel = migrations
  Instances = {old1, new1, new2}
  Old = {old1}
  Standard = {dev, auth}
  Application = {app1, app2}
  NewModels = {app2}
  Changed = {dev, app1}
  Plain = {migrations}
  WithInit = {app2}
  Keys = {k1, k2}
  Migrations <- MCMigrations
  Release <- MCRelease
  Scenarios <- MCScenarios
INVARIANTS TypeOK FirstRunRecorded RecordIsTrue UpIsCurrent
PROPERTIES AppliedOnce
SYMMETRY Symmetry
