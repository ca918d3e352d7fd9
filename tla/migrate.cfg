SPECIFICATION FairSpec
CONSTANTS
  old = old
  new = new
  admin = admin
  None = None
  Procs <- MCProcs
  Has <- MCHas
  MaxFailures = 2
INVARIANTS MigrateConsistent SchemaInOrder ReadyMeansMigrated
PROPERTIES AllGetReady
CHECK_DEADLOCK FALSE
