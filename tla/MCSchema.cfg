SPECIFICATION SchemaSpec
CONSTANTS
  Server = {s1, s2}
  Tool = {t1}
  None = None
  Stored <- Databases
  Target = 313
  MaxFaults = 3
CHECK_DEADLOCK FALSE
INVARIANTS ServesMigrated MigratesAlone
PROPERTY StartsEnd
