\* One script, databases of four ages, a daemon that ends twice.
SPECIFICATION FairSpec
CONSTANTS
  script = script
  Script = {script}
  OldVersion = {0, 3, 5, 6}
  MaxEvents = 5
  MaxCrashes = 2
INVARIANTS
  TypeOK
  SchemaHolds
  FreshTables
  KeepsTypes
PROPERTIES
  ScriptsRestart
  DiesOfTheDead
CHECK_DEADLOCK FALSE
