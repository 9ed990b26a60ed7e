\* Both drivers, two inputs, two changes of the crosspoint, two faults.
SPECIFICATION FairSpec
CONSTANTS
  Kinds = {"bt", "gvg"}
  Inputs = 2
  Foreign <- Others
  MaxRoutes = 2
  MaxFaults = 1
INVARIANTS
  TypeOK
  LastRouteHolds
PROPERTIES
  NoFalseAlarm
  CatchesUp
  RowsFollowDevice
CHECK_DEADLOCK FALSE
