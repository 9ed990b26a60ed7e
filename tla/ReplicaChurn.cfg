\* Nodes disconnect and connect again.
SPECIFICATION Spec
CONSTANTS
  Node = {n1}
  MaxVersion <- SourcesOnly
  MaxDrops = 0
  MaxDepartures = 1
  LateAccept = FALSE
INVARIANTS
  TypeOK
  NothingMissing
CHECK_DEADLOCK FALSE
