\* Nodes connect and change; the panel loses its connection.
SPECIFICATION FairSpec
CONSTANTS
  Node = {n1}
  MaxVersion <- Thrice
  MaxDrops = 1
  MaxDepartures = 0
  LateAccept = FALSE
INVARIANTS
  Converged
  NeverCrashes
PROPERTIES
  ForwardOnly
  Resync
CHECK_DEADLOCK FALSE
