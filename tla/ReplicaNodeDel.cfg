\* A node that disconnects stays on the panel.
SPECIFICATION Spec
CONSTANTS
  Node = {n1}
  MaxVersion <- Once
  MaxDrops = 0
  MaxDepartures = 1
  LateAccept = FALSE
INVARIANTS
  Converged
CHECK_DEADLOCK FALSE
