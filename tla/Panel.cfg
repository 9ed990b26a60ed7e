\* Every kind of panel, two outputs, inputs 1 and 3, and input 2, which appears later.
SPECIFICATION Spec
CONSTANTS
  Kinds <- AllKinds
  Outputs = 2
  Inputs = 3
  AtFirst = {1, 3}
  MaxRoutes = 1
  MaxSends = 1
  MaxLosses = 1
INVARIANTS
  SendsWhatWasMeant
  ShowsRoute
CHECK_DEADLOCK FALSE
