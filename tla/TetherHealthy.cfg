\* Both links dependable, processes come and go.
SPECIFICATION Spec
CONSTANTS
  A = A
  B = B
  Link = {udp, tty}
  Latency = 1
  Window = 3
  Delays = {1, 2}
  StartDelay = 3
  Lossy = {}
  Addressed = {A, B}
  MayCrash = FALSE
  Copy = {1}
SYMMETRY Symmetry
INVARIANTS
  TypeOK
  AtMostOneActive
  AddressFollowsActive
  TetherInv
PROPERTIES
  ImplementsActiveStandby
