SPECIFICATION FairSpec
CONSTANTS
  d1 = d1
  d2 = d2
  s1 = s1
  s2 = s2
  Router = {1, 2}
  Outputs = 2
  Dest = {d1, d2}
  Stream = {s1, s2}
  NullStream = NullStream
  Destinations <- SharedDestinations
  Sources <- SharedSources
  MaxChanges = 2
  MaxDrops = 1
INVARIANTS Converged RightList FirstStart
PROPERTIES Loads
CHECK_DEADLOCK FALSE
