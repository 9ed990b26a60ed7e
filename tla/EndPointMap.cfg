\* Two map files, two nodes, three changes of whatever kind.
SPECIFICATION MapsSpec
CONSTANTS
  File = {"a", "b"}
  Host = {1, 2}
  Slots <- TwoNodes
  Hand <- FourTexts
  Args <- ThreeArguments
  MaxChanges = 3
INVARIANTS
  ReadsBack
  RowsMatch
  SnapshotsLand
CHECK_DEADLOCK FALSE
