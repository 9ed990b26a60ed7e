\* Routes, snapshots, changes of the active instance and one lost node or restart.
SPECIFICATION FairSpec
CONSTANTS
  hand = hand
  shots = shots
  out = out
  in = in
  gone = gone
  null = null
  Off = Off
  Client = {hand, shots}
  Asked <- ByHand
  Output = {out}
  Input = {in, gone}
  Slot <- Slots
  Stream <- Streaming
  Null = null
  Snapshot <- OneSnapshot
  MaxEvents = 4
  MaxLosses = 1
INVARIANTS
  TypeOK
  LogTellsCrosspoint
  OnlyOvertakenMissed
PROPERTIES
  NoFalseFailure
  EveryEventEnds
