\* A GPI and a GPO of two lines, and each kind of client.
SPECIFICATION Spec
CONSTANTS
  Lines <- TwoLines
  Masks <- OneMask
  Typed <- TwoTexts
  AtFirst <- TwoCodes
  MaxChanges = 1
  MaxSends = 2
  MaxFaults = 1
INVARIANTS
  ShowsDevice
  LinesFollow
CHECK_DEADLOCK FALSE
