SPECIFICATION Spec
CONSTANTS
  Matches = {m1, m2, m3}
  None = None
  Cap = 2
  MayFail = {"toggle", "store"}
  MaxOffs = 1
  MaxClears = 1
  MaxStops = 1
CHECK_DEADLOCK FALSE
INVARIANT
  OffLeavesNothing
PROPERTIES
  RowsLeaveInOrder
  OffClears
