CONSTANTS
  Requests = {r1, r2, r3}
  Amounts <- MCAmounts
  Inputs <- MCUnitInputs
  Kinds = {"submit", "cancel"}
  QueueCap = 1
  StoreMayFail = FALSE
  MaxRestarts = 0
SPECIFICATION Spec
SYMMETRY MCSymmetry
PROPERTY RowFilledMonotone
CHECK_DEADLOCK FALSE
