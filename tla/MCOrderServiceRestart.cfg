CONSTANTS
  Requests = {r1, r2, r3}
  Amounts <- MCAmounts
  Inputs <- MCSizedInputs
  Kinds = {"submit", "cancel"}
  QueueCap = 1
  StoreMayFail = TRUE
  MaxRestarts = 1
SPECIFICATION Spec
SYMMETRY MCSymmetry
INVARIANT TypeOK BookSound
CHECK_DEADLOCK FALSE
