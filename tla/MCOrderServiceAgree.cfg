CONSTANTS
  Requests = {r1, r2, r3}
  Amounts <- MCAmounts
  Inputs <- MCSizedInputs
  Kinds = {"submit", "cancel"}
  QueueCap = 1
  StoreMayFail = FALSE
  MaxRestarts = 0
SPECIFICATION Spec
SYMMETRY MCSymmetry
INVARIANT StoreAgreesWithBookWhenIdle
CHECK_DEADLOCK FALSE
