\* A send whose answer is lost: does the trades table still match the chain?
CONSTANTS
  Jobs = {j1, j2}
  NoJob = NoJob
  QueueCap = 1
  RpcMayFail = TRUE
  StoreMayFail = FALSE
  MaxCrashes = 0
SPECIFICATION Spec
INVARIANT SettledMatchesChain
SYMMETRY MCSymmetry
CHECK_DEADLOCK FALSE
