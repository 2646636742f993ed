\* A signed order resubmitted with an amount negated.
CONSTANTS
  m1 = m1
  m2 = m2
  t1 = t1
  Base = 4
  Width = 2
  AddrWidth = 1
  Makers = {m1, m2}
  Tokens = {t1}
  AddrOf <- MCAddrOf
  Amounts <- MCSignedAmounts
  Uints = {0}
  VBytes = {0, 1, 27, 28, 29}
  SigLens = {64, 65}
  OtherAddr = OtherAddr
SPECIFICATION Spec
INVARIANT AcceptedOnlySigned
CHECK_DEADLOCK FALSE
