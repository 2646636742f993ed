\* Verification of non-negative orders, words of any width.
CONSTANTS
  m1 = m1
  m2 = m2
  t1 = t1
  Base = 4
  Width = 2
  AddrWidth = 1
  Makers = {m1, m2}
  Tokens = {t1}
  AddrOf <- MCAddrOf
  Amounts <- MCAmounts
  Uints = {0}
  VBytes = {0, 1, 27, 28, 29}
  SigLens = {64, 65}
  OtherAddr = OtherAddr
SPECIFICATION Spec
INVARIANT EncodingMatchesSpec GenuineAccepted AcceptedOnlySigned
CHECK_DEADLOCK FALSE
