CONSTANTS
  OrderIds = {o1, o2, o3}
  Amounts <- MCAmounts
SPECIFICATION Spec
SYMMETRY MCSymmetry
INVARIANT TypeOK
INVARIANT BookConsistent
INVARIANT NotCrossed
INVARIANT FillAccounting
INVARIANT WithinLimits
INVARIANT SnapshotSorted
PROPERTY TerminalIsFinal
