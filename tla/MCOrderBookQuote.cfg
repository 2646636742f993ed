CONSTANTS
  OrderIds = {o1, o2, o3}
  Amounts <- MCAmounts
SPECIFICATION Spec
SYMMETRY MCSymmetry
INVARIANT QuoteAtMakerPrice
