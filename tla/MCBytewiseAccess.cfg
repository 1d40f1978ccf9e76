SPECIFICATION Spec
CONSTANTS
  ByteBits = 2
  ExponentBits = 3
  FractionBits = 2
  One = 8
  Cases <- MCCases
INVARIANTS
  LoadsMixStores
  ResultsExact
\* The threads end.
CHECK_DEADLOCK FALSE
