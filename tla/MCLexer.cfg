SPECIFICATION Spec
CONSTANTS
  Sources <- MCSources
INVARIANTS
  TypeOK
  PositionsExact
  LinesAgree
  CaretBelowToken
PROPERTY ReadsOn
