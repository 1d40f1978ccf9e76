SPECIFICATION Spec
CONSTANTS
  View = {v1, v2}
  Value = {x, y}
  NoValue = NoValue
  Operand <- Operands
  WordSpace = 16
  AddressSpace = 8
  ElementSize = 2
  MaxLiteral = 2
VIEW WithoutRequest
INVARIANTS
  TypeOK
  ViewsInStorage
PROPERTY KeepsViewContract
CHECK_DEADLOCK FALSE
