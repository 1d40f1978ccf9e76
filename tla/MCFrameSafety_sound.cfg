SPECIFICATION FairFrameSpec
CONSTANTS
  x = x
  a = a
  b = b
  d = d
  e = e
  f = f
  g = g
  o = o
  p = p
  q = q
  t = t
  NoReg = NoReg
  NoSlot = NoSlot
  Null = Null
  External = External
  Immutable = Immutable
  Reg = {x, a, b, d, e, f, o, p, q}
  Params = {o}
  Predeclared = {x, a, b, o, p, q}
  Level <- MCLevel
  Fragments <- SoundFragments
INVARIANTS
  FrameTypeOK
  ClosureComplete
  EscapeSound
  ImmutableSound
PROPERTIES
  ChecksUseOneResult
  ValidationEnds
\* The call returns, traps, or is never made.
CHECK_DEADLOCK FALSE
