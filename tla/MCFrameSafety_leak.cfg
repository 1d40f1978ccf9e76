SPECIFICATION FrameSpec
CONSTANTS
  x = x
  a = a
  b = b
  d = d
  e = e
  f = f
  g = g
  o = o
  p = p
  q = q
  t = t
  NoReg = NoReg
  NoSlot = NoSlot
  Null = Null
  External = External
  Immutable = Immutable
  Reg = {x, a, b, d, e, f, g, o, p, q, t}
  Params = {o}
  Predeclared = {x, a, b, e, o, p, q, t}
  Level <- MCLevel
  Fragments <- GapFragments
INVARIANTS NoEscape
\* The call returns, traps, or is never made.
CHECK_DEADLOCK FALSE
