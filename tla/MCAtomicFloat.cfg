SPECIFICATION FairSpec
CONSTANTS
  Thread = {t1, t2}
  zero = zero
  one = one
  subnormal = subnormal
  payload = payload
  quiet = quiet
  Bits = {zero, one, subnormal, payload, quiet}
  Op = {"FAdd", "FSub"}
  Arithmetic <- FloatArithmetic
  Flushed <- FlushedBits
  NaN <- NaNs
  QuietNaN = quiet
  NoBits = NoBits
  MaxCalls = 2
INVARIANT TypeOK
PROPERTIES UpdatesAreAtomic UpdatesReturn
\* The threads may execute no more commands.
CHECK_DEADLOCK FALSE
