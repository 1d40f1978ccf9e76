SPECIFICATION Spec
CONSTANTS
  t1 = t1
  t2 = t2
  Thread = {t1, t2}
  NoThread = NoThread
  MaxDepth = 2
  MaxCalls <- TwoAndOne
INVARIANTS SetupErrorsReturned
\* The host may stop calling.
CHECK_DEADLOCK FALSE
