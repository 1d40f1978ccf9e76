SPECIFICATION FairSpec
CONSTANTS
  t1 = t1
  t2 = t2
  Thread = {t1, t2}
  NoThread = NoThread
  MaxDepth = 2
  MaxCalls <- TwoAndOne
INVARIANTS
  TypeOK
  SinkIsLive
  LockedOnlyInSetup
  RegisteredBeforeUse
  VerdictIsOwn
  ResultExplainsItself
  LastErrorFresh
PROPERTIES
  CompilePrintsNothing
  CallsReturn
  KeepsContract
\* The host may stop calling.
CHECK_DEADLOCK FALSE
