CONSTANTS
  t1 = t1  t2 = t2  t3 = t3
  Thread <- MCThread
  NoThread = NoThread
  MaxDepth = 3
SPECIFICATION FairServerSpec
INVARIANTS SafeDisabling
PROPERTIES GracePeriodSpec EveryDisableReturns
