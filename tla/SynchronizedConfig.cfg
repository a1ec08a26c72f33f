CONSTANTS
  r1 = r1  r2 = r2  f1 = f1  f2 = f2  v1 = v1  v2 = v2
  Reader <- MCReader
  Field <- MCField
  Value <- MCValue
  MaxLock <- MCMaxLock
SPECIFICATION FairConfigSpec
INVARIANTS ExclusiveUpdate DataIsWhole
PROPERTIES StableWhileLocked ConfigGracePeriodSpec SwitchTerminates
