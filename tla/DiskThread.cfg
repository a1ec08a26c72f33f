CONSTANTS
  v1 = v1  v2 = v2  s1 = s1  s2 = s2
  Voice <- MCVoice
  Stream <- MCStream
  Nobody = Nobody  Free = Free  Reserved = Reserved
  OtherUnused = 0
  MaxOrders = 3
SPECIFICATION FairSpec
INVARIANTS StreamsSound
PROPERTIES EveryDeletionNotified
