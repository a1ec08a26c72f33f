CONSTANTS
  ch1 = ch1  ch2 = ch2
  Channel <- MCChannel
  NoChannel = NoChannel
  MaxRequests = 3
SPECIFICATION FairSpec
INVARIANTS SafeCommands
PROPERTIES EveryCommandServed ZombiesAreDeleted
CHECK_DEADLOCK FALSE
