CONSTANTS
  c1 = c1  c2 = c2  r1 = r1  r2 = r2  s1 = s1  s2 = s2
  Channel <- MCChannel
  Index <- MCIndex
  Region <- MCRegion
  Sample <- MCSample
  RegionsOf <- MCRegionsOf
  SampleOf <- MCSampleOf
  CycleSize <- MCCycleSize
  Voice <- MCVoice
  None = None
  MaxLoads = 3
  MaxCommands = 2
SPECIFICATION Spec
CONSTRAINT Claimed
INVARIANTS VoiceSafe ManagerSound
