CONSTANTS
  e1 = e1  e2 = e2  r1 = r1  r2 = r2
  Editor <- MCEditor
  Region <- MCRegion
  Nobody = Nobody  Control = Control
  MaxDying = 2
  MaxRaces = 0
SPECIFICATION FairSpec
INVARIANTS EditedIsQuiet StreamsAwaited
PROPERTIES EveryEditProceeds
