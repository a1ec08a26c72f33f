CONSTANTS
  c1 = c1  c2 = c2
  Starter <- First  Stopper <- Second
  MaxSpawn = 4
SPECIFICATION FairThreadSpec
INVARIANTS PromisesKept OneThread
PROPERTIES CallsReturn
