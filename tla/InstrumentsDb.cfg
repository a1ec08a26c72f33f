SPECIFICATION Spec
CONSTANTS
  Lscp = Lscp
  Worker = Worker
  Scanners = {Worker}
  Base = {"x"}
  MaxSuffix = 2
  Contents <- MCContents
  BaseName <- MCBaseName
  FsWalk <- MCFsWalk
  Requests <- MCRequests
  Depth = 2
  MaxEdits = 3
  MaxScans = 2
INVARIANTS DatabaseSound
PROPERTIES RemovedEmpty ScannedOnce ScanEnds
CHECK_DEADLOCK FALSE
