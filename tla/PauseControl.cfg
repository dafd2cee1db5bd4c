SPECIFICATION FairSpec
CONSTANTS
  Keys = {"p", "n", "1", "2", "q", "stop"}
  Linked = TRUE
  MaxKeys = 5
INVARIANTS WakePending SnapshotAtRestUnlessBlocked
PROPERTIES RunningQuitEnds StopEnds
CHECK_DEADLOCK FALSE
