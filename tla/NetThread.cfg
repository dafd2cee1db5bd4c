SPECIFICATION FairSpec
CONSTANTS
  Peers = {p, q}
  Silence = 3
  MaxStarts = 3
INVARIANTS LinkIsServed ServerHears CleanWithoutOverlap CallsOnlyWhenCalled
PROPERTIES StopReturns DroppedForSilence
CHECK_DEADLOCK FALSE
