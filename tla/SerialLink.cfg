SPECIFICATION FairSpec
CONSTANTS
  A = a
  B = b
  PROG = 5
  Starts <- StartsOf
  Lossy <- Networks
  SCWrites <- Writes
  Overdue = 2
  Rounds <- RoundsOf
INVARIANTS SameRound BothOrNeither  AheadByOneOrQuit
PROPERTY RoundsComplete
CHECK_DEADLOCK FALSE
