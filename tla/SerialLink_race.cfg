SPECIFICATION Spec
CONSTANTS
  A = a
  B = b
  PROG = 5
  Starts <- LosslessStarts
  Lossy <- Lossless
  SCWrites <- LosslessWrites
  Overdue = 2
  Rounds <- LosslessRounds
INVARIANT EachHandledOnce
CHECK_DEADLOCK FALSE
