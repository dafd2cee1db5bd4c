SPECIFICATION Spec
CONSTANTS
  MaxLength = 2
  MaxFreq = 3
  MaxVolume = 3
  Eight = 3
  CntMod = 4
  Frequencies = {1, 2}
  Periods = {0, 1, 2}
  Shifts = {0, 1}
  Volumes = {0, 2}
  Games <- AllGames
INVARIANTS PlaysWithReason StaysInRange EnvelopeInTime
PROPERTY LengthRunsOut
