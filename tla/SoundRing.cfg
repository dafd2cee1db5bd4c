SPECIFICATION Spec
CONSTANTS
  Silence = 0
  BufSz <- SOUND_BUF_SZ
  TmpSz <- SOUND_BUF_TMP_SZ
  WakeLevel <- SOUND_WAKE
  ToRead <- DESIRED_SAMPLES
  CountMod <- FAST16
  Sample = {0, 1}
  SOUND_SAMPLES = 2
INVARIANTS CountAgrees ReadIsCovered WakeStillAhead
PROPERTY RingImplementsQueue
