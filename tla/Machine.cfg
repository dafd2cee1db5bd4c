SPECIFICATION Spec
CONSTANTS
  Normal = 16
  Paces = {8, 16}
  HsFirst = 20
  HsPeriod = 16
  DivPeriod = 24
  Threshold <- ShortThreshold
  Bytes = {255}
  Oam = 4
  Vram = 4
  HBlank = 4
  Line = 12
  Visible = 3
  Lines = 5
  StatWrites <- AllStat
  LycWrites = {1}
  FastByte = 8
  SlowByte = 20
  Blocks = {2}
  MaxCnt = 100
  LastEvent = 52
  MaxWrites = 2
  MaxRestores = 1
INVARIANTS DeadlinesAhead TimerAhead ModeOfLine LineOfTime OneBlockPerLine
PROPERTY FrameComplete
CHECK_DEADLOCK FALSE
