SPECIFICATION Spec
CONSTANTS
  Sixty = 2
  TwentyFour = 2
  Epoch = 3600
  MinRtc = 3580
  MaxTime = 3610
  Values = {0, 1}
  Zero = 0
  Games <- AllGames
  Bytes = {0, 1, 2, 3, 4, 8, 9, 10, 11, 12, 32, 33}
  Banks32K = 2
  Banks64K = 2
  Banks128K = 2
INVARIANTS RightRomBank ReadsWhatItSet
PROPERTIES RamSurvives WorkRamSurvives
