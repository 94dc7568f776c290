SPECIFICATION MCSpec
CONSTANTS
  Steps4 <- Short4
  Steps5 <- Short5
  Reboots = 2
INVARIANTS
  OnlyReadFlagCleared
PROPERTIES
  LineFallsOnlyWhenAnswered
  ClocksApart
  GamesStartAlike
  FrameIrqRepeats
