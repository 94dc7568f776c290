SPECIFICATION Spec
CONSTANTS
  Roms = {"mario", "zelda"}
  First = "mario"
  Default = "donkey"
  Capacity = 3
  Handlers = 5
PROPERTIES
  LatestGameRuns
  DumpsPaused
  WindowIsRight
CHECK_DEADLOCK FALSE
