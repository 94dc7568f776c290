SPECIFICATION Spec
CONSTANTS
  Roms = {"mario", "zelda"}
  First = "mario"
  Default = "donkey"
  Capacity = 3
  Handlers = 5
INVARIANT
  ConfigurationParses
CHECK_DEADLOCK FALSE
