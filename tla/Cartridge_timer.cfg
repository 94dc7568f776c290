SPECIFICATION MCSpec
CONSTANTS
  Roms <- MCMapper19
  Bytes <- MCBytes
  Loadable = {2, 8, 17, 31}
  Half = 4
INVARIANT TimerFollowsProgram
