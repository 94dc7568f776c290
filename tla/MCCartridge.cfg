SPECIFICATION MCSpec
CONSTANTS
  Roms <- MCRoms
  Bytes <- MCBytes
  Loadable = {2, 8, 17, 31}
  Half = 4
INVARIANTS
  ReadsInRom
PROPERTIES
  ImplementsSerialPort
  ImplementsLatchedBanks
  ScanlineIrqRecurs
