SPECIFICATION MCSpec
CONSTANT VblGap = 8
PROPERTIES
  NmiServicedOnce
  NmiNotLost
  VectorWhole
  MaskedIrqNotServiced
  LevelServiced
  NmiServiced
