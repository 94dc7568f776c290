SPECIFICATION MCCpu2Spec
CONSTANTS
  Image <- MCImage
  Start <- MCStart
  Stalled <- Unstable
PROPERTIES
  ImplementsCpu
  CyclesAgree
  OneAccessPerCycle
