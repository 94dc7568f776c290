SPECIFICATION MCSpec
CONSTANTS
  Width = 10
  PostRender = 1
  PreRender = 4
  LastClear = 3
  LastEval = 6
  Transfers = {12, 15}
INVARIANTS
  MaskFollowsWrite
  VblWithinBlank
  SuppressionIsFresh
PROPERTIES
  ArmedByTurningOff
  ImplementsSource
