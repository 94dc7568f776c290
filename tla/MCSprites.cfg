SPECIFICATION MCSpec
CONSTANTS
  Sprites = 3
  Slots = 2
  LastClear = 8
  LastEval = 32
  Span = 5
  Width = 45
  PostRender = 2
  PreRender = 3
  Lines = 2
  Oams <- MCOams
  Heights = {1}
  Addresses = {11}
  Disturbances = 1
INVARIANTS
  IndicesInBounds
  EvaluationEnds
  EverySpriteShown
  SpriteZeroIsFirst
