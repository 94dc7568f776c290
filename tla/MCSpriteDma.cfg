SPECIFICATION MCSpriteSpec
CONSTANTS
  Rates = {6}
  Bits = 2
  Lengths = {1, 2}
  Work = 15
  Finish = 16
INVARIANTS
  ChannelConsistent
  CostAccounted
PROPERTIES
  FetchesApart
  TransferEnds
