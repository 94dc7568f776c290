SPECIFICATION MCSpec
CONSTANTS
  Columns = 2
  Rows = 2
  RowSlots = 4
  Fine = 2
  TileDots = 2
  CopyDots = {6, 7}
  Prefetch = 8
  Width = 14
  PreRender = 6
  ReadDelay = 5
  Transfers = {8}
  PageReads = 3
  Scrolls <- MCScrolls
  Coarse = {0, 3}
  FineYs = {0}
  Nametables = {0, 3}
  Addresses = {0, 13}
  Changes = 2
INVARIANTS
  ScrollFollowsBeam
