SPECIFICATION Spec
CONSTANTS
  Bits = 4
  WrapBits = 3
  Undefined = Undefined
  UInts = 3
  Channels = 2
  tilesize = 4
  Width = 3
  SqrSide = 2
  Names = {"topo", "road", "none"}
  Locations = {"a", ""}
  NoName = ""
  Keys = {"k1", "k2", "k3"}
  Values = {"v1", "v2"}
  Cap = 3
  None = "nil"
  Letters = 21
  MaxZoom = 3
  Lengths = {1, 4, 7, 10}
  MaxList = 2
INVARIANTS
  TilesAgree
  CopyStaysInBothImages
  ShortestPathIsShortest
  EveryPixelHasATile
  PartHoldsItsPosition
  SheetFindsItsStyles
  QueueKeepsItsOrder
  RowsHaveTheirOwnLabels
