\* One invocation is enough to contradict the usage text.
CONSTANTS
  c00000 = c00000
  c3C000 = c3C000
  c40000 = c40000
  c79000 = c79000
  c7F000 = c7F000
  Cells <- MCCells
  Boards <- MCBoards
  ImageIds <- MCImageIds
  Map <- MCMap
  UnknownMap <- MCUnknownMap
  NoMap <- MCNoMap
  EmptyId = ""
  MaxRuns = 1
SPECIFICATION Spec
INVARIANTS ConfigPreserved
