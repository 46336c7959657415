\* Two invocations: the second finds what an interrupted or failed first one
\* left behind, an abandoned erase included.
CONSTANTS
  c00000 = c00000
  c3C000 = c3C000
  c40000 = c40000
  c79000 = c79000
  c7F000 = c7F000
  Cells <- MCCells
  Boards <- MCBoards
  ImageIds <- MCImageIds
  Map <- MCMap
  UnknownMap <- MCUnknownMap
  NoMap <- MCNoMap
  EmptyId = ""
  MaxRuns = 2
SPECIFICATION Spec
INVARIANTS TypeOK SuccessIsWhole QuietExit ConfigKept
PROPERTIES BootblockLast FlashSpec EveryRunEnds
