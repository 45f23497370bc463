CONSTANTS
  Sizes <- MCSizes
  StartLatency = 6
  MinGap = 5
SPECIFICATION UpdateSpec
INVARIANTS NoWordDropped
PROPERTIES PixelsInOrder
