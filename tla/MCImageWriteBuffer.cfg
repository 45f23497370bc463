CONSTANTS
  Maps <- MCMaps
  RamWords = 16
  ProgFull = 9
  Depth = 13
  Gap = 18
SPECIFICATION Spec
INVARIANTS MapInOrder NeverDry
