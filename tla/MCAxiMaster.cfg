CONSTANTS
  Lens <- MCLens
  ProgFull = 2
  Depth = 4
SPECIFICATION FairSpec
INVARIANTS NoBeatLost BurstLength NoWordLost
PROPERTIES ValidHolds Served
