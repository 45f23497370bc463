CONSTANTS
  Heads <- EvenHeads
  MaxHeads = 5
SPECIFICATION FairSpec
INVARIANTS RoundGetsItsKernels
PROPERTIES Loaded
