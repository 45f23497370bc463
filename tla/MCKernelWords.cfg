CONSTANTS
  Heads <- OddHeads
  MaxHeads = 3
SPECIFICATION Spec
INVARIANTS RoundGetsItsKernels
