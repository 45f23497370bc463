CONSTANTS
  NLayers = 2
  Returns <- MCReturns
  HeadDelay = 40
  InterDelay = 2
  RoundsPerMap = 2
  KernelBatch = 2
  HeadLatency = 2
  StartCycles = 10
SPECIFICATION FairSpec
INVARIANTS NoHeadPastEnd OneWritePerMap HeadBeforeKernels BankOfLayer NoRequestLost ImageOfHead
PROPERTIES ProcessSpec Answered
