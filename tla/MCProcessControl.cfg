CONSTANTS
  NLayers = 4
  Returns <- MCReturns
  HeadDelay = 6
  InterDelay = 2
SPECIFICATION Spec
INVARIANTS TypeOK InterruptMeansDone FinishIsCaught ActivationOfLayer InStep
PROPERTIES OneCyclePulse
