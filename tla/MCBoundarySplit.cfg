CONSTANTS
  Requests <- MCRequests
SPECIFICATION SplitFairSpec
INVARIANTS SplitTypeOK InOnePage Continues
PROPERTIES StableUnderBurst Finishes SplitServiceSpec
