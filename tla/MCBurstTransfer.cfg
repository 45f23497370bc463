CONSTANTS
  Totals <- MCTotals
  Streams <- MCStreams
  Limit = 800
SPECIFICATION FairSpec
INVARIANTS TypeOK ExactlyTotal BurstInside
PROPERTIES Ends ServiceSpec
