SPECIFICATION FairSpec
CONSTANTS
  Node <- MCNode
  Threshold <- MCThreshold
  Root = {r1, r2}
  Faulty = {4}
INVARIANTS Inv OneRoot SameAggregate NoMissedTrigger
PROPERTIES EventuallyAggregated
CHECK_DEADLOCK FALSE
