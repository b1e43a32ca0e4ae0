SPECIFICATION Spec
CONSTANTS
  Node = {"a", "b"}
  Skew <- MCSkew
  MaxSkew = 400
  GENESIS_TIME = 7
  SLOT_DURATION = 2000
  Slot = 1
  DutyType = {"attester", "aggregator", "proposer"}
  Timer <- MCTimer
  Step = 500
  MaxTime = 6500
  MaxRound = 6
INVARIANTS TypeOK NeverAhead Aligned LagBounded
PROPERTIES NeverShortened RoundLastsLocally
CHECK_DEADLOCK FALSE
