SPECIFICATION Spec
CONSTANTS
  Node = {"a", "b"}
  Skew <- MCSkew
  MaxSkew = 0
  GENESIS_TIME = 0
  SLOT_DURATION = 3000
  Slot = 1
  DutyType = {"attester"}
  Timer <- Eager
  Step = 500
  MaxTime = 6500
  MaxRound = 6
PROPERTIES RoundLasts
CHECK_DEADLOCK FALSE
