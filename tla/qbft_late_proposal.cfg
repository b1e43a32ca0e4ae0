SPECIFICATION Spec
CONSTANTS
  Nodes = 3
  DutyOffset <- FirstLeader
  v0 = v0
  v1 = v1
  Value <- Values
  NoValue = NoValue
  Proposal <- Proposals
  Up = {0, 1, 2}
  MaxRound = 2
  MaxDuplicates = 0
  MaxDecidedResends = 1
INVARIANTS PrePrepareAnswered
CHECK_DEADLOCK FALSE
