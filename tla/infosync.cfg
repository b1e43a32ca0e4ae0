SPECIFICATION Spec
CONSTANTS
  MAX_PRIORITIES = 1000
  Node = {1, 2, 3}
  Faulty = {3}
  min_required = 2
  SLOTS_PER_EPOCH = 2
  MAX_RESULTS = 3
  ConsensusName <- MCConsensusName
  QBFT_V2_PROTOCOL_ID = "qbft/2"
  LockPreferred = "qbft"
  Config <- MCConfig
  FaultyTopics <- MCFaultyTopics
  MaxSlot = 5
  MaxFaultySent = 1
INVARIANTS HistoryOK GovernsRecent AgreedSupport SameRanking FullAgreed
PROPERTIES SelectionStable
CHECK_DEADLOCK FALSE
