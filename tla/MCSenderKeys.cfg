CONSTANTS
  Receivers = {r1}
  NoKey = NoKey
  MaxKeys = 3
  MaxOffers = 4
  ChainIndexLimit = 2
  MaxStates = 2
  MaxChainAdvance = 1
  MaxSkippedKeys = 2
SPECIFICATION Spec
CHECK_DEADLOCK FALSE
INVARIANTS
  OpensWhatItHolds
  RecordHoldsKeysOnce
PROPERTIES
  ImplementsChannel
  ForgetsOnlyWhenFull
