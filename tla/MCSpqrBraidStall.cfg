CONSTANTS
  Initiator = Initiator
  Responder = Responder
  NoValue = NoValue
  HeaderChunks = 1
  EkChunks = 2
  Ct1Chunks = 2
  Ct2Chunks = 1
  MaxJump = 6
  MaxOOOKeys = 2
  MaxInitiatorSends = 5
  MaxResponderSends = 6
SPECIFICATION Spec
CHECK_DEADLOCK FALSE
INVARIANTS
  BraidGoesOn
