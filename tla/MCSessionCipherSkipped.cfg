CONSTANTS
  NoKey = NoKey
  NoSession = NoSession
  Alice = Alice
  Bob = Bob
  MaxSkip = 1
  MaxMessageKeys = 3
  MaxReceiverChains = 5
  MaxKeyAge = 1
  MaxCounter = 2
  MaxArchived = 2
  MaxSessions = 2
  MaxRatchets = 3
  MaxArchives = 1
SPECIFICATION Spec
INVARIANTS
  ReplayRefused
CHECK_DEADLOCK FALSE
