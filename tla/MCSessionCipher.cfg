CONSTANTS
  NoKey = NoKey
  NoSession = NoSession
  Alice = Alice
  Bob = Bob
  MaxSkip = 1
  MaxMessageKeys = 3
  MaxReceiverChains = 5
  MaxKeyAge = 1
  MaxCounter = 2
  MaxArchived = 2
  MaxSessions = 3
  MaxRatchets = 2
  MaxArchives = 1
SYMMETRY Symmetry
SPECIFICATION Spec
INVARIANTS
  TypeOK
  EveryMessageOpens
  OpensOnce
  SendKeyFresh
CHECK_DEADLOCK FALSE
