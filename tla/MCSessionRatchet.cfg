CONSTANTS
  NoKey = NoKey
  Alice = Alice
  Bob = Bob
  MaxSkip = 1
  MaxMessageKeys = 3
  MaxReceiverChains = 5
  MaxKeyAge = 1
  MaxCounter = 3
  MaxRatchets = 4
  MaxTime = 0
SPECIFICATION Spec
INVARIANTS
  SendKeyFresh
  EveryMessageOpens
  DuplicateWasAccepted
