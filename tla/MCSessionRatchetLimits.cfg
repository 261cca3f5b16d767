CONSTANTS
  NoKey = NoKey
  Alice = Alice
  Bob = Bob
  MaxSkip = 3
  MaxMessageKeys = 1
  MaxReceiverChains = 1
  MaxKeyAge = 0
  MaxCounter = 3
  MaxRatchets = 3
  MaxTime = 1
SPECIFICATION Spec
INVARIANTS
  TypeOK
  ChainsMatchKeys
  ReplayRefused
  KeyErased
  RootsInStep
  SkippedKeysBounded
