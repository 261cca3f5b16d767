CONSTANTS
  ann = ann
  ben = ben
  grp = grp
  NoWork = NoWork
  NoGroup = NoGroup
  NoPass = NoPass
  Records = {1, 2}
  Sender <- GroupSender
  Conversation <- GroupConversation
  Groups = {grp}
  Framed = {2}
  Origin <- AllRelay
  Content <- GroupContent
  OwesReceipt = {2}
  Cap = 2
  Backoff = 1
  MaxAge = 2
  Lifespan = 1
  MaxItems = 2
  Prompt = FALSE
  MaxReceives = 1
  MaxTroubles = 2
  MaxCalls = 0
  PagesFail = FALSE
  LastArrival = 0
  MaxTime = 2
SPECIFICATION Spec
INVARIANTS
  NothingLost
  OffersBounded
PROPERTIES
  DeliveredInOrder
CHECK_DEADLOCK FALSE
