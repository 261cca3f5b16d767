CONSTANTS
  ann = ann
  ben = ben
  grp = grp
  NoWork = NoWork
  NoGroup = NoGroup
  NoPass = NoPass
  Records = {1, 2}
  Sender <- GroupSender
  Conversation <- GroupConversation
  Groups = {grp}
  Framed = {2}
  Origin <- AllRelay
  Content <- PoisonContent
  OwesReceipt = {2}
  Cap = 2
  Backoff = 1
  MaxAge = 3
  Lifespan = 1
  MaxItems = 2
  Prompt = TRUE
  MaxReceives = 1
  MaxTroubles = 2
  MaxCalls = 0
  PagesFail = FALSE
  LastArrival = 0
  MaxTime = 4
SPECIFICATION FairSpec
PROPERTIES
  EveryReceiveEnds
  MessagesDelivered
CHECK_DEADLOCK FALSE
