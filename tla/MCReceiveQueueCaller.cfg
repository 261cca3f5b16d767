CONSTANTS
  ann = ann
  ben = ben
  grp = grp
  NoWork = NoWork
  NoGroup = NoGroup
  NoPass = NoPass
  Records = {1, 2}
  Sender <- GroupSender
  Conversation <- GroupConversation
  Groups = {grp}
  Framed = {2}
  Origin <- CallerFirst
  Content <- CallerContent
  OwesReceipt = {}
  Cap = 2
  Backoff = 1
  MaxAge = 2
  Lifespan = 1
  MaxItems = 2
  Prompt = TRUE
  MaxReceives = 1
  MaxTroubles = 2
  MaxCalls = 1
  PagesFail = TRUE
  LastArrival = 0
  MaxTime = 2
SPECIFICATION Spec
INVARIANTS
  TypeOK
PROPERTIES
  RemovalStands
CHECK_DEADLOCK FALSE
