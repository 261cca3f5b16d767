CONSTANTS
  Devices = {d1, d2}
  Account <- OneMember
  Listed = {d1}
  MaxSends = 2
  None = None
  a1 = a1
  MaxChanges = 3
  MaxFaults = 1
SPECIFICATION Spec
CHECK_DEADLOCK FALSE
INVARIANTS
  RowIsHandoff
  FirstAttemptOpens
  KeyBeforeMessage
  CompletedReachedAll
PROPERTIES
  EverySendCompletes
