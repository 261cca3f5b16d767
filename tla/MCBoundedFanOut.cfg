SPECIFICATION FairSpec
CONSTANTS
  r1 = r1
  r2 = r2
  r3 = r3
  r4 = r4
  s1 = s1
  s2 = s2
  NoSignal = NoSignal
  Limit = 2
  Requests <- MCRequests
  Signals <- MCSignals
  SignalOf <- MCSignalOf
INVARIANTS TypeOK SlotAccounting QueueMatchesCalls NoIdleSlot
PROPERTIES NoOvertaking EveryWaiterServed
CHECK_DEADLOCK FALSE
