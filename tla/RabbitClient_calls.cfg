CONSTANTS
  Procs = {p1, p2}
  Ops = {"connect", "Publish", "DeclareQueue", "BindQueue", "IsConnected", "Close", "Reconnect"}
  MaxCalls = 2
  Faults = {"nack", "link", "refuse"}
  None = None
SPECIFICATION FairSpec
INVARIANTS TypeOK ClosedIsQuiet SuccessNeedsAck SomebodyGoesOn
PROPERTIES CallsReturnUnlessStuck
CHECK_DEADLOCK FALSE
