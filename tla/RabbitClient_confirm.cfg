CONSTANTS
  Procs = {p1, p2}
  Ops = {"connect", "Publish"}
  MaxCalls = 2
  Faults = {"nack"}
  None = None
SPECIFICATION Spec
INVARIANTS SuccessIsItsOwn
CHECK_DEADLOCK FALSE
