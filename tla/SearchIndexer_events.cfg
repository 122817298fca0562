CONSTANTS
  u1 = u1
  u2 = u2
  Users = {u1, u2}
  Events <- SomeEvents
  MaxEvents = 3
  MaxAttempts = 3
  MaxRestarts = 1
  Faults = {"index", "text", "stop", "link", "crash"}
  None = None
SPECIFICATION FairSpec
INVARIANTS TypeOK AckedIsIndexed RefusedWithReason
PROPERTIES EventsAreSettled
CHECK_DEADLOCK FALSE
