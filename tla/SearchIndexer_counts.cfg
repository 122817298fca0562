CONSTANTS
  u1 = u1
  u2 = u2
  Users = {u1, u2}
  Events <- SomeEvents
  MaxEvents = 3
  MaxAttempts = 3
  MaxRestarts = 0
  Faults = {}
  None = None
SPECIFICATION Spec
INVARIANTS CountsFollowEvents
CHECK_DEADLOCK FALSE
