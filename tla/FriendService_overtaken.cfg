CONSTANTS
  Users = {1, 2}
  Procs = {p1, p2}
  Limits = {2}
  Ops = {"AddFriend", "GetFriendCount"}
  Args <- BothSides
  Faults = {}
  None = None
SPECIFICATION Spec
INVARIANTS SettledCacheIsFresh
