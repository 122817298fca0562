CONSTANTS
  Users = {1, 2}
  Procs = {p1, p2}
  Limits = {2}
  Ops = {"AddFriend", "RemoveFriend", "GetFriendCount"}
  Args <- BothSides
  Faults = {"cache", "store", "lag", "crash"}
  None = None
SYMMETRY Symmetry
SPECIFICATION Spec
INVARIANTS TypeOK FriendshipsMutual StaleIsOwed
PROPERTIES ImplementsGraph
