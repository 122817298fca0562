CONSTANTS
  Users = {1, 2}
  Procs = {p1, p2}
  Limits = {1}
  Ops = {"AddFriend", "RemoveFriend", "GetMutualFriends", "AreFriends", "CreateUser", "DeleteUser"}
  Args <- OnePair
  Faults = {"cache"}
  None = None
SPECIFICATION FairSpec
PROPERTIES RequestsFinish StaleIsSwept
