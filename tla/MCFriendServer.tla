----------------------------- MODULE MCFriendServer -----------------------------
(* FriendServer with a client that reads streams and one that changes what *)
(* is read, fills the cache with a shorter page, and asks for the health.  *)
EXTENDS FriendServer
CONSTANTS reader, other

Named(ids, op, limit, known, x) ==
  [op |-> op, limit |-> limit, ids |-> ids, known |-> known, x |-> x]
Ask(op, limit, known, x) == Named("given", op, limit, known, x)

McStarts == {{1}, {1, 2}}

McRequests ==
  (reader :> {Ask("GetFriends", 0, TRUE, 1), Ask("GetMutualFriends", 0, TRUE, 1)}) @@
  (other :> {Ask("GetFriends", -1, TRUE, 1), Ask("GetFriendCount", 0, FALSE, 1),
             Ask("GetFriends", 1, TRUE, 1), Ask("GetFriendCount", 0, TRUE, 1),
             Ask("AddFriend", 0, TRUE, 2), Ask("RemoveFriend", 0, TRUE, 1),
             Named("same", "AddFriend", 0, TRUE, 1), Named("same", "AreFriends", 0, FALSE, 1),
             Named("missing", "GetFriendCount", 0, TRUE, 1),
             Ask("HealthCheck", 0, TRUE, 1)})
=============================================================================
