------------------------------ MODULE FriendGraph ------------------------------
(***************************************************************************)
(* What the friend service promises about friendships: an undirected graph *)
(* over the registered users.  A request to add or to remove a friendship  *)
(* takes effect at one instant between its call and its reply, and only if *)
(* it is legal there: an edge is never added twice nor removed twice, so   *)
(* of several requests racing for one edge exactly one is told "ok".       *)
(*                                                                         *)
(* MayReject says that a legal request can be refused (the store is down,  *)
(* or answers from a replica that lags behind); MayLose that a request     *)
(* can take effect and report failure (the store's answer is lost, or the  *)
(* server dies).                                                           *)
(***************************************************************************)
CONSTANTS Users,        \* user ids
          Clients,      \* those who issue requests, one at a time each
          MayReject,    \* BOOLEAN
          MayLose       \* BOOLEAN

VARIABLES members,      \* the registered users
          edges,        \* the friendships, each a set of two users
          request,      \* what each client is asking for
          outcome       \* what each client has been told

vars == <<members, edges, request, outcome>>

Request == [op : {"AddFriend", "RemoveFriend"}, u : Users, v : Users]
NoRequest == [op |-> "none"]

Edge(r) == {r.u, r.v}

Legal(r) ==
  \/ /\ r.op = "AddFriend"
     /\ r.u # r.v
     /\ Edge(r) \notin edges
  \/ /\ r.op = "RemoveFriend"
     /\ Edge(r) \in edges

(* A request may be refused when it is illegal, or when it asks to        *)
(* befriend somebody who is not registered.                               *)
Refusable(r) ==
  \/ MayReject
  \/ ~ Legal(r)
  \/ r.op = "AddFriend" /\ ~ Edge(r) \subseteq members

Init ==
  /\ members \in SUBSET Users
  /\ edges = {}
  /\ request = [c \in Clients |-> NoRequest]
  /\ outcome = [c \in Clients |-> "none"]

Call(c, r) ==
  /\ request[c] = NoRequest
  /\ request' = [request EXCEPT ![c] = r]
  /\ UNCHANGED <<members, edges, outcome>>

Waiting(c) == request[c] # NoRequest /\ outcome[c] = "none"

Effect(r) ==
  edges' = IF r.op = "AddFriend" THEN edges \cup {Edge(r)} ELSE edges \ {Edge(r)}

Accept(c) ==
  /\ Waiting(c) /\ Legal(request[c])
  /\ Effect(request[c])
  /\ outcome' = [outcome EXCEPT ![c] = "ok"]
  /\ UNCHANGED <<members, request>>

Refuse(c) ==
  /\ Waiting(c) /\ Refusable(request[c])
  /\ outcome' = [outcome EXCEPT ![c] = "failed"]
  /\ UNCHANGED <<members, edges, request>>

(* The request takes effect but its client is told that it failed.        *)
Lose(c) ==
  /\ MayLose
  /\ Waiting(c) /\ Legal(request[c])
  /\ Effect(request[c])
  /\ outcome' = [outcome EXCEPT ![c] = "failed"]
  /\ UNCHANGED <<members, request>>

Reply(c) ==
  /\ outcome[c] # "none"
  /\ request' = [request EXCEPT ![c] = NoRequest]
  /\ outcome' = [outcome EXCEPT ![c] = "none"]
  /\ UNCHANGED <<members, edges>>

(* The server dies: nobody is waiting for an answer any more.             *)
Restart ==
  /\ MayLose
  /\ request' = [c \in Clients |-> NoRequest]
  /\ outcome' = [c \in Clients |-> "none"]
  /\ UNCHANGED <<members, edges>>

Register(u) ==
  /\ members' = members \cup {u}
  /\ UNCHANGED <<edges, request, outcome>>

(* A user who leaves keeps the friendships: nothing deletes them.         *)
Unregister(u) ==
  /\ members' = members \ {u}
  /\ UNCHANGED <<edges, request, outcome>>

Next ==
  \/ \E c \in Clients :
       \/ \E r \in Request : Call(c, r)
       \/ Accept(c)
       \/ Refuse(c)
       \/ Lose(c)
       \/ Reply(c)
  \/ \E u \in Users : Register(u) \/ Unregister(u)
  \/ Restart

Spec == Init /\ [][Next]_vars
=============================================================================
