----------------------------- MODULE FriendService -----------------------------
(***************************************************************************)
(* The friend service: DynamoDB rows behind a Redis cache.                 *)
(*                                                                         *)
(* Requests run concurrently, each in a goroutine of the gRPC server       *)
(* (Procs).  The two writers check, commit one two-row transaction, then   *)
(* delete the cache entries of both users one command at a time; the four  *)
(* readers answer from the cache or read the store and fill the cache.     *)
(* Nothing orders the fill of a reader against the deletions of a writer.  *)
(*                                                                         *)
(* internal/service/friend_service.go, internal/repository/*.go,           *)
(* internal/cache/service.go.                                              *)
(***************************************************************************)
EXTENDS Naturals, FiniteSets

CONSTANTS Users,    \* user ids; the code compares them with <
          Procs,    \* request goroutines
          Limits,   \* the page sizes GetFriends is called with
          Ops,      \* the operations that are called
          Args,     \* the pairs <<u, v>> of users they are called with
          Faults,   \* what can go wrong: "cache", "store", "lag", "crash"
          None      \* no cache entry, no value: a value of its own

ASSUME UsersAssumption == Users \subseteq Nat /\ IsFiniteSet(Users)
ASSUME LimitsAssumption == Limits \subseteq Nat \ {0} /\ Limits # {}
ASSUME ArgsAssumption == Args \subseteq Users \X Users
ASSUME FaultsAssumption == Faults \subseteq {"cache", "store", "lag", "crash"}

VARIABLES
  table,      \* the store: one partition (PK = USER#u) per user
  replica,    \* a copy of each partition that an eventually consistent read may see
  cache,      \* Redis: what each key holds
  pc,         \* where each request is
  call,       \* what it was asked for
  buf,        \* the value it has read
  pos,        \* a writer's next deletion step, 1..10
  found,      \* the keys its KEYS command returned
  clean,      \* history: readers that no commit has overtaken
  excused     \* history: keys whose entry may have been left stale

store == <<table, replica>>
local == <<pc, call, buf, pos, found>>
vars == <<table, replica, cache, pc, call, buf, pos, found, clean, excused>>

-----------------------------------------------------------------------------
(* Cache keys, and the answer each one stands for.                         *)

Kinds == {"friends", "count", "friendship", "mutual"}

FriendsKey(u)       == [kind |-> "friends", u |-> u, v |-> u]
CountKey(u)         == [kind |-> "count", u |-> u, v |-> u]
FriendshipKey(u, v) == [kind |-> "friendship", u |-> u, v |-> v]
MutualKey(u, v)     == IF u < v THEN [kind |-> "mutual", u |-> u, v |-> v]
                                ELSE [kind |-> "mutual", u |-> v, v |-> u]

Keys == {k \in [kind : Kinds, u : Users, v : Users] :
           /\ k.kind \in {"friends", "count"} => k.u = k.v
           /\ k.kind = "mutual" => k.u < k.v}

(* The users whose partitions the answer is read from.                     *)
Sources(k) == IF k.kind = "mutual" THEN {k.u, k.v} ELSE {k.u}

(* A query with a limit returns the first rows in sort-key order, and a    *)
(* key to go on from as soon as it has read that many rows, whether or not *)
(* there are more.                                                         *)
Page(S, l) == [rows |-> {x \in S : Cardinality({y \in S : y < x}) < l},
               more |-> Cardinality(S) >= l]

Answer(k, l, t) ==
  CASE k.kind = "friends"    -> Page(t[k.u].friends, l)
    [] k.kind = "count"      -> Cardinality(t[k.u].friends)
    [] k.kind = "friendship" -> k.v \in t[k.u].friends
    [] k.kind = "mutual"     -> t[k.u].friends \cap t[k.v].friends

Values(k) ==
  CASE k.kind = "friends"    -> [rows : SUBSET Users, more : BOOLEAN]
    [] k.kind = "count"      -> Nat
    [] k.kind = "friendship" -> BOOLEAN
    [] k.kind = "mutual"     -> SUBSET Users

(* The entry for a friend list does not record the limit it was read with. *)
Truthful(k, x) == \E l \in Limits : x = Answer(k, l, table)

-----------------------------------------------------------------------------
Writers == {"AddFriend", "RemoveFriend"}
Readers == {"GetFriends", "GetFriendCount", "AreFriends", "GetMutualFriends"}
UserOps == {"CreateUser", "DeleteUser"}

Call == [op : Writers \cup Readers, u : Users, v : Users, limit : Limits]
NoCall == [op |-> "none"]

KeyOf(c) ==
  CASE c.op = "GetFriends"       -> FriendsKey(c.u)
    [] c.op = "GetFriendCount"   -> CountKey(c.u)
    [] c.op = "AreFriends"       -> FriendshipKey(c.u, c.v)
    [] c.op = "GetMutualFriends" -> MutualKey(c.u, c.v)

(* AreFriends and RemoveFriend do not ask whether the users exist.         *)
FirstStage(c) ==
  CASE c.op = "RemoveFriend" -> "check"
    [] c.op = "AreFriends"   -> "lookup"
    [] OTHER                 -> "validateFirst"

TwoUsers(c) == c.op \in {"AddFriend", "GetMutualFriends"}

Validated(c) == IF c.op = "AddFriend" THEN "check" ELSE "lookup"

Stages == {"idle", "validateFirst", "validateSecond", "check", "commit",
           "sweep", "delete", "publish", "lookup", "read", "readSecond",
           "fill", "ok", "failed"}

StoreStages == {"validateFirst", "validateSecond", "check", "commit", "read",
                "readSecond"}

Unregistered == [profile |-> FALSE, friends |-> {}]
Partition == [profile : BOOLEAN, friends : SUBSET Users]

Init ==
  /\ table = [u \in Users |-> [Unregistered EXCEPT !.profile = TRUE]]
  /\ replica = table
  /\ cache = [k \in Keys |-> None]
  /\ pc = [p \in Procs |-> "idle"]
  /\ call = [p \in Procs |-> NoCall]
  /\ buf = [p \in Procs |-> None]
  /\ pos = [p \in Procs |-> 1]
  /\ found = [p \in Procs |-> {}]
  /\ clean = {}
  /\ excused = {}

Goto(p, s) == pc' = [pc EXCEPT ![p] = s]

(* GetItem and Query ask for no consistent read.                           *)
Copies(u) == {table[u], replica[u]}

Cached == {k \in Keys : cache[k] # None}

-----------------------------------------------------------------------------
(* Calls.                                                                  *)

Begin(p) ==
  /\ pc[p] = "idle"
  /\ \E o \in Ops \cap (Writers \cup Readers), a \in Args, l \in Limits :
       LET c == [op |-> o, u |-> a[1], v |-> a[2], limit |-> l]
       IN  call' = [call EXCEPT ![p] = c] /\ Goto(p, FirstStage(c))
  /\ UNCHANGED <<store, cache, buf, pos, found, clean, excused>>

Return(p) ==
  /\ pc[p] \in {"ok", "failed"}
  /\ Goto(p, "idle")
  /\ call' = [call EXCEPT ![p] = NoCall]
  /\ buf' = [buf EXCEPT ![p] = None]
  /\ UNCHANGED <<store, cache, pos, found, clean, excused>>

ValidateFirst(p) ==
  /\ pc[p] = "validateFirst"
  /\ \E part \in Copies(call[p].u) :
       LET same == TwoUsers(call[p]) /\ call[p].u = call[p].v
       IN  Goto(p, IF same \/ ~ part.profile THEN "failed"
                   ELSE IF TwoUsers(call[p]) THEN "validateSecond"
                   ELSE Validated(call[p]))
  /\ UNCHANGED <<store, cache, call, buf, pos, found, clean, excused>>

ValidateSecond(p) ==
  /\ pc[p] = "validateSecond"
  /\ \E part \in Copies(call[p].v) :
       Goto(p, IF part.profile THEN Validated(call[p]) ELSE "failed")
  /\ UNCHANGED <<store, cache, call, buf, pos, found, clean, excused>>

-----------------------------------------------------------------------------
(* Writers.                                                                *)

Check(p) ==
  /\ pc[p] = "check"
  /\ \E part \in Copies(call[p].u) :
       LET friends == call[p].v \in part.friends
       IN  Goto(p, IF friends = (call[p].op = "RemoveFriend") THEN "commit" ELSE "failed")
  /\ UNCHANGED <<store, cache, call, buf, pos, found, clean, excused>>

(* Mutant: no condition on either Put.                                     *)
PermittedWithoutPutConditions(c) ==
  c.op = "RemoveFriend" => c.v \in table[c.u].friends /\ c.u \in table[c.v].friends

(* The rows u -> v and v -> u are written in one transaction, each with    *)
(* its condition: neither may exist (add), both must (remove).             *)
Permitted(c) ==
  IF c.op = "AddFriend"
  THEN c.v \notin table[c.u].friends /\ c.u \notin table[c.v].friends
  ELSE c.v \in table[c.u].friends /\ c.u \in table[c.v].friends

(* Mutant: only the row of the caller is written.                          *)
WrittenOneWay(c) ==
  [table EXCEPT ![c.u].friends =
     IF c.op = "AddFriend" THEN @ \cup {c.v} ELSE @ \ {c.v}]

Written(c) ==
  [u \in Users |->
     IF u \notin {c.u, c.v} THEN table[u]
     ELSE LET other == IF u = c.u THEN c.v ELSE c.u
          IN  [table[u] EXCEPT !.friends =
                 IF c.op = "AddFriend" THEN @ \cup {other} ELSE @ \ {other}]]

(* What a reader's value has been computed from so far.                    *)
HasRead(p) == IF pc[p] = "readSecond" THEN {call[p].u} ELSE Sources(KeyOf(call[p]))

WriteRows(p) ==
  /\ table' = Written(call[p])
  /\ replica' = IF "lag" \in Faults THEN replica ELSE table'
  /\ clean' = {r \in clean : HasRead(r) \cap {call[p].u, call[p].v} = {}}

Commit(p) ==
  /\ pc[p] = "commit"
  /\ \/ /\ Permitted(call[p])
        /\ WriteRows(p)
        /\ Goto(p, "sweep")
     \/ /\ ~ Permitted(call[p])
        /\ Goto(p, "failed")
        /\ UNCHANGED <<store, clean>>
  /\ pos' = [pos EXCEPT ![p] = 1]
  /\ UNCHANGED <<cache, call, buf, found, excused>>

(* The transaction commits but its answer is lost: the request fails       *)
(* before it has deleted anything.                                         *)
CommitUnanswered(p) ==
  /\ "store" \in Faults
  /\ pc[p] = "commit" /\ Permitted(call[p])
  /\ WriteRows(p)
  /\ Goto(p, "failed")
  /\ excused' = excused \cup {k \in Cached : Sources(k) \cap {call[p].u, call[p].v} # {}}
  /\ UNCHANGED <<cache, call, buf, pos, found>>

(* invalidateUserCache, for the first user (steps 1..5) then the second    *)
(* (6..10): two keys, then three patterns.                                 *)
Pattern(u, i) ==
  CASE i = 1 -> {FriendsKey(u)}
    [] i = 2 -> {CountKey(u)}
    [] i = 3 -> {k \in Keys : k.kind = "friendship" /\ k.u = u}
    [] i = 4 -> {k \in Keys : k.kind = "mutual" /\ k.u = u}
    [] i = 5 -> {k \in Keys : k.kind = "mutual" /\ k.v = u}

(* Mutant: the cache of the friend is not invalidated.                     *)
TargetOfCallerOnly(c, i) == Pattern(c.u, IF i <= 5 THEN i ELSE i - 5)

Target(c, i) == IF i <= 5 THEN Pattern(c.u, i) ELSE Pattern(c.v, i - 5)

Named(i) == i \in {1, 2, 6, 7}

(* Mutant: the loop over the steps runs once too often.                    *)
NextSweepTooFar(p) ==
  /\ pos' = [pos EXCEPT ![p] = pos[p] + 1]
  /\ Goto(p, IF pos[p] = 11 THEN "publish" ELSE "sweep")

NextSweep(p) ==
  /\ pos' = [pos EXCEPT ![p] = IF pos[p] = 10 THEN 1 ELSE pos[p] + 1]
  /\ Goto(p, IF pos[p] = 10 THEN "publish" ELSE "sweep")

Drop(S) ==
  /\ cache' = [k \in Keys |-> IF k \in S THEN None ELSE cache[k]]
  /\ excused' = excused \ S

DeleteKey(p) ==
  /\ pc[p] = "sweep" /\ Named(pos[p])
  /\ Drop(Target(call[p], pos[p]))
  /\ NextSweep(p)
  /\ UNCHANGED <<store, call, buf, found, clean>>

(* KEYS, and DEL of what it returned in a second command.                  *)
ScanPattern(p) ==
  /\ pc[p] = "sweep" /\ ~ Named(pos[p])
  /\ LET hits == Target(call[p], pos[p]) \cap Cached
     IN  \/ /\ hits # {}
            /\ found' = [found EXCEPT ![p] = hits]
            /\ Goto(p, "delete")
            /\ UNCHANGED pos
         \/ /\ hits = {}
            /\ NextSweep(p)
            /\ UNCHANGED found
  /\ UNCHANGED <<store, cache, call, buf, clean, excused>>

DeleteFound(p) ==
  /\ pc[p] = "delete"
  /\ Drop(found[p])
  /\ found' = [found EXCEPT ![p] = {}]
  /\ NextSweep(p)
  /\ UNCHANGED <<store, call, buf, clean>>

(* Mutant: a failure is tried again until it succeeds.                     *)
DeletionFailsAndRetries(p) ==
  /\ "cache" \in Faults
  /\ pc[p] \in {"sweep", "delete"}
  /\ Goto(p, "sweep")
  /\ found' = [found EXCEPT ![p] = {}]
  /\ UNCHANGED <<store, cache, call, buf, pos, clean, excused>>

(* A deletion command fails, or the request's context is cancelled: the    *)
(* error is logged and the sweep goes on.                                  *)
DeletionFails(p) ==
  /\ "cache" \in Faults
  /\ pc[p] \in {"sweep", "delete"}
  /\ excused' = excused \cup
       (Cached \cap IF pc[p] = "delete" THEN found[p] ELSE Target(call[p], pos[p]))
  /\ found' = [found EXCEPT ![p] = {}]
  /\ NextSweep(p)
  /\ UNCHANGED <<store, cache, call, buf, clean>>

(* The publishing goroutine is started and the request is answered.        *)
Publish(p) ==
  /\ pc[p] = "publish"
  /\ Goto(p, "ok")
  /\ UNCHANGED <<store, cache, call, buf, pos, found, clean, excused>>

-----------------------------------------------------------------------------
(* Readers.                                                                *)

Lookup(p) ==
  /\ pc[p] = "lookup"
  /\ LET k == KeyOf(call[p])
     IN  \/ /\ cache[k] # None
            /\ buf' = [buf EXCEPT ![p] = cache[k]]
            /\ Goto(p, "ok")
         \/ /\ cache[k] = None \/ "cache" \in Faults
            /\ Goto(p, "read")
            /\ UNCHANGED buf
  /\ UNCHANGED <<store, cache, call, pos, found, clean, excused>>

Read(p) ==
  /\ pc[p] = "read"
  /\ \E part \in Copies(call[p].u) :
       /\ IF call[p].op = "GetMutualFriends"
          THEN /\ buf' = [buf EXCEPT ![p] = part.friends]
               /\ Goto(p, "readSecond")
          ELSE /\ buf' = [buf EXCEPT ![p] =
                   Answer(KeyOf(call[p]), call[p].limit, [table EXCEPT ![call[p].u] = part])]
               /\ Goto(p, "fill")
       /\ clean' = IF part.friends = table[call[p].u].friends THEN clean \cup {p} ELSE clean
  /\ UNCHANGED <<store, cache, call, pos, found, excused>>

ReadSecond(p) ==
  /\ pc[p] = "readSecond"
  /\ \E part \in Copies(call[p].v) :
       /\ buf' = [buf EXCEPT ![p] = buf[p] \cap part.friends]
       /\ clean' = IF part.friends = table[call[p].v].friends THEN clean ELSE clean \ {p}
  /\ Goto(p, "fill")
  /\ UNCHANGED <<store, cache, call, pos, found, excused>>

(* The value read is stored whatever has been committed since.             *)
(* A SET takes effect before its answer or never: one that was given up    *)
(* and arrives later is left to CacheService.                              *)
Fill(p) ==
  /\ pc[p] = "fill"
  /\ \/ LET k == KeyOf(call[p])
        IN  /\ cache' = [cache EXCEPT ![k] = buf[p]]
            /\ excused' = IF p \in clean THEN excused \ {k} ELSE excused \cup {k}
     \/ "cache" \in Faults /\ UNCHANGED <<cache, excused>>
  /\ Goto(p, "ok")
  /\ clean' = clean \ {p}
  /\ UNCHANGED <<store, call, buf, pos, found>>

-----------------------------------------------------------------------------
(* The environment.                                                        *)

StoreFails(p) ==
  /\ "store" \in Faults
  /\ pc[p] \in StoreStages
  /\ Goto(p, "failed")
  /\ clean' = clean \ {p}
  /\ UNCHANGED <<store, cache, call, buf, pos, found, excused>>

(* A writer's deletions still to come.                                     *)
Owes(p, k) ==
  \/ /\ pc[p] = "sweep"
     /\ \E i \in pos[p]..10 : k \in Target(call[p], i)
  \/ /\ pc[p] = "delete"
     /\ k \in found[p] \/ \E i \in (pos[p] + 1)..10 : k \in Target(call[p], i)

Crash ==
  /\ "crash" \in Faults
  /\ excused' = excused \cup {k \in Cached : \E p \in Procs : Owes(p, k)}
  /\ pc' = [p \in Procs |-> "idle"]
  /\ call' = [p \in Procs |-> NoCall]
  /\ buf' = [p \in Procs |-> None]
  /\ pos' = [p \in Procs |-> 1]
  /\ found' = [p \in Procs |-> {}]
  /\ clean' = {}
  /\ UNCHANGED <<store, cache>>

(* Every entry is set with a time to live; Redis may also evict it.        *)
Expire(k) ==
  /\ cache[k] # None
  /\ Drop({k})
  /\ UNCHANGED <<store, local, clean>>

Replicate(u) ==
  /\ replica[u] # table[u]
  /\ replica' = [replica EXCEPT ![u] = table[u]]
  /\ UNCHANGED <<table, cache, local, clean, excused>>

SetProfile(u, b) ==
  /\ table[u].profile # b
  /\ table' = [table EXCEPT ![u].profile = b]
  /\ replica' = IF "lag" \in Faults THEN replica ELSE table'
  /\ UNCHANGED <<cache, local, clean, excused>>

CreateUser(u) == "CreateUser" \in Ops /\ SetProfile(u, TRUE)

(* Deletes the profile row only: the friend rows stay.                     *)
DeleteUser(u) == "DeleteUser" \in Ops /\ SetProfile(u, FALSE)

-----------------------------------------------------------------------------
Step(p) ==
  \/ ValidateFirst(p) \/ ValidateSecond(p) \/ Check(p)
  \/ Commit(p) \/ CommitUnanswered(p)
  \/ DeleteKey(p) \/ ScanPattern(p) \/ DeleteFound(p) \/ DeletionFails(p)
  \/ Publish(p)
  \/ Lookup(p) \/ Read(p) \/ ReadSecond(p) \/ Fill(p)
  \/ StoreFails(p)
  \/ Return(p)

Next ==
  \/ \E p \in Procs : Begin(p) \/ Step(p)
  \/ \E k \in Keys : Expire(k)
  \/ \E u \in Users : Replicate(u) \/ CreateUser(u) \/ DeleteUser(u)
  \/ Crash

Spec == Init /\ [][Next]_vars

(* Requests keep running.  Nothing is assumed of Redis: an entry need not  *)
(* expire.                                                                 *)
FairSpec == Spec /\ \A p \in Procs : WF_vars(Step(p))

-----------------------------------------------------------------------------
(* Properties.                                                             *)

TypeOK ==
  /\ table \in [Users -> Partition]
  /\ replica \in [Users -> Partition]
  /\ cache = [k \in Keys |-> cache[k]]
  /\ \A k \in Cached : cache[k] \in Values(k)
  /\ pc \in [Procs -> Stages]
  /\ call \in [Procs -> Call \cup {NoCall}]
  /\ buf = [p \in Procs |-> buf[p]]
  /\ \A p \in Procs :
       /\ pc[p] # "idle" => call[p] \in Call
       /\ pc[p] = "fill" => buf[p] \in Values(KeyOf(call[p]))
       /\ pc[p] = "readSecond" => buf[p] \in SUBSET Users
  /\ pos \in [Procs -> 1..10]
  /\ found \in [Procs -> SUBSET Keys]
  /\ clean \subseteq Procs
  /\ excused \subseteq Keys

(* Friendship rows come in pairs and nobody befriends himself, whatever    *)
(* requests race and whichever of them fail (friend_repository.go:29,107). *)
FriendshipsMutual ==
  \A u, v \in Users :
    v \in table[u].friends => u # v /\ u \in table[v].friends

Stale(k) == cache[k] # None /\ ~ Truthful(k, cache[k])

(* An entry that contradicts the store is about to be deleted by a writer  *)
(* that has not finished its deletions, unless it was filled by a reader   *)
(* that a commit overtook or a deletion of it did not happen.  It says     *)
(* that the two deletions and three patterns of invalidateUserCache, for   *)
(* both users and after the commit, reach every key whose answer the       *)
(* commit changed (friend_service.go:59-61, 316-348).                      *)
StaleIsOwed ==
  \A k \in Keys : Stale(k) => k \in excused \/ \E p \in Procs : Owes(p, k)

(* When no request runs, no entry contradicts the store.  True of requests *)
(* that run one after the other, as the program's own cache test does.     *)
SettledCacheIsFresh ==
  (\A p \in Procs : pc[p] = "idle") => \A k \in Keys : ~ Stale(k)

(* The requests to write, seen as requests to the graph of friendships:    *)
(* each takes effect at its transaction.                                   *)
Members == {u \in Users : table[u].profile}

Edges == {e \in SUBSET Users :
            \E u, v \in Users : e = {u, v} /\ v \in table[u].friends}

Asked(p) ==
  IF call[p].op \in Writers
  THEN [op |-> call[p].op, u |-> call[p].u, v |-> call[p].v]
  ELSE [op |-> "none"]

Told(p) ==
  IF call[p].op \notin Writers THEN "none"
  ELSE IF pc[p] = "failed" THEN "failed"
  ELSE IF pc[p] \in {"sweep", "delete", "publish", "ok"} THEN "ok"
  ELSE "none"

Graph == INSTANCE FriendGraph WITH
  Clients   <- Procs,
  MayReject <- Faults \cap {"store", "lag"} # {},
  MayLose   <- Faults \cap {"store", "crash"} # {},
  members   <- Members,
  edges     <- Edges,
  request   <- [p \in Procs |-> Asked(p)],
  outcome   <- [p \in Procs |-> Told(p)]

(* The service implements the graph: an edge appears or disappears once    *)
(* for each request that is answered "ok", one request of several that     *)
(* race for it, and a request is refused only when it could be.            *)
ImplementsGraph == Graph!Spec

(* Every request is answered, whatever fails on its way.                   *)
RequestsFinish == \A p \in Procs : pc[p] # "idle" ~> pc[p] = "idle"

(* The keys that requests ask for: the others never have an entry.         *)
Requested ==
  Keys \cap {KeyOf([op |-> o, u |-> a[1], v |-> a[2]]) : o \in Ops \cap Readers, a \in Args}

(* A stale entry is owed a deletion, and the debt is paid: the writers'    *)
(* sweeps reach it without any help of its time to live, whatever other    *)
(* requests commit and fill meanwhile, or a command that failed, a crash   *)
(* or a late fill excuses them (friend_service.go:316-363).                *)
StaleIsSwept == \A k \in Requested : Stale(k) /\ k \notin excused ~> ~ Stale(k) \/ k \in excused
=============================================================================
