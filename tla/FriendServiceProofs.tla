-------------------------- MODULE FriendServiceProofs --------------------------
(***************************************************************************)
(* Theorems about FriendService for any finite set of users, any number of *)
(* concurrent requests, any mix of operations and any faults; and that it  *)
(* implements FriendGraph.                                                 *)
(***************************************************************************)
EXTENDS FriendService, FiniteSetTheorems, TLAPS

-----------------------------------------------------------------------------
(* The inductive invariant.                                                *)

(* A request at a stage is of an operation that has that stage, and the    *)
(* operations on two users have passed validateUsers there.                *)
StageOK ==
  \A p \in Procs :
    /\ pc[p] \in {"check", "commit", "sweep", "delete", "publish"}
         => call[p].op \in Writers
    /\ pc[p] \in {"lookup", "read", "fill"} => call[p].op \in Readers
    /\ pc[p] = "readSecond" => call[p].op = "GetMutualFriends"
    /\ pc[p] = "validateFirst" => call[p].op \notin {"RemoveFriend", "AreFriends"}
    /\ pc[p] = "validateSecond" => TwoUsers(call[p])
    /\ pc[p] \notin {"idle", "validateFirst", "failed"} /\ TwoUsers(call[p])
         => call[p].u # call[p].v

(* What a reader that no commit has overtaken holds, still agrees with the *)
(* store.                                                                  *)
CleanOK ==
  \A p \in clean :
    /\ pc[p] \in {"readSecond", "fill"}
    /\ pc[p] = "readSecond" => buf[p] = table[call[p].u].friends
    /\ pc[p] = "fill" => Truthful(KeyOf(call[p]), buf[p])

IInv == TypeOK /\ StageOK /\ FriendshipsMutual /\ CleanOK /\ StaleIsOwed

-----------------------------------------------------------------------------
(* Lemmas about the operators.                                             *)

(* The key of a reader's call is a cache key.                              *)
LEMMA KeyOfInKeys ==
  ASSUME NEW c \in Call, c.op \in Readers,
         c.op = "GetMutualFriends" => c.u # c.v
  PROVE  KeyOf(c) \in Keys
  BY UsersAssumption
  DEF KeyOf, Keys, Kinds, Call, Readers, Writers, FriendsKey, CountKey,
      FriendshipKey, MutualKey

(* An answer has the type of the values its key holds.                     *)
LEMMA AnswerType ==
  ASSUME NEW k \in Keys, NEW l \in Limits, NEW t \in [Users -> Partition]
  PROVE  Answer(k, l, t) \in Values(k)
<1>1. k.u \in Users /\ k.v \in Users /\ k.kind \in Kinds
  BY DEF Keys
<1>2. t[k.u].friends \in SUBSET Users /\ t[k.v].friends \in SUBSET Users
  BY <1>1 DEF Partition
<1>3. Cardinality(t[k.u].friends) \in Nat
  BY <1>2, UsersAssumption, FS_Subset, FS_CardinalityType
<1>4. ASSUME NEW S \in SUBSET Users, Cardinality(S) \in Nat
      PROVE  Page(S, l) \in [rows : SUBSET Users, more : BOOLEAN]
  <2>1. {x \in S : Cardinality({y \in S : y < x}) < l} \in SUBSET Users
    OBVIOUS
  <2>2. (Cardinality(S) >= l) \in BOOLEAN
    BY <1>4, LimitsAssumption
  <2>3. QED BY <2>1, <2>2 DEF Page
<1>5. CASE k.kind = "friends"
  BY <1>2, <1>3, <1>4, <1>5 DEF Answer, Values
<1>6. CASE k.kind = "count"
  BY <1>3, <1>6 DEF Answer, Values
<1>7. CASE k.kind = "friendship"
  BY <1>7 DEF Answer, Values
<1>8. CASE k.kind = "mutual"
  BY <1>2, <1>8 DEF Answer, Values
<1>9. QED BY <1>1, <1>5, <1>6, <1>7, <1>8 DEF Kinds

(* An answer depends on the friends of its sources only.                   *)
LEMMA AnswerIsLocal ==
  ASSUME NEW k \in Keys, NEW l, NEW t, NEW s,
         \A u \in Sources(k) : t[u].friends = s[u].friends
  PROVE  Answer(k, l, t) = Answer(k, l, s)
  BY DEF Answer, Sources, Keys, Kinds

(* The deletions of a write for u and v reach every key whose answer is    *)
(* read from the rows of u or of v: the step is one of 1..10.              *)
LEMMA SweepReachesSources ==
  ASSUME NEW k \in Keys, NEW c, Sources(k) \cap {c.u, c.v} # {}
  PROVE  \E i \in 1..10 : k \in Target(c, i)
<1>1. ASSUME NEW u, u \in Sources(k)
      PROVE  \E i \in 1..5 : k \in Pattern(u, i)
  <2>1. CASE k.kind = "friends"
    <3>1. k = FriendsKey(u)
      BY <1>1, <2>1 DEF Keys, FriendsKey, Sources
    <3>2. k \in Pattern(u, 1)
      BY <3>1 DEF Pattern
    <3>3. QED BY <3>2
  <2>2. CASE k.kind = "count"
    <3>1. k = CountKey(u)
      BY <1>1, <2>2 DEF Keys, CountKey, Sources
    <3>2. k \in Pattern(u, 2)
      BY <3>1 DEF Pattern
    <3>3. QED BY <3>2
  <2>3. CASE k.kind = "friendship"
    <3>1. k \in Pattern(u, 3)
      BY <1>1, <2>3 DEF Pattern, Sources
    <3>2. QED BY <3>1
  <2>4. CASE k.kind = "mutual"
    <3>1. k \in Pattern(u, 4) \/ k \in Pattern(u, 5)
      BY <1>1, <2>4 DEF Pattern, Sources
    <3>2. QED BY <3>1
  <2>5. QED BY <2>1, <2>2, <2>3, <2>4 DEF Keys, Kinds
<1>2. CASE c.u \in Sources(k)
  <2>1. PICK i \in 1..5 : k \in Pattern(c.u, i)
    BY <1>1, <1>2
  <2>2. i \in 1..10 /\ k \in Target(c, i)
    BY <2>1 DEF Target
  <2>3. QED BY <2>2
<1>3. CASE c.v \in Sources(k)
  <2>1. PICK i \in 1..5 : k \in Pattern(c.v, i)
    BY <1>1, <1>3
  <2>2. i + 5 \in 1..10 /\ ~ (i + 5 <= 5) /\ (i + 5) - 5 = i
    BY <2>1
  <2>3. k \in Target(c, i + 5)
    BY <2>1, <2>2 DEF Target
  <2>4. QED BY <2>2, <2>3
<1>4. QED BY <1>2, <1>3
-----------------------------------------------------------------------------
(* Type correctness.                                                       *)

(* The stages and the calls of the requests.                               *)
CallsOK ==
  /\ pc \in [Procs -> Stages]
  /\ call \in [Procs -> Call \cup {NoCall}]
  /\ \A p \in Procs : pc[p] # "idle" => call[p] \in Call
  /\ StageOK

(* Every step keeps the stages, the calls, and the stages of each          *)
(* operation.                                                              *)
LEMMA CallsStep ==
  ASSUME CallsOK, [Next]_vars
  PROVE  CallsOK'
<1> USE DEF CallsOK, StageOK
<1>1. ASSUME NEW p \in Procs, Begin(p)
      PROVE  CallsOK'
  BY <1>1, ArgsAssumption
  DEF Begin, Goto, FirstStage, Call, Stages, Readers, Writers, TwoUsers
<1>2. ASSUME NEW p \in Procs, Return(p)
      PROVE  CallsOK'
  BY <1>2 DEF Return, Goto, Stages, TwoUsers, NoCall
<1>3. ASSUME NEW p \in Procs, ValidateFirst(p)
      PROVE  CallsOK'
  <2>1. pc[p] = "validateFirst" /\ call[p] \in Call /\ call' = call
    BY <1>3 DEF ValidateFirst
  <2>2. PICK s : /\ pc' = [pc EXCEPT ![p] = s]
                 /\ \/ s = "failed"
                    \/ s = "validateSecond" /\ TwoUsers(call[p]) /\ call[p].u # call[p].v
                    \/ s = Validated(call[p]) /\ ~ TwoUsers(call[p])
    BY <1>3 DEF ValidateFirst, Goto
  <2>3. CASE s \in {"failed", "validateSecond"}
    BY <2>1, <2>2, <2>3 DEF Stages, Validated, TwoUsers
  <2>4. CASE s = Validated(call[p]) /\ ~ TwoUsers(call[p])
    <3>1. s = "lookup" /\ call[p].op \in Readers
      BY <2>1, <2>4 DEF Validated, TwoUsers, Call, Readers, Writers
    <3>2. QED BY <2>1, <2>2, <2>4, <3>1 DEF Stages, TwoUsers
  <2>5. QED BY <2>2, <2>3, <2>4
<1>4. ASSUME NEW p \in Procs, ValidateSecond(p)
      PROVE  CallsOK'
  BY <1>4 DEF ValidateSecond, Goto, Stages, TwoUsers, Validated, Call, Readers, Writers
<1>5. ASSUME NEW p \in Procs, Check(p)
      PROVE  CallsOK'
  BY <1>5 DEF Check, Goto, Stages, TwoUsers
<1>6. ASSUME NEW p \in Procs, Commit(p) \/ CommitUnanswered(p)
      PROVE  CallsOK'
  BY <1>6 DEF Commit, CommitUnanswered, Goto, Stages, TwoUsers
<1>7. ASSUME NEW p \in Procs,
             DeleteKey(p) \/ ScanPattern(p) \/ DeleteFound(p) \/ DeletionFails(p)
      PROVE  CallsOK'
  BY <1>7 DEF DeleteKey, ScanPattern, DeleteFound, DeletionFails, NextSweep,
              Goto, Stages, TwoUsers
<1>8. ASSUME NEW p \in Procs, Publish(p)
      PROVE  CallsOK'
  BY <1>8 DEF Publish, Goto, Stages, TwoUsers
<1>9. ASSUME NEW p \in Procs, Lookup(p) \/ Fill(p)
      PROVE  CallsOK'
  BY <1>9 DEF Lookup, Fill, Goto, Stages, TwoUsers
<1>10. ASSUME NEW p \in Procs, Read(p) \/ ReadSecond(p)
       PROVE  CallsOK'
  BY <1>10 DEF Read, ReadSecond, Goto, Stages, TwoUsers, Readers
<1>11. ASSUME NEW p \in Procs, StoreFails(p)
       PROVE  CallsOK'
  BY <1>11 DEF StoreFails, StoreStages, Goto, Stages, TwoUsers
<1>12. CASE Crash
  BY <1>12 DEF Crash, Stages
<1>13. CASE \/ \E k \in Keys : Expire(k)
            \/ \E u \in Users : Replicate(u) \/ CreateUser(u) \/ DeleteUser(u)
            \/ UNCHANGED vars
  <2>1. UNCHANGED local
    BY <1>13 DEF Expire, Replicate, CreateUser, DeleteUser, SetProfile, vars, local
  <2>2. QED BY <2>1 DEF local
<1>14. QED
  BY <1>1, <1>2, <1>3, <1>4, <1>5, <1>6, <1>7, <1>8, <1>9, <1>10, <1>11, <1>12, <1>13
  DEF Next, Step
(* The store.                                                              *)
StoreOK == table \in [Users -> Partition] /\ replica \in [Users -> Partition]

(* A transaction leaves a store.                                           *)
LEMMA WrittenType ==
  ASSUME NEW c \in Call, table \in [Users -> Partition]
  PROVE  Written(c) \in [Users -> Partition]
  BY DEF Written, Call, Partition

(* Every step keeps the type of the store and of its copy.                 *)
LEMMA StoreStep ==
  ASSUME CallsOK, StoreOK, [Next]_vars
  PROVE  StoreOK'
<1> USE DEF StoreOK
<1>1. ASSUME NEW p \in Procs, Commit(p) \/ CommitUnanswered(p)
      PROVE  StoreOK'
  <2>1. call[p] \in Call
    BY <1>1 DEF Commit, CommitUnanswered, CallsOK
  <2>2. Written(call[p]) \in [Users -> Partition]
    BY <2>1, WrittenType
  <2>3. WriteRows(p) \/ UNCHANGED store
    BY <1>1 DEF Commit, CommitUnanswered
  <2>4. QED BY <2>2, <2>3 DEF WriteRows, store
<1>2. ASSUME NEW u \in Users, Replicate(u)
      PROVE  StoreOK'
  BY <1>2 DEF Replicate
<1>3. ASSUME NEW u \in Users, CreateUser(u) \/ DeleteUser(u)
      PROVE  StoreOK'
  <2>1. PICK b \in BOOLEAN : SetProfile(u, b)
    BY <1>3 DEF CreateUser, DeleteUser
  <2>2. [table EXCEPT ![u].profile = b] \in [Users -> Partition]
    BY <2>1 DEF Partition
  <2>3. QED BY <2>1, <2>2 DEF SetProfile
<1>4. CASE UNCHANGED store
  BY <1>4 DEF store
<1>5. QED
  BY <1>1, <1>2, <1>3, <1>4
  DEF Next, Step, vars, store, Begin, Return, ValidateFirst, ValidateSecond, Check,
      DeleteKey, ScanPattern, DeleteFound, DeletionFails, Publish, Lookup, Read,
      ReadSecond, Fill, StoreFails, Crash, Expire

(* The cache.                                                              *)
CacheOK ==
  /\ cache = [k \in Keys |-> cache[k]]
  /\ \A k \in Cached : cache[k] \in Values(k)
  /\ excused \subseteq Keys

(* Deleting keys keeps the type of the cache.                              *)
LEMMA DropType ==
  ASSUME CacheOK, NEW S, Drop(S)
  PROVE  CacheOK'
  BY DEF CacheOK, Drop, Cached

(* The values that requests hold.                                          *)
LocalOK ==
  /\ buf = [p \in Procs |-> buf[p]]
  /\ \A p \in Procs :
       /\ pc[p] = "fill" => buf[p] \in Values(KeyOf(call[p]))
       /\ pc[p] = "readSecond" => buf[p] \in SUBSET Users
  /\ pos \in [Procs -> 1..10]
  /\ found \in [Procs -> SUBSET Keys]
  /\ clean \subseteq Procs

(* Every step keeps the type of the cache: what is stored under a key is   *)
(* one of its values.                                                      *)
LEMMA CacheStep ==
  ASSUME CallsOK, CacheOK, LocalOK, [Next]_vars
  PROVE  CacheOK'
<1>1. ASSUME NEW p \in Procs, DeleteKey(p) \/ DeleteFound(p)
      PROVE  CacheOK'
  BY <1>1, DropType DEF DeleteKey, DeleteFound
<1>2. ASSUME NEW k \in Keys, Expire(k)
      PROVE  CacheOK'
  BY <1>2, DropType DEF Expire
<1>3. ASSUME NEW p \in Procs, Fill(p)
      PROVE  CacheOK'
  <2>1. KeyOf(call[p]) \in Keys
    BY <1>3, KeyOfInKeys DEF Fill, CallsOK, StageOK, TwoUsers
  <2>2. buf[p] \in Values(KeyOf(call[p]))
    BY <1>3 DEF Fill, LocalOK
  <2>3. QED BY <1>3, <2>1, <2>2 DEF Fill, CacheOK, Cached
<1>4. ASSUME UNCHANGED cache, excused' \subseteq excused \cup Keys
      PROVE  CacheOK'
  BY <1>4 DEF CacheOK, Cached
<1>5. QED
  BY <1>1, <1>2, <1>3, <1>4
  DEF Next, Step, vars, Begin, Return, ValidateFirst, ValidateSecond, Check, Commit,
      CommitUnanswered, ScanPattern, DeletionFails, Publish, Lookup, Read, ReadSecond,
      StoreFails, Crash, Replicate, CreateUser, DeleteUser, SetProfile, Cached

(* What a reader computes is a value of the key it will store it under.    *)
LEMMA ReadType ==
  ASSUME StoreOK, NEW p \in Procs, call[p] \in Call, call[p].op \in Readers,
         call[p].op = "GetMutualFriends" => call[p].u # call[p].v,
         NEW part \in Copies(call[p].u)
  PROVE  Answer(KeyOf(call[p]), call[p].limit, [table EXCEPT ![call[p].u] = part])
           \in Values(KeyOf(call[p]))
<1>1. KeyOf(call[p]) \in Keys
  BY KeyOfInKeys
<1>2. call[p].u \in Users /\ call[p].limit \in Limits
  BY DEF Call
<1>3. [table EXCEPT ![call[p].u] = part] \in [Users -> Partition]
  BY <1>2 DEF StoreOK, Copies
<1>4. QED BY <1>1, <1>2, <1>3, AnswerType

(* Every step keeps the types of what requests hold.                       *)
LEMMA LocalStep ==
  ASSUME CallsOK, StoreOK, CacheOK, LocalOK, [Next]_vars
  PROVE  LocalOK'
<1>1. ASSUME NEW p \in Procs, Begin(p)
      PROVE  LocalOK'
  BY <1>1 DEF Begin, Goto, FirstStage, LocalOK, CallsOK
<1>2. ASSUME NEW p \in Procs, Return(p)
      PROVE  LocalOK'
  BY <1>2 DEF Return, Goto, LocalOK, CallsOK
<1>3. ASSUME NEW p \in Procs,
             ValidateFirst(p) \/ ValidateSecond(p) \/ Check(p) \/ Publish(p)
      PROVE  LocalOK'
  BY <1>3
  DEF ValidateFirst, ValidateSecond, Check, Publish, Goto, Validated, LocalOK, CallsOK
<1>4. ASSUME NEW p \in Procs, Commit(p) \/ CommitUnanswered(p)
      PROVE  LocalOK'
  BY <1>4 DEF Commit, CommitUnanswered, WriteRows, Goto, LocalOK, CallsOK
<1>5. ASSUME NEW p \in Procs, NextSweep(p), UNCHANGED <<call, buf, clean>>,
             found' = found \/ found' = [found EXCEPT ![p] = {}]
      PROVE  LocalOK'
  BY <1>5 DEF NextSweep, Goto, LocalOK, CallsOK
<1>6. ASSUME NEW p \in Procs, ScanPattern(p)
      PROVE  LocalOK'
  <2>1. CASE NextSweep(p) /\ UNCHANGED found
    BY <1>5, <1>6, <2>1 DEF ScanPattern
  <2>2. CASE ~ (NextSweep(p) /\ UNCHANGED found)
    BY <1>6, <2>2 DEF ScanPattern, Goto, Cached, LocalOK, CallsOK
  <2>3. QED BY <2>1, <2>2
<1>7. ASSUME NEW p \in Procs, Lookup(p)
      PROVE  LocalOK'
  BY <1>7 DEF Lookup, Goto, LocalOK, CallsOK
<1>8. ASSUME NEW p \in Procs, Read(p)
      PROVE  LocalOK'
  <2>1. PICK part \in Copies(call[p].u) :
          \/ /\ call[p].op = "GetMutualFriends"
             /\ buf' = [buf EXCEPT ![p] = part.friends]
             /\ Goto(p, "readSecond")
          \/ /\ buf' = [buf EXCEPT ![p] =
                   Answer(KeyOf(call[p]), call[p].limit, [table EXCEPT ![call[p].u] = part])]
             /\ Goto(p, "fill")
    BY <1>8 DEF Read
  <2>2. clean' \subseteq Procs /\ UNCHANGED <<call, pos, found>>
    BY <1>8 DEF Read, LocalOK
  <2>3. /\ call[p] \in Call /\ call[p].op \in Readers
        /\ call[p].op = "GetMutualFriends" => call[p].u # call[p].v
    BY <1>8 DEF Read, CallsOK, StageOK, TwoUsers
  <2>4. part.friends \in SUBSET Users
    BY <2>1, <2>3 DEF Copies, StoreOK, Partition, Call
  <2>5. Answer(KeyOf(call[p]), call[p].limit, [table EXCEPT ![call[p].u] = part])
          \in Values(KeyOf(call[p]))
    BY <2>3, ReadType
  <2>6. QED BY <2>1, <2>2, <2>4, <2>5 DEF Goto, LocalOK, CallsOK
<1>9. ASSUME NEW p \in Procs, ReadSecond(p)
      PROVE  LocalOK'
  <2>1. Values(KeyOf(call[p])) = SUBSET Users
    BY <1>9 DEF ReadSecond, CallsOK, StageOK, KeyOf, MutualKey, Values
  <2>2. PICK S \in SUBSET Users : buf' = [buf EXCEPT ![p] = S]
    <3>1. buf[p] \in SUBSET Users
      BY <1>9 DEF ReadSecond, LocalOK
    <3>2. PICK part : buf' = [buf EXCEPT ![p] = buf[p] \cap part.friends]
      BY <1>9 DEF ReadSecond
    <3>3. buf[p] \cap part.friends \in SUBSET Users
      BY <3>1
    <3>4. QED BY <3>2, <3>3
  <2>3. clean' \subseteq clean /\ UNCHANGED <<call, pos, found>> /\ Goto(p, "fill")
    BY <1>9 DEF ReadSecond
  <2>4. QED BY <2>1, <2>2, <2>3 DEF Goto, LocalOK, CallsOK
<1>10. ASSUME NEW p \in Procs, Fill(p) \/ StoreFails(p)
       PROVE  LocalOK'
  <2>1. /\ clean' = clean \ {p} /\ UNCHANGED <<call, buf, pos, found>>
        /\ Goto(p, "ok") \/ Goto(p, "failed")
    BY <1>10 DEF Fill, StoreFails
  <2>2. QED BY <2>1 DEF Goto, LocalOK, CallsOK
<1>11. CASE Crash
  BY <1>11 DEF Crash, LocalOK
<1>12. CASE UNCHANGED <<local, clean>>
  BY <1>12 DEF local, LocalOK
<1>13. ASSUME NEW p \in Procs, DeleteKey(p) \/ DeleteFound(p) \/ DeletionFails(p)
       PROVE  LocalOK'
  BY <1>5, <1>13 DEF DeleteKey, DeleteFound, DeletionFails
<1>14. QED
  BY <1>1, <1>2, <1>3, <1>4, <1>6, <1>7, <1>8, <1>9, <1>10, <1>11, <1>12, <1>13
  DEF Next, Step, vars, local, Expire, Replicate, CreateUser, DeleteUser, SetProfile

(* The types hold at the start.                                            *)
LEMMA InitType == Init => TypeOK /\ StageOK
<1> SUFFICES ASSUME Init PROVE TypeOK /\ StageOK
  OBVIOUS
<1>1. [Unregistered EXCEPT !.profile = TRUE] \in Partition
  BY DEF Unregistered, Partition
<1>2. /\ table \in [Users -> Partition] /\ replica \in [Users -> Partition]
      /\ cache = [k \in Keys |-> cache[k]] /\ Cached = {}
      /\ clean \subseteq Procs /\ excused \subseteq Keys
  BY <1>1 DEF Init, Cached
<1>3. /\ pc \in [Procs -> Stages] /\ call \in [Procs -> Call \cup {NoCall}]
      /\ buf = [p \in Procs |-> buf[p]] /\ pos \in [Procs -> 1..10]
      /\ found \in [Procs -> SUBSET Keys]
      /\ \A p \in Procs : pc[p] = "idle"
  BY DEF Init, Stages
<1>4. QED BY <1>2, <1>3 DEF TypeOK, StageOK

(* The types are inductive.                                                *)
LEMMA TypeStep == TypeOK /\ StageOK /\ [Next]_vars => (TypeOK /\ StageOK)'
<1>1. TypeOK /\ StageOK <=> CallsOK /\ StoreOK /\ CacheOK /\ LocalOK
  BY DEF TypeOK, CallsOK, StoreOK, CacheOK, LocalOK
<1>2. (TypeOK /\ StageOK)' <=> (CallsOK /\ StoreOK /\ CacheOK /\ LocalOK)'
  BY DEF TypeOK, CallsOK, StoreOK, CacheOK, LocalOK, Cached, StageOK
<1>3. QED BY <1>1, <1>2, CallsStep, StoreStep, CacheStep, LocalStep

(* Every variable keeps its type, for any users, requests and faults; and  *)
(* a request reaches only the stages that its operation has.               *)
THEOREM TypeCorrect == Spec => []TypeOK
<1>1. Spec => [](TypeOK /\ StageOK)
  BY InitType, TypeStep, PTL DEF Spec
<1>2. QED BY <1>1, PTL
-----------------------------------------------------------------------------
(* What a step does to the friendships.                                    *)

(* Only a permitted transaction changes friend rows, and only those of the *)
(* two users of its call.                                                  *)
LEMMA RowsChangeByCommit ==
  ASSUME TypeOK, [Next]_vars, NEW u \in Users
  PROVE  \/ table'[u].friends = table[u].friends
         \/ \E p \in Procs : /\ pc[p] = "commit" /\ Permitted(call[p])
                             /\ table' = Written(call[p]) /\ u \in {call[p].u, call[p].v}
<1>1. ASSUME NEW p \in Procs, Commit(p) \/ CommitUnanswered(p), table' # table
      PROVE  /\ pc[p] = "commit" /\ Permitted(call[p])
             /\ table' = Written(call[p])
  BY <1>1 DEF Commit, CommitUnanswered, WriteRows, store
<1>2. ASSUME NEW p \in Procs, table' = Written(call[p]), u \notin {call[p].u, call[p].v}
      PROVE  table'[u].friends = table[u].friends
  BY <1>2 DEF Written
<1>3. ASSUME NEW w \in Users, CreateUser(w) \/ DeleteUser(w)
      PROVE  table'[u].friends = table[u].friends
  <2>1. PICK b \in BOOLEAN : table' = [table EXCEPT ![w].profile = b]
    BY <1>3 DEF CreateUser, DeleteUser, SetProfile
  <2>2. QED BY <2>1 DEF TypeOK, Partition
<1>4. \/ table' = table
      \/ \E p \in Procs : Commit(p) \/ CommitUnanswered(p)
      \/ \E w \in Users : CreateUser(w) \/ DeleteUser(w)
  BY DEF Next, Step, vars, store, Begin, Return, ValidateFirst, ValidateSecond, Check,
         DeleteKey, ScanPattern, DeleteFound, DeletionFails, Publish, Lookup, Read,
         ReadSecond, Fill, StoreFails, Crash, Expire, Replicate
<1>5. QED BY <1>1, <1>2, <1>3, <1>4

(* The rows of two users after a transaction.                              *)
LEMMA WrittenFriends ==
  ASSUME TypeOK, NEW c \in Call, c.u # c.v, NEW u \in Users
  PROVE  LET other == IF u = c.u THEN c.v ELSE c.u
         IN  Written(c)[u].friends =
               IF u \notin {c.u, c.v} THEN table[u].friends
               ELSE IF c.op = "AddFriend" THEN table[u].friends \cup {other}
               ELSE table[u].friends \ {other}
  BY DEF Written, TypeOK, Partition

(* Every step keeps the rows in pairs.                                     *)
LEMMA MutualStep ==
  ASSUME TypeOK, StageOK, FriendshipsMutual, [Next]_vars
  PROVE  FriendshipsMutual'
<1>1. CASE \A u \in Users : table'[u].friends = table[u].friends
  BY <1>1 DEF FriendshipsMutual
<1>2. ASSUME NEW p \in Procs, pc[p] = "commit", Permitted(call[p]),
             table' = Written(call[p])
      PROVE  FriendshipsMutual'
  <2>1. call[p] \in Call /\ call[p].op \in Writers
    BY <1>2 DEF TypeOK, StageOK
  <2>2. call[p].u # call[p].v
    BY <1>2, <2>1 DEF StageOK, TwoUsers, Permitted, Writers, FriendshipsMutual, Call
  <2>3. \A u \in Users :
          LET other == IF u = call[p].u THEN call[p].v ELSE call[p].u
          IN  table'[u].friends =
                IF u \notin {call[p].u, call[p].v} THEN table[u].friends
                ELSE IF call[p].op = "AddFriend" THEN table[u].friends \cup {other}
                ELSE table[u].friends \ {other}
    BY <1>2, <2>1, <2>2, WrittenFriends
  <2> DEFINE a == call[p].u
             b == call[p].v
  <2>4. a \in Users /\ b \in Users
    BY <2>1 DEF Call
  <2>5. CASE call[p].op = "AddFriend"
    <3>1. \A u \in Users : table'[u].friends =
            table[u].friends \cup (IF u = a THEN {b} ELSE IF u = b THEN {a} ELSE {})
      BY <2>3, <2>5
    <3>2. QED BY <2>2, <2>4, <3>1 DEF FriendshipsMutual
  <2>6. CASE call[p].op # "AddFriend"
    <3>1. \A u \in Users : table'[u].friends =
            table[u].friends \ (IF u = a THEN {b} ELSE IF u = b THEN {a} ELSE {})
      BY <2>3, <2>6
    <3>2. QED BY <2>2, <2>4, <3>1 DEF FriendshipsMutual
  <2>7. QED BY <2>5, <2>6
<1>3. QED BY <1>1, <1>2, RowsChangeByCommit

(* Friend rows come in pairs and nobody befriends himself, for any users,  *)
(* any number of racing requests, and any faults.                          *)
THEOREM FriendshipsStayMutual == Spec => []FriendshipsMutual
<1>1. Init => FriendshipsMutual
  BY DEF Init, FriendshipsMutual, Unregistered
<1>2. TypeOK /\ StageOK /\ FriendshipsMutual /\ [Next]_vars => FriendshipsMutual'
  BY MutualStep
<1>3. QED BY <1>1, <1>2, InitType, TypeStep, PTL DEF Spec
-----------------------------------------------------------------------------
(* Readers that no commit has overtaken.                                   *)

LEMMA TruthIsLocal ==
  ASSUME NEW k \in Keys, NEW x,
         \A u \in Sources(k) : table'[u].friends = table[u].friends
  PROVE  Truthful(k, x)' <=> Truthful(k, x)
<1>1. \A l \in Limits : Answer(k, l, table') = Answer(k, l, table)
  BY AnswerIsLocal
<1>2. QED BY <1>1 DEF Truthful

(* The part of CleanOK that speaks of one request.                         *)
CleanAt(p) ==
  p \in clean =>
    /\ pc[p] \in {"readSecond", "fill"}
    /\ pc[p] = "readSecond" => buf[p] = table[call[p].u].friends
    /\ pc[p] = "fill" => Truthful(KeyOf(call[p]), buf[p])

(* What a request in progress needs of the store to stay overtaken by      *)
(* nobody: the rows it has read.                                           *)
LEMMA CleanKept ==
  ASSUME TypeOK, StageOK, CleanOK, NEW r \in Procs, r \in clean,
         pc'[r] = pc[r], call'[r] = call[r], buf'[r] = buf[r],
         \A u \in HasRead(r) \cap Users : table'[u].friends = table[u].friends
  PROVE  CleanAt(r)'
<1>1. pc[r] \in {"readSecond", "fill"} /\ call[r] \in Call
  BY DEF CleanOK, TypeOK
<1>2. CASE pc[r] = "readSecond"
  BY <1>1, <1>2 DEF CleanAt, CleanOK, HasRead, Call
<1>3. CASE pc[r] = "fill"
  <2>1. KeyOf(call[r]) \in Keys
    BY <1>1, <1>3, KeyOfInKeys DEF StageOK, TwoUsers
  <2>2. Sources(KeyOf(call[r])) \subseteq Users
    BY <2>1 DEF Keys, Sources
  <2>3. \A u \in Sources(KeyOf(call[r])) : table'[u].friends = table[u].friends
    BY <1>3, <2>2 DEF HasRead
  <2>4. Truthful(KeyOf(call[r]), buf[r])' <=> Truthful(KeyOf(call[r]), buf[r])
    <3>1. Truthful(KeyOf(call[r]), buf[r])
      BY <1>3 DEF CleanOK
    <3>2. \A l \in Limits :
            Answer(KeyOf(call[r]), l, table') = Answer(KeyOf(call[r]), l, table)
      BY <2>1, <2>3, AnswerIsLocal
    <3>3. QED BY <3>1, <3>2 DEF Truthful
  <2>5. QED BY <1>1, <1>3, <2>4 DEF CleanAt, CleanOK
<1>4. QED BY <1>1, <1>2, <1>3

(* After its query, a reader that saw the current rows is clean.           *)
LEMMA ReadIsClean ==
  ASSUME TypeOK, StageOK, CleanOK, NEW p \in Procs, Read(p)
  PROVE  CleanAt(p)'
<1>1. p \notin clean
  BY DEF Read, CleanOK
<1>2. PICK part \in Copies(call[p].u) :
        /\ \/ /\ call[p].op = "GetMutualFriends"
              /\ buf' = [buf EXCEPT ![p] = part.friends]
              /\ Goto(p, "readSecond")
           \/ /\ call[p].op # "GetMutualFriends"
              /\ buf' = [buf EXCEPT ![p] =
                   Answer(KeyOf(call[p]), call[p].limit, [table EXCEPT ![call[p].u] = part])]
              /\ Goto(p, "fill")
        /\ clean' = IF part.friends = table[call[p].u].friends THEN clean \cup {p} ELSE clean
  BY DEF Read
<1>3. call[p] \in Call /\ UNCHANGED <<table, call>> /\ call[p].op \in Readers
  BY DEF Read, TypeOK, StageOK, store
<1>4. call[p].u \in Users /\ call[p].limit \in Limits
  BY <1>3 DEF Call
<1>5. CASE part.friends # table[call[p].u].friends
  BY <1>1, <1>2, <1>5 DEF CleanAt
<1>6. CASE part.friends = table[call[p].u].friends /\ call[p].op = "GetMutualFriends"
  BY <1>2, <1>3, <1>6 DEF CleanAt, Goto, TypeOK
<1>7. CASE part.friends = table[call[p].u].friends /\ call[p].op # "GetMutualFriends"
  <2> DEFINE k == KeyOf(call[p])
             t == [table EXCEPT ![call[p].u] = part]
  <2>1. k \in Keys
    BY <1>3, <1>7, KeyOfInKeys
  <2>2. Sources(k) \subseteq Users
    BY <2>1 DEF Keys, Sources
  <2>3. \A u \in Sources(k) : t[u].friends = table[u].friends
    BY <1>4, <1>7, <2>2 DEF TypeOK
  <2> HIDE DEF k, t
  <2>4. Answer(k, call[p].limit, t) = Answer(k, call[p].limit, table)
    BY <2>1, <2>3, AnswerIsLocal
  <2> USE DEF k, t
  <2>5. buf'[p] = Answer(k, call[p].limit, table) /\ pc'[p] = "fill"
    BY <1>2, <1>7, <2>4 DEF Goto, TypeOK
  <2>6. QED BY <1>3, <1>4, <2>5 DEF CleanAt, Truthful
<1>8. QED BY <1>5, <1>6, <1>7

(* So it is after its second query.                                        *)
LEMMA ReadSecondIsClean ==
  ASSUME TypeOK, StageOK, CleanOK, NEW p \in Procs, ReadSecond(p)
  PROVE  CleanAt(p)'
<1>1. PICK part \in Copies(call[p].v) :
        /\ buf' = [buf EXCEPT ![p] = buf[p] \cap part.friends]
        /\ clean' = IF part.friends = table[call[p].v].friends THEN clean ELSE clean \ {p}
  BY DEF ReadSecond
<1>2. /\ call[p] \in Call /\ call[p].op = "GetMutualFriends" /\ pc'[p] = "fill"
      /\ UNCHANGED <<table, call>> /\ pc[p] = "readSecond"
  BY DEF ReadSecond, TypeOK, StageOK, store, Goto
<1>3. SUFFICES ASSUME p \in clean, part.friends = table[call[p].v].friends
               PROVE  Truthful(KeyOf(call[p]), buf'[p])
  BY <1>1, <1>2 DEF CleanAt, Truthful
<1>4. buf'[p] = table[call[p].u].friends \cap table[call[p].v].friends
  BY <1>1, <1>2, <1>3 DEF CleanOK, TypeOK
<1>5. \A l : Answer(KeyOf(call[p]), l, table) =
              table[call[p].u].friends \cap table[call[p].v].friends
  BY <1>2 DEF KeyOf, MutualKey, Answer
<1>6. QED BY <1>4, <1>5, LimitsAssumption DEF Truthful
(* A request's step leaves the other requests alone.                       *)
LEMMA OthersUntouched ==
  ASSUME TypeOK, NEW p \in Procs, Begin(p) \/ Step(p), NEW r \in Procs \ {p}
  PROVE  /\ pc'[r] = pc[r] /\ call'[r] = call[r] /\ buf'[r] = buf[r]
         /\ pos'[r] = pos[r] /\ found'[r] = found[r]
  BY DEF TypeOK, Goto, NextSweep, Step, Begin, Return, ValidateFirst, ValidateSecond,
         Check, Commit, CommitUnanswered, DeleteKey, ScanPattern, DeleteFound,
         DeletionFails, Publish, Lookup, Read, ReadSecond, Fill, StoreFails

(* A commit takes the readers of its rows out of clean.                    *)
LEMMA CommitOvertakes ==
  ASSUME TypeOK, NEW p \in Procs, Begin(p) \/ Step(p),
         NEW r \in Procs \ {p}, r \in clean', NEW u \in HasRead(r) \cap Users
  PROVE  r \in clean /\ table'[u].friends = table[u].friends
<1>1. \/ /\ WriteRows(p)
         /\ Commit(p) \/ CommitUnanswered(p)
      \/ UNCHANGED table /\ clean' \subseteq clean \cup {p}
  BY DEF store, Step, Begin, Return, ValidateFirst, ValidateSecond, Check, Commit,
         CommitUnanswered, DeleteKey, ScanPattern, DeleteFound, DeletionFails, Publish,
         Lookup, Read, ReadSecond, Fill, StoreFails
<1>2. CASE WriteRows(p)
  <2>1. table' = Written(call[p]) /\ r \in clean /\ u \notin {call[p].u, call[p].v}
    BY <1>2 DEF WriteRows
  <2>2. QED BY <2>1 DEF Written
<1>3. QED BY <1>1, <1>2

(* Every step keeps what clean readers hold in agreement with the store.   *)
LEMMA CleanStep ==
  ASSUME TypeOK, StageOK, CleanOK, [Next]_vars
  PROVE  CleanOK'
<1>1. SUFFICES \A r \in Procs : CleanAt(r)'
  BY TypeStep DEF CleanOK, CleanAt, TypeOK
<1>2. ASSUME NEW p \in Procs, Begin(p) \/ Step(p), NEW r \in Procs
      PROVE  CleanAt(r)'
  <2>1. CASE r # p
    <3>1. SUFFICES ASSUME r \in clean' PROVE CleanAt(r)'
      BY DEF CleanAt
    <3>2. /\ r \in clean
          /\ \A u \in HasRead(r) \cap Users : table'[u].friends = table[u].friends
      <4>1. \A u \in HasRead(r) \cap Users :
              r \in clean /\ table'[u].friends = table[u].friends
        BY <1>2, <2>1, <3>1, CommitOvertakes
      <4>2. r \in clean
        BY <1>2, <2>1, <3>1
        DEF Step, Begin, Return, ValidateFirst, ValidateSecond, Check, Commit,
            CommitUnanswered, WriteRows, DeleteKey, ScanPattern, DeleteFound,
            DeletionFails, Publish, Lookup, Read, ReadSecond, Fill, StoreFails
      <4>3. QED BY <4>1, <4>2
    <3>3. pc'[r] = pc[r] /\ call'[r] = call[r] /\ buf'[r] = buf[r]
      BY <1>2, <2>1, OthersUntouched
    <3>4. QED BY <3>2, <3>3, CleanKept
  <2>2. CASE r = p /\ Read(p)
    BY <2>2, ReadIsClean
  <2>3. CASE r = p /\ ReadSecond(p)
    BY <2>3, ReadSecondIsClean
  <2>4. CASE r = p /\ ~ Read(p) /\ ~ ReadSecond(p)
    <3>1. p \notin clean'
      BY <1>2, <2>4
      DEF CleanOK, Step, Begin, Return, ValidateFirst, ValidateSecond, Check, Commit,
          CommitUnanswered, WriteRows, DeleteKey, ScanPattern, DeleteFound,
          DeletionFails, Publish, Lookup, Fill, StoreFails, StoreStages
    <3>2. QED BY <2>4, <3>1 DEF CleanAt
  <2>5. QED BY <2>1, <2>2, <2>3, <2>4
<1>3. ASSUME NEW r \in Procs, UNCHANGED <<local, clean>>,
             \A u \in Users : table'[u].friends = table[u].friends
      PROVE  CleanAt(r)'
  <2>1. CASE r \in clean
    BY <1>3, <2>1, CleanKept DEF local
  <2>2. CASE r \notin clean
    BY <1>3, <2>2 DEF CleanAt
  <2>3. QED BY <2>1, <2>2
<1>4. CASE \/ \E k \in Keys : Expire(k)
           \/ \E u \in Users : Replicate(u) \/ CreateUser(u) \/ DeleteUser(u)
           \/ UNCHANGED vars
  <2>1. UNCHANGED <<local, clean>>
    BY <1>4 DEF Expire, Replicate, CreateUser, DeleteUser, SetProfile, vars, local
  <2>2. \A u \in Users : table'[u].friends = table[u].friends
    <3>1. ASSUME NEW u \in Users, NEW p \in Procs, pc[p] = "commit", Permitted(call[p]),
                 table' = Written(call[p]), u \in {call[p].u, call[p].v}
          PROVE  table'[u].friends = table[u].friends
      <4>1. \/ table' = table
            \/ \E w \in Users, b \in BOOLEAN : table' = [table EXCEPT ![w].profile = b]
        BY <1>4 DEF Expire, Replicate, CreateUser, DeleteUser, SetProfile, vars, store
      <4>2. QED BY <4>1 DEF TypeOK, Partition
    <3>2. QED BY <3>1, RowsChangeByCommit
  <2>3. QED BY <1>3, <2>1, <2>2
<1>5. CASE Crash
  BY <1>5 DEF Crash, CleanAt
<1>6. QED BY <1>2, <1>4, <1>5 DEF Next
-----------------------------------------------------------------------------
(* Stale entries are owed a deletion.                                      *)

Excused(k) == k \in excused \/ \E p \in Procs : Owes(p, k)

(* A writer that has taken a sweep step still owes the later ones.         *)
LEMMA SweepAdvances ==
  ASSUME TypeOK, NEW p \in Procs, NextSweep(p), call' = call,
         NEW k, NEW i \in (pos[p] + 1)..10, k \in Target(call[p], i)
  PROVE  Owes(p, k)'
<1>1. pos[p] \in 1..9 /\ pos'[p] = pos[p] + 1 /\ pc'[p] = "sweep"
  BY DEF NextSweep, Goto, TypeOK
<1>2. i \in pos'[p]..10 /\ k \in Target(call'[p], i)
  BY <1>1
<1>3. QED BY <1>1, <1>2 DEF Owes

(* What the others owe, they still owe.                                    *)
LEMMA OthersStillOwe ==
  ASSUME TypeOK, NEW p \in Procs, Begin(p) \/ Step(p),
         NEW k, NEW r \in Procs \ {p}, Owes(r, k)
  PROVE  Owes(r, k)'
  BY OthersUntouched DEF Owes

(* A step that is no deletion step of a writer leaves its debts alone.     *)
LEMMA ExcuseKept ==
  ASSUME TypeOK, NEW p \in Procs, Begin(p) \/ Step(p), NEW k,
         pc[p] \notin {"sweep", "delete"}, Excused(k), k \in excused => k \in excused'
  PROVE  Excused(k)'
<1>1. CASE k \in excused
  BY <1>1 DEF Excused
<1>2. CASE \E r \in Procs : Owes(r, k)
  <2>1. PICK r \in Procs : Owes(r, k)
    BY <1>2
  <2>2. r # p
    BY <2>1 DEF Owes
  <2>3. QED BY <2>1, <2>2, OthersStillOwe DEF Excused
<1>3. QED BY <1>1, <1>2 DEF Excused

(* A deletion step leaves its key deleted, or marked, or still owed.       *)
LEMMA SweepStep ==
  ASSUME TypeOK, NEW p \in Procs,
         DeleteKey(p) \/ ScanPattern(p) \/ DeleteFound(p) \/ DeletionFails(p),
         NEW k \in Keys, Excused(k), Cached' \subseteq Cached, k \in Cached'
  PROVE  Excused(k)'
<1>1. Step(p) /\ call' = call
  BY DEF Step, DeleteKey, ScanPattern, DeleteFound, DeletionFails
<1>2. CASE k \in excused
  BY <1>2 DEF Excused, DeleteKey, ScanPattern, DeleteFound, DeletionFails, Drop, Cached
<1>3. CASE \E r \in Procs \ {p} : Owes(r, k)
  BY <1>1, <1>3, OthersStillOwe DEF Excused
<1>4. CASE Owes(p, k)
  <2>1. CASE DeleteKey(p)
    <3>1. k \notin Target(call[p], pos[p])
      BY <2>1 DEF DeleteKey, Drop, Cached
    <3>2. PICK i \in pos[p]..10 : k \in Target(call[p], i)
      BY <1>4, <2>1 DEF Owes, DeleteKey
    <3>3. i \in (pos[p] + 1)..10
      BY <3>1, <3>2 DEF TypeOK
    <3>4. QED BY <1>1, <2>1, <3>2, <3>3, SweepAdvances DEF Excused, DeleteKey
  <2>2. CASE ScanPattern(p)
    <3>1. PICK i \in pos[p]..10 : k \in Target(call[p], i)
      BY <1>4, <2>2 DEF Owes, ScanPattern
    <3>2. CASE Target(call[p], pos[p]) \cap Cached = {}
      <4>1. i \in (pos[p] + 1)..10
        BY <3>1, <3>2 DEF TypeOK
      <4>2. QED BY <1>1, <2>2, <3>1, <3>2, <4>1, SweepAdvances DEF Excused, ScanPattern
    <3>3. CASE Target(call[p], pos[p]) \cap Cached # {}
      <4>1. /\ pc'[p] = "delete" /\ pos' = pos
            /\ found'[p] = Target(call[p], pos[p]) \cap Cached
        BY <2>2, <3>3 DEF ScanPattern, Goto, TypeOK
      <4>2. k \in found'[p] \/ i \in (pos[p] + 1)..10
        BY <3>1, <4>1 DEF TypeOK
      <4>3. Owes(p, k)'
        BY <1>1, <3>1, <4>1, <4>2 DEF Owes
      <4>4. QED BY <4>3 DEF Excused
    <3>4. QED BY <3>2, <3>3
  <2>3. CASE DeleteFound(p)
    <3>1. k \notin found[p]
      BY <2>3 DEF DeleteFound, Drop, Cached
    <3>2. PICK i \in (pos[p] + 1)..10 : k \in Target(call[p], i)
      BY <1>4, <2>3, <3>1 DEF Owes, DeleteFound
    <3>3. QED BY <1>1, <2>3, <3>2, SweepAdvances DEF Excused, DeleteFound
  <2>4. CASE DeletionFails(p)
    <3>1. CASE k \in (IF pc[p] = "delete" THEN found[p] ELSE Target(call[p], pos[p]))
      BY <2>4, <3>1 DEF DeletionFails, Excused
    <3>2. CASE k \notin (IF pc[p] = "delete" THEN found[p] ELSE Target(call[p], pos[p]))
      <4>1. PICK i \in (pos[p] + 1)..10 : k \in Target(call[p], i)
        BY <1>4, <3>2 DEF Owes, TypeOK
      <4>2. QED BY <1>1, <2>4, <4>1, SweepAdvances DEF Excused, DeletionFails
    <3>3. QED BY <3>1, <3>2
  <2>5. QED BY <2>1, <2>2, <2>3, <2>4
<1>5. QED BY <1>2, <1>3, <1>4 DEF Excused
(* An entry that a step leaves in place and whose rows it leaves alone was *)
(* stale before.                                                           *)
LEMMA WasStale ==
  ASSUME NEW k \in Keys, Stale(k)', cache'[k] = cache[k],
         \A u \in Sources(k) : table'[u].friends = table[u].friends
  PROVE  Stale(k)
  BY TruthIsLocal DEF Stale

(* Every step keeps each stale entry excused or owed a deletion.           *)
LEMMA StaleStep ==
  ASSUME TypeOK, StageOK, CleanOK, StaleIsOwed, [Next]_vars
  PROVE  StaleIsOwed'
<1> SUFFICES ASSUME NEW k \in Keys, Stale(k)'
             PROVE  Excused(k)'
  BY DEF StaleIsOwed, Excused
<1> DEFINE Quiet == \A u \in Sources(k) : table'[u].friends = table[u].friends
<1>1. Sources(k) \subseteq Users /\ k \in Cached'
  BY DEF Keys, Sources, Stale, Cached
<1>2. ASSUME Quiet, cache'[k] = cache[k]
      PROVE  Stale(k) /\ k \in Cached /\ Excused(k)
  BY <1>2, WasStale DEF StaleIsOwed, Excused, Stale, Cached
<1>3. ASSUME NEW p \in Procs, Commit(p) \/ CommitUnanswered(p)
      PROVE  Excused(k)'
  <2>1. pc[p] = "commit" /\ UNCHANGED cache /\ Step(p) /\ excused \subseteq excused'
    BY <1>3 DEF Commit, CommitUnanswered, Step
  <2>2. CASE Quiet
    BY <1>2, <2>1, <2>2, ExcuseKept
  <2>3. CASE ~ Quiet
    <3>1. WriteRows(p)
      BY <1>3, <2>3 DEF Commit, CommitUnanswered, store
    <3>2. Sources(k) \cap {call[p].u, call[p].v} # {}
      BY <1>1, <2>3, <3>1 DEF WriteRows, Written
    <3>3. CASE Commit(p)
      <4>1. pc'[p] = "sweep" /\ pos'[p] = 1 /\ call' = call
        BY <2>1, <2>3, <3>3 DEF Commit, Goto, TypeOK, store
      <4>2. \E i \in 1..10 : k \in Target(call[p], i)
        BY <3>2, SweepReachesSources
      <4>3. Owes(p, k)'
        BY <4>1, <4>2 DEF Owes
      <4>4. QED BY <4>3 DEF Excused
    <3>4. CASE CommitUnanswered(p)
      <4>1. k \in Cached
        BY <1>1, <2>1 DEF Cached
      <4>2. QED BY <3>2, <3>4, <4>1 DEF CommitUnanswered, Excused
    <3>5. QED BY <1>3, <3>3, <3>4
  <2>4. QED BY <2>2, <2>3
<1>4. ASSUME NEW p \in Procs,
             DeleteKey(p) \/ ScanPattern(p) \/ DeleteFound(p) \/ DeletionFails(p)
      PROVE  Excused(k)'
  <2>1. UNCHANGED table
    BY <1>4 DEF DeleteKey, ScanPattern, DeleteFound, DeletionFails, store
  <2>2. cache'[k] = cache[k] /\ Cached' \subseteq Cached
    BY <1>1, <1>4 DEF DeleteKey, ScanPattern, DeleteFound, DeletionFails, Drop, Cached
  <2>3. QED BY <1>1, <1>2, <1>4, <2>1, <2>2, SweepStep
<1>5. ASSUME NEW p \in Procs, Fill(p)
      PROVE  Excused(k)'
  <2>1. UNCHANGED table /\ pc[p] = "fill" /\ Step(p) /\ call' = call
    BY <1>5 DEF Fill, store, Step
  <2>2. CASE cache'[k] = cache[k] /\ (k \in excused => k \in excused')
    BY <1>2, <2>1, <2>2, ExcuseKept
  <2>3. CASE ~ (cache'[k] = cache[k] /\ (k \in excused => k \in excused'))
    <3>1. /\ k = KeyOf(call[p]) /\ cache'[k] = buf[p]
          /\ excused' = IF p \in clean THEN excused \ {k} ELSE excused \cup {k}
      BY <1>5, <2>3 DEF Fill, TypeOK
    <3>2. p \notin clean
      <4>1. ASSUME p \in clean
            PROVE  \E l \in Limits : cache'[k] = Answer(k, l, table')
        <5>1. Truthful(k, buf[p])
          BY <2>1, <3>1, <4>1 DEF CleanOK
        <5>2. \E l \in Limits : buf[p] = Answer(k, l, table')
          BY <2>1, <5>1 DEF Truthful
        <5>3. QED BY <3>1, <5>2
      <4>2. QED BY <4>1 DEF Stale, Truthful
    <3>3. QED BY <3>1, <3>2 DEF Excused
  <2>4. QED BY <2>2, <2>3
<1>6. ASSUME NEW p \in Procs,
             \/ Begin(p) \/ Return(p) \/ ValidateFirst(p) \/ ValidateSecond(p)
             \/ Check(p) \/ Publish(p) \/ Lookup(p) \/ Read(p) \/ ReadSecond(p)
             \/ StoreFails(p)
      PROVE  Excused(k)'
  <2>1. /\ Begin(p) \/ Step(p)
        /\ UNCHANGED <<table, cache, excused>> /\ pc[p] \notin {"sweep", "delete"}
    BY <1>6
    DEF Step, Begin, Return, ValidateFirst, ValidateSecond, Check, Publish, Lookup,
        Read, ReadSecond, StoreFails, StoreStages, store
  <2>2. QED BY <1>2, <2>1, ExcuseKept
<1>7. CASE Crash
  <2>1. UNCHANGED <<table, cache>>
    BY <1>7 DEF Crash, store
  <2>2. k \in Cached /\ Excused(k)
    BY <1>2, <2>1
  <2>3. QED BY <1>7, <2>2 DEF Crash, Excused
<1>8. ASSUME UNCHANGED local, Quiet,
             (cache' = cache /\ excused' = excused) \/ \E j \in Keys : Drop({j})
      PROVE  Excused(k)'
  <2>1. cache'[k] = cache[k] /\ (k \in excused => k \in excused')
    BY <1>1, <1>8 DEF Drop, Cached
  <2>2. Excused(k)
    BY <1>2, <1>8, <2>1
  <2>3. \A p \in Procs : Owes(p, k)' <=> Owes(p, k)
    BY <1>8 DEF Owes, local
  <2>4. QED BY <2>1, <2>2, <2>3 DEF Excused
<1>9. CASE \/ \E j \in Keys : Expire(j)
           \/ \E u \in Users : Replicate(u) \/ CreateUser(u) \/ DeleteUser(u)
           \/ UNCHANGED vars
  <2>1. /\ UNCHANGED local
        /\ (cache' = cache /\ excused' = excused) \/ \E j \in Keys : Drop({j})
    BY <1>9 DEF Expire, Replicate, CreateUser, DeleteUser, SetProfile, vars, local
  <2>2. \/ table' = table
        \/ \E w \in Users, b \in BOOLEAN : table' = [table EXCEPT ![w].profile = b]
    BY <1>9 DEF Expire, Replicate, CreateUser, DeleteUser, SetProfile, vars, store
  <2>3. Quiet
    BY <1>1, <2>2 DEF TypeOK, Partition
  <2>4. QED BY <1>8, <2>1, <2>3
<1>10. QED BY <1>3, <1>4, <1>5, <1>6, <1>7, <1>9 DEF Next, Step

(* The inductive invariant holds in every reachable state.                 *)
LEMMA InductiveInvariant == Spec => []IInv
<1>1. Init => IInv
  <2>1. Init => FriendshipsMutual /\ CleanOK /\ StaleIsOwed
    BY DEF Init, FriendshipsMutual, Unregistered, CleanOK, StaleIsOwed, Stale
  <2>2. QED BY <2>1, InitType DEF IInv
<1>2. IInv /\ [Next]_vars => IInv'
  BY TypeStep, MutualStep, CleanStep, StaleStep DEF IInv
<1>3. QED BY <1>1, <1>2, PTL DEF Spec

(* A cache entry that contradicts the store is still to be deleted by a    *)
(* writer, or was filled by a reader that a commit overtook, or missed its *)
(* deletion: for any users, requests, operations and faults.               *)
THEOREM StaleEntriesAreOwed == Spec => []StaleIsOwed
<1>1. IInv => StaleIsOwed
  BY DEF IInv
<1>2. QED BY <1>1, InductiveInvariant, PTL

-----------------------------------------------------------------------------
(* What else holds of requests at rest and of copies.                      *)

(* A request that is not running asks for nothing; without lag, what reads *)
(* see is the table.                                                       *)
RestOK ==
  /\ \A p \in Procs : pc[p] = "idle" => call[p] = NoCall
  /\ "lag" \notin Faults => replica = table

RInv == IInv /\ RestOK

(* The requests and the copies start so, and every step keeps it.          *)
LEMMA RestInvariant == Spec => []RInv
<1>1. Init => RestOK
  BY DEF Init, RestOK
<1>2. ASSUME TypeOK, RestOK, [Next]_vars
      PROVE  RestOK'
  <2>1. ASSUME NEW p \in Procs, Begin(p)
        PROVE  RestOK'
    BY <1>2, <2>1 DEF RestOK, TypeOK, Begin, Goto, FirstStage, store
  <2>2. ASSUME NEW p \in Procs, Return(p)
        PROVE  RestOK'
    BY <1>2, <2>2 DEF RestOK, TypeOK, Return, Goto, store
  <2>3. ASSUME NEW p \in Procs, NEW s, s # "idle", Goto(p, s), call' = call, pc[p] # "idle",
               UNCHANGED store \/ WriteRows(p)
        PROVE  RestOK'
    BY <1>2, <2>3 DEF RestOK, TypeOK, Goto, store, WriteRows
  <2>4. ASSUME NEW p \in Procs, Step(p), ~ Return(p)
        PROVE  RestOK'
    <3>1. UNCHANGED store \/ WriteRows(p)
      BY <2>4
      DEF Step, ValidateFirst, ValidateSecond, Check, Commit, CommitUnanswered, DeleteKey,
          ScanPattern, DeleteFound, DeletionFails, Publish, Lookup, Read, ReadSecond, Fill,
          StoreFails
    <3>2. call' = call /\ pc[p] # "idle"
      BY <2>4
      DEF Step, ValidateFirst, ValidateSecond, Check, Commit, CommitUnanswered, DeleteKey,
          ScanPattern, DeleteFound, DeletionFails, Publish, Lookup, Read, ReadSecond, Fill,
          StoreFails, StoreStages
    <3>3. \E s : s # "idle" /\ Goto(p, s)
      BY <2>4
      DEF Step, ValidateFirst, ValidateSecond, Validated, Check, Commit, CommitUnanswered,
          DeleteKey, ScanPattern, DeleteFound, DeletionFails, NextSweep, Publish, Lookup,
          Read, ReadSecond, Fill, StoreFails
    <3>4. QED BY <2>3, <3>1, <3>2, <3>3
  <2>5. CASE Crash
    BY <1>2, <2>5 DEF RestOK, Crash, store
  <2>6. ASSUME NEW u \in Users, Replicate(u)
        PROVE  RestOK'
    BY <1>2, <2>6 DEF RestOK, Replicate, local
  <2>7. ASSUME NEW u \in Users, CreateUser(u) \/ DeleteUser(u)
        PROVE  RestOK'
    BY <1>2, <2>7 DEF RestOK, CreateUser, DeleteUser, SetProfile, local
  <2>8. CASE UNCHANGED <<store, local>>
    BY <1>2, <2>8 DEF RestOK, store, local
  <2>9. QED
    BY <1>2, <2>1, <2>2, <2>4, <2>5, <2>6, <2>7, <2>8 DEF Next, Expire, vars, store, local, Step
<1>3. IInv => TypeOK
  BY DEF IInv
<1>4. QED BY <1>1, <1>2, <1>3, InductiveInvariant, PTL DEF Spec, RInv

-----------------------------------------------------------------------------
(* Requests that run one after the other, when nothing fails.              *)

(* Whoever has read is clean, and no key is excused.                       *)
UndisturbedOK ==
  /\ \A p \in Procs : pc[p] \in {"readSecond", "fill"} => p \in clean
  /\ excused = {}

(* With one request at a time and no fault, no step disturbs a reader or   *)
(* excuses a key.                                                          *)
LEMMA UndisturbedStep ==
  ASSUME Faults = {}, \A p, q \in Procs : p = q, RInv, UndisturbedOK, [Next]_vars
  PROVE  UndisturbedOK'
<1>1. TypeOK /\ StageOK /\ RestOK
  BY DEF RInv, IInv
<1>2. \A u \in Users : Copies(u) = {table[u]}
  BY <1>1 DEF RestOK, Copies
<1>3. ASSUME NEW p \in Procs, Read(p)
      PROVE  UndisturbedOK'
  <2>1. call[p].u \in Users
    BY <1>1, <1>3 DEF Read, TypeOK, Call
  <2>2. p \in clean' /\ excused' = excused
    BY <1>2, <1>3, <2>1 DEF Read
  <2>3. QED BY <2>2 DEF UndisturbedOK
<1>4. ASSUME NEW p \in Procs, ReadSecond(p)
      PROVE  UndisturbedOK'
  <2>1. call[p].v \in Users /\ p \in clean
    BY <1>1, <1>4 DEF ReadSecond, TypeOK, Call, UndisturbedOK
  <2>2. p \in clean' /\ excused' = excused
    BY <1>2, <1>4, <2>1 DEF ReadSecond
  <2>3. QED BY <2>2 DEF UndisturbedOK
<1>5. ASSUME NEW p \in Procs, Fill(p)
      PROVE  UndisturbedOK'
  <2>1. pc'[p] = "ok" /\ p \in clean /\ excused' \subseteq excused
    BY <1>1, <1>5 DEF Fill, Goto, TypeOK, UndisturbedOK
  <2>2. QED BY <2>1 DEF UndisturbedOK
<1>6. ASSUME NEW p \in Procs, Commit(p)
      PROVE  UndisturbedOK'
  <2>1. pc'[p] \in {"sweep", "failed"} /\ excused' = excused
    BY <1>1, <1>6 DEF Commit, Goto, TypeOK
  <2>2. QED BY <2>1 DEF UndisturbedOK
<1>7. ASSUME NEW p \in Procs,
             \/ Begin(p) \/ Return(p) \/ ValidateFirst(p) \/ ValidateSecond(p)
             \/ Check(p) \/ DeleteKey(p) \/ ScanPattern(p) \/ DeleteFound(p)
             \/ Publish(p) \/ Lookup(p)
      PROVE  UndisturbedOK'
  <2>1. excused' \subseteq excused
    BY <1>7
    DEF Begin, Return, ValidateFirst, ValidateSecond, Check, DeleteKey, ScanPattern,
        DeleteFound, Publish, Lookup, Drop
  <2>2. pc'[p] \notin {"readSecond", "fill"}
    BY <1>1, <1>7
    DEF Begin, FirstStage, Return, ValidateFirst, ValidateSecond, Validated, Check,
        DeleteKey, ScanPattern, DeleteFound, NextSweep, Publish, Lookup, Goto, TypeOK
  <2>3. QED BY <2>1, <2>2 DEF UndisturbedOK
<1>8. ASSUME UNCHANGED <<pc, clean>>, excused' \subseteq excused
      PROVE  UndisturbedOK'
  BY <1>8 DEF UndisturbedOK
<1>9. ASSUME \/ \E k \in Keys : Expire(k)
             \/ \E u \in Users : Replicate(u) \/ CreateUser(u) \/ DeleteUser(u)
             \/ UNCHANGED vars
      PROVE  UndisturbedOK'
  BY <1>8, <1>9
  DEF Expire, Drop, Replicate, CreateUser, DeleteUser, SetProfile, local, vars
<1>10. ~ Crash /\ \A p \in Procs : ~ (CommitUnanswered(p) \/ DeletionFails(p) \/ StoreFails(p))
  BY DEF Crash, CommitUnanswered, DeletionFails, StoreFails
<1>11. QED
  BY <1>3, <1>4, <1>5, <1>6, <1>7, <1>9, <1>10 DEF Next, Step

(* When requests run one after the other and nothing fails, no cache entry *)
(* contradicts the store between them: invalidateUserCache does delete     *)
(* "all cache entries related to a user" that a change makes wrong.        *)
THEOREM SequentialCacheIsFresh ==
  ASSUME Faults = {}, \A p, q \in Procs : p = q
  PROVE  Spec => []SettledCacheIsFresh
<1>1. Init => UndisturbedOK
  BY DEF Init, UndisturbedOK
<1>2. RInv /\ UndisturbedOK /\ [Next]_vars => UndisturbedOK'
  BY UndisturbedStep
<1>3. RInv /\ UndisturbedOK => SettledCacheIsFresh
  BY DEF RInv, IInv, StaleIsOwed, Owes, UndisturbedOK, SettledCacheIsFresh
<1>4. QED BY <1>1, <1>2, <1>3, RestInvariant, PTL DEF Spec

-----------------------------------------------------------------------------
(* The refinement: FriendService implements FriendGraph, for any users,    *)
(* requests and faults.  A request to write takes effect at its            *)
(* transaction, and what the other steps do cannot be seen in the graph.   *)

(* Two users are an edge exactly when one has a row for the other.         *)
LEMMA EdgeIsRow ==
  ASSUME FriendshipsMutual, NEW u \in Users, NEW v \in Users
  PROVE  {u, v} \in Edges <=> v \in table[u].friends
<1>1. ASSUME {u, v} \in Edges
      PROVE  v \in table[u].friends
  <2>1. PICK x \in Users, y \in Users : {u, v} = {x, y} /\ y \in table[x].friends
    BY <1>1 DEF Edges
  <2>2. x # y /\ x \in table[y].friends
    BY <2>1 DEF FriendshipsMutual
  <2>3. (u = x /\ v = y) \/ (u = y /\ v = x)
    BY <2>1, <2>2
  <2>4. QED BY <2>1, <2>2, <2>3
<1>2. ASSUME v \in table[u].friends
      PROVE  {u, v} \in Edges
  BY <1>2 DEF Edges
<1>3. QED BY <1>1, <1>2

(* When no friend row changes, no edge does.                               *)
LEMMA SameRowsSameEdges ==
  ASSUME \A u \in Users : table'[u].friends = table[u].friends
  PROVE  Edges' = Edges
  BY DEF Edges

(* A permitted transaction is legal in the graph, and is the graph's       *)
(* effect.                                                                 *)
LEMMA TransactionIsEffect ==
  ASSUME RInv, NEW p \in Procs, call[p] \in Call, call[p].op \in Writers,
         Permitted(call[p]), call[p].op = "AddFriend" => call[p].u # call[p].v,
         table' = Written(call[p])
  PROVE  /\ Graph!Legal(Asked(p))
         /\ Graph!Effect(Asked(p))
         /\ Members' = Members
<1> DEFINE u == call[p].u
           v == call[p].v
<1>1. u \in Users /\ v \in Users /\ FriendshipsMutual /\ TypeOK
  BY DEF Call, RInv, IInv
<1>2. u # v
  BY <1>1 DEF Permitted, FriendshipsMutual, Writers
<1>4. /\ Asked(p).op = call[p].op /\ Asked(p).u = u /\ Asked(p).v = v
  BY DEF Asked
<1>5. Graph!Edge(Asked(p)) = {u, v}
  BY <1>4 DEF Graph!Edge
<1>6. {u, v} \in Edges <=> v \in table[u].friends
  BY <1>1, EdgeIsRow
<1>7. Graph!Legal(Asked(p))
  BY <1>2, <1>4, <1>5, <1>6 DEF Graph!Legal, Permitted, Writers
<1>8. /\ \A x \in Users \ {u, v} : table'[x].friends = table[x].friends
      /\ call[p].op = "AddFriend" =>
           /\ table'[u].friends = table[u].friends \cup {v}
           /\ table'[v].friends = table[v].friends \cup {u}
      /\ call[p].op # "AddFriend" =>
           /\ table'[u].friends = table[u].friends \ {v}
           /\ table'[v].friends = table[v].friends \ {u}
  BY <1>1, <1>2, WrittenFriends
<1>9. Edges' = IF call[p].op = "AddFriend" THEN Edges \cup {{u, v}} ELSE Edges \ {{u, v}}
  <2>1. ASSUME NEW x \in Users, NEW y \in Users
        PROVE  y \in table'[x].friends <=>
                 IF call[p].op = "AddFriend"
                 THEN y \in table[x].friends \/ {x, y} = {u, v}
                 ELSE y \in table[x].friends /\ {x, y} # {u, v}
    <3> HIDE DEF u, v
    <3>1. x \notin table[x].friends
      BY <1>1 DEF FriendshipsMutual
    <3>2. {x, y} = {u, v} <=> (x = u /\ y = v) \/ (x = v /\ y = u)
      OBVIOUS
    <3>3. CASE x \notin {u, v}
      BY <1>8, <3>2, <3>3
    <3>4. CASE x = u
      BY <1>2, <1>8, <3>1, <3>2, <3>4
    <3>5. CASE x = v
      BY <1>2, <1>8, <3>1, <3>2, <3>5
    <3>6. QED BY <3>3, <3>4, <3>5
  <2>2. \A e : e \in Edges' <=>
          e \in SUBSET Users /\ \E x, y \in Users : e = {x, y} /\ y \in table'[x].friends
    BY DEF Edges
  <2>3. \A e : e \in Edges <=>
          e \in SUBSET Users /\ \E x, y \in Users : e = {x, y} /\ y \in table[x].friends
    BY DEF Edges
  <2>4. CASE call[p].op = "AddFriend"
    <3>1. \A x, y \in Users :
            y \in table'[x].friends <=> y \in table[x].friends \/ {x, y} = {u, v}
      BY <2>1, <2>4
    <3>2. {u, v} \in SUBSET Users
      BY <1>1
    <3>3. \A e : e \in Edges' <=> e \in Edges \/ e = {u, v}
      <4> HIDE DEF u, v
      <4>1. ASSUME NEW e, e \in Edges'
            PROVE  e \in Edges \/ e = {u, v}
        BY <4>1, <3>1, <2>2, <2>3
      <4>2. ASSUME NEW e, e \in Edges
            PROVE  e \in Edges'
        BY <4>2, <3>1, <2>2, <2>3
      <4>3. {u, v} \in Edges'
        BY <1>1, <3>1, <3>2, <2>2
      <4>4. QED BY <4>1, <4>2, <4>3
    <3>4. QED BY <2>4, <3>3
  <2>5. CASE call[p].op # "AddFriend"
    <3>1. \A x, y \in Users :
            y \in table'[x].friends <=> y \in table[x].friends /\ {x, y} # {u, v}
      BY <2>1, <2>5
    <3>2. \A e : e \in Edges' <=> e \in Edges /\ e # {u, v}
      <4> HIDE DEF u, v
      <4>1. ASSUME NEW e, e \in Edges'
            PROVE  e \in Edges /\ e # {u, v}
        <5>1. PICK x \in Users, y \in Users : e = {x, y} /\ y \in table'[x].friends
          BY <4>1, <2>2
        <5>2. y \in table[x].friends /\ e # {u, v}
          BY <5>1, <3>1
        <5>3. QED BY <4>1, <5>1, <5>2, <2>2, <2>3
      <4>2. ASSUME NEW e, e \in Edges, e # {u, v}
            PROVE  e \in Edges'
        <5>1. PICK x \in Users, y \in Users : e = {x, y} /\ y \in table[x].friends
          BY <4>2, <2>3
        <5>2. y \in table'[x].friends
          BY <4>2, <5>1, <3>1
        <5>3. QED BY <4>2, <5>1, <5>2, <2>2, <2>3
      <4>3. QED BY <4>1, <4>2
    <3>3. QED BY <2>5, <3>2
  <2>6. QED BY <2>4, <2>5
<1>10. Graph!Effect(Asked(p))
  BY <1>4, <1>5, <1>9 DEF Graph!Effect
<1>11. Members' = Members
  BY <1>1 DEF Members, Written, TypeOK, Partition
<1>12. QED BY <1>7, <1>10, <1>11

-----------------------------------------------------------------------------
(* Steps.                                                                  *)

(* What a step that leaves the friendships, the calls and the outcomes     *)
(* alone looks like: nothing.                                              *)
LEMMA HiddenStep ==
  ASSUME TypeOK, NEW p \in Procs, NEW s, Goto(p, s), UNCHANGED <<table, call>>,
         Told(p)' = Told(p)
  PROVE  UNCHANGED Graph!vars
<1>1. Edges' = Edges /\ Members' = Members
  BY DEF Edges, Members
<1>2. \A q \in Procs : Asked(q)' = Asked(q)
  BY DEF Asked
<1>3. \A q \in Procs : Told(q)' = Told(q)
  BY DEF Told, Goto, TypeOK
<1>4. [q \in Procs |-> Asked(q)]' = [q \in Procs |-> Asked(q)]
  BY <1>2
<1>5. [q \in Procs |-> Told(q)]' = [q \in Procs |-> Told(q)]
  BY <1>3
<1>6. QED BY <1>1, <1>4, <1>5 DEF Graph!vars

(* A request to write that fails before its transaction is refused.        *)
LEMMA FailureIsRefusal ==
  ASSUME TypeOK, NEW p \in Procs, Goto(p, "failed"), UNCHANGED <<table, call>>,
         call[p].op \in Writers, pc[p] \in {"validateFirst", "validateSecond", "check", "commit"},
         Graph!Refusable(Asked(p))
  PROVE  Graph!Refuse(p)
<1>1. Edges' = Edges /\ Members' = Members
  BY DEF Edges, Members
<1>2. \A q \in Procs : Asked(q)' = Asked(q)
  BY DEF Asked
<1>3. [q \in Procs |-> Told(q)]' = [[q \in Procs |-> Told(q)] EXCEPT ![p] = "failed"]
  <2>1. Told(p)' = "failed"
    BY DEF Told, Goto, TypeOK
  <2>2. \A q \in Procs \ {p} : Told(q)' = Told(q)
    BY DEF Told, Goto, TypeOK
  <2>3. QED BY <2>1, <2>2
<1>4. Graph!Waiting(p)
  BY DEF Graph!Waiting, Graph!NoRequest, Asked, Told, Writers
<1>5. QED BY <1>1, <1>2, <1>3, <1>4 DEF Graph!Refuse

(* What the conditions of a transaction refuse, the graph refuses.         *)
LEMMA IllegalWhenNotPermitted ==
  ASSUME RInv, NEW p \in Procs, pc[p] = "commit", ~ Permitted(call[p])
  PROVE  Graph!Refusable(Asked(p))
<1>1. TypeOK /\ StageOK /\ FriendshipsMutual
  BY DEF RInv, IInv
<1>2. call[p].op \in Writers /\ call[p].u \in Users /\ call[p].v \in Users
  BY <1>1 DEF TypeOK, StageOK, Call
<1>3. /\ Asked(p).op = call[p].op
      /\ Graph!Edge(Asked(p)) = {call[p].u, call[p].v}
  BY <1>2 DEF Asked, Graph!Edge
<1>4. /\ {call[p].u, call[p].v} \in Edges <=> call[p].v \in table[call[p].u].friends
      /\ call[p].v \in table[call[p].u].friends <=> call[p].u \in table[call[p].v].friends
  BY <1>1, <1>2, EdgeIsRow DEF FriendshipsMutual
<1>5. ~ Graph!Legal(Asked(p))
  BY <1>2, <1>3, <1>4 DEF Permitted, Graph!Legal, Writers
<1>6. QED BY <1>5 DEF Graph!Refusable

(* A permitted transaction is accepted, or lost when its answer is.        *)
LEMMA CommitIsAcceptOrLose ==
  ASSUME RInv, NEW p \in Procs, pc[p] = "commit", Permitted(call[p]), WriteRows(p),
         call' = call,
         \/ Goto(p, "sweep")
         \/ Goto(p, "failed") /\ Faults \cap {"store", "crash"} # {}
  PROVE  Graph!Accept(p) \/ Graph!Lose(p)
<1>1. TypeOK /\ StageOK
  BY DEF RInv, IInv
<1>2. call[p] \in Call /\ call[p].op \in Writers
  BY <1>1 DEF TypeOK, StageOK
<1>3. call[p].op = "AddFriend" => call[p].u # call[p].v
  BY <1>1, <1>2 DEF StageOK, TwoUsers
<1>4. Graph!Legal(Asked(p)) /\ Graph!Effect(Asked(p)) /\ Members' = Members
  BY <1>2, <1>3, TransactionIsEffect DEF WriteRows
<1>5. \A q \in Procs : Asked(q)' = Asked(q)
  BY DEF Asked
<1>6. Graph!Waiting(p)
  BY <1>2 DEF Graph!Waiting, Graph!NoRequest, Asked, Told, Writers
<1>7. \A q \in Procs \ {p} : Told(q)' = Told(q)
  BY <1>1 DEF Told, Goto, TypeOK
<1>8. CASE Goto(p, "sweep")
  <2>1. Told(p)' = "ok"
    BY <1>1, <1>2, <1>8 DEF Told, Goto, TypeOK
  <2>2. [q \in Procs |-> Told(q)]' = [[q \in Procs |-> Told(q)] EXCEPT ![p] = "ok"]
    BY <1>7, <2>1
  <2>3. QED BY <1>4, <1>5, <1>6, <2>2 DEF Graph!Accept
<1>9. CASE Goto(p, "failed") /\ Faults \cap {"store", "crash"} # {}
  <2>1. Told(p)' = "failed"
    BY <1>1, <1>2, <1>9 DEF Told, Goto, TypeOK
  <2>2. [q \in Procs |-> Told(q)]' = [[q \in Procs |-> Told(q)] EXCEPT ![p] = "failed"]
    BY <1>7, <2>1
  <2>3. QED BY <1>4, <1>5, <1>6, <1>9, <2>2 DEF Graph!Lose
<1>10. QED BY <1>8, <1>9

(* A request to write is called and answered in the graph too; a request   *)
(* to read is not seen.                                                    *)
LEMMA CallAndReply ==
  ASSUME RInv, NEW p \in Procs, Begin(p) \/ Return(p)
  PROVE  Graph!Next \/ UNCHANGED Graph!vars
<1>1. TypeOK /\ RestOK
  BY DEF RInv, IInv
<1>2. Edges' = Edges /\ Members' = Members
  BY DEF Begin, Return, store, Edges, Members
<1>3. \A q \in Procs \ {p} : Asked(q)' = Asked(q) /\ Told(q)' = Told(q)
  BY <1>1 DEF Begin, Return, Goto, TypeOK, Asked, Told
<1>4. ASSUME Asked(p)' = Asked(p), Told(p)' = Told(p)
      PROVE  UNCHANGED Graph!vars
  BY <1>2, <1>3, <1>4 DEF Graph!vars
<1>5. CASE Begin(p)
  <2>1. PICK o \in Ops \cap (Writers \cup Readers), a \in Args, l \in Limits :
          LET c == [op |-> o, u |-> a[1], v |-> a[2], limit |-> l]
          IN  call' = [call EXCEPT ![p] = c] /\ Goto(p, FirstStage(c))
    BY <1>5 DEF Begin
  <2> DEFINE c == [op |-> o, u |-> a[1], v |-> a[2], limit |-> l]
  <2>2. c.u \in Users /\ c.v \in Users
    BY ArgsAssumption
  <2>3. call[p] = NoCall /\ pc[p] = "idle"
    BY <1>1, <1>5 DEF RestOK, Begin
  <2>4. FirstStage(c) \in {"check", "lookup", "validateFirst"}
    BY DEF FirstStage
  <2>5. call'[p] = c /\ pc'[p] = FirstStage(c)
    BY <1>1, <2>1 DEF Goto, TypeOK
  <2>6. Asked(p) = Graph!NoRequest /\ Told(p) = "none"
    BY <2>3 DEF Asked, Told, NoCall, Writers, Graph!NoRequest
  <2>7. Told(p)' = "none"
    BY <2>4, <2>5 DEF Told
  <2>8. CASE o \in Writers
    <3>1. Asked(p)' = [op |-> o, u |-> a[1], v |-> a[2]]
      BY <2>5, <2>8 DEF Asked
    <3>2. Asked(p)' \in Graph!Request
      BY <2>2, <2>8, <3>1 DEF Graph!Request, Writers
    <3>3. [q \in Procs |-> Asked(q)]' = [[q \in Procs |-> Asked(q)] EXCEPT ![p] = Asked(p)']
      BY <1>3
    <3>4. [q \in Procs |-> Told(q)]' = [q \in Procs |-> Told(q)]
      BY <1>3, <2>6, <2>7
    <3>5. Graph!Call(p, Asked(p)')
      BY <1>2, <2>6, <3>3, <3>4 DEF Graph!Call
    <3>6. QED BY <3>2, <3>5 DEF Graph!Next
  <2>9. CASE o \notin Writers
    <3>1. Asked(p)' = Asked(p)
      BY <2>5, <2>6, <2>9 DEF Asked, Graph!NoRequest
    <3>2. QED BY <1>4, <2>6, <2>7, <3>1
  <2>10. QED BY <2>8, <2>9
<1>6. CASE Return(p)
  <2>1. call'[p] = NoCall /\ pc[p] \in {"ok", "failed"} /\ pc'[p] = "idle"
    BY <1>1, <1>6 DEF Return, Goto, TypeOK
  <2>2. Asked(p)' = Graph!NoRequest /\ Told(p)' = "none"
    BY <2>1 DEF Asked, Told, NoCall, Writers, Graph!NoRequest
  <2>3. CASE call[p].op \in Writers
    <3>1. Told(p) # "none"
      BY <2>1, <2>3 DEF Told
    <3>2. [q \in Procs |-> Asked(q)]' = [[q \in Procs |-> Asked(q)] EXCEPT ![p] = Graph!NoRequest]
      BY <1>3, <2>2
    <3>3. [q \in Procs |-> Told(q)]' = [[q \in Procs |-> Told(q)] EXCEPT ![p] = "none"]
      BY <1>3, <2>2
    <3>4. Graph!Reply(p)
      BY <1>2, <3>1, <3>2, <3>3 DEF Graph!Reply
    <3>5. QED BY <3>4 DEF Graph!Next
  <2>4. CASE call[p].op \notin Writers
    <3>1. Asked(p) = Graph!NoRequest /\ Told(p) = "none"
      BY <2>4 DEF Asked, Told, Graph!NoRequest
    <3>2. QED BY <1>4, <2>2, <3>1
  <2>5. QED BY <2>3, <2>4
<1>7. QED BY <1>5, <1>6

(* A validation or a check that fails, fails because the graph may refuse. *)
LEMMA ChecksAreRefusals ==
  ASSUME RInv, NEW p \in Procs, call[p].op \in Writers, Goto(p, "failed"),
         ValidateFirst(p) \/ ValidateSecond(p) \/ Check(p)
  PROVE  Graph!Refusable(Asked(p))
<1>1. TypeOK /\ StageOK /\ FriendshipsMutual /\ RestOK
  BY DEF RInv, IInv
<1>2. call[p] \in Call /\ call[p].u \in Users /\ call[p].v \in Users
  BY <1>1 DEF TypeOK, Call, ValidateFirst, ValidateSecond, Check
<1>3. pc'[p] = "failed"
  BY <1>1 DEF Goto, TypeOK
<1>4. Asked(p) = [op |-> call[p].op, u |-> call[p].u, v |-> call[p].v]
  BY DEF Asked
<1>5. Graph!Edge(Asked(p)) = {call[p].u, call[p].v}
  BY <1>4 DEF Graph!Edge
<1>6. CASE "lag" \in Faults
  BY <1>6 DEF Graph!Refusable
<1>7. CASE "lag" \notin Faults
  <2>1. \A u \in Users : Copies(u) = {table[u]}
    BY <1>1, <1>7 DEF RestOK, Copies
  <2>2. CASE ValidateFirst(p)
    <3>1. call[p].u = call[p].v \/ ~ table[call[p].u].profile
      BY <1>1, <1>2, <1>3, <2>1, <2>2 DEF ValidateFirst, Goto, Validated, TypeOK
    <3>2. call[p].op = "AddFriend"
      BY <1>1, <2>2 DEF ValidateFirst, StageOK, Writers
    <3>3. QED BY <1>2, <1>4, <1>5, <3>1, <3>2
              DEF Graph!Refusable, Graph!Legal, Members, Graph!Edge
  <2>3. CASE ValidateSecond(p)
    <3>1. ~ table[call[p].v].profile
      BY <1>1, <1>2, <1>3, <2>1, <2>3 DEF ValidateSecond, Goto, Validated, TypeOK
    <3>2. call[p].op = "AddFriend"
      BY <1>1, <2>3 DEF ValidateSecond, StageOK, Writers, TwoUsers
    <3>3. QED BY <1>2, <1>4, <1>5, <3>1, <3>2
              DEF Graph!Refusable, Members, Graph!Edge
  <2>4. CASE Check(p)
    <3>1. (call[p].v \in table[call[p].u].friends) # (call[p].op = "RemoveFriend")
      BY <1>1, <1>2, <1>3, <2>1, <2>4 DEF Check, Goto, TypeOK
    <3>2. Graph!Edge(Asked(p)) \in Edges <=> call[p].v \in table[call[p].u].friends
      BY <1>1, <1>2, <1>5, EdgeIsRow
    <3>3. ~ Graph!Legal(Asked(p))
      BY <1>4, <3>1, <3>2 DEF Graph!Legal, Writers
    <3>4. QED BY <3>3 DEF Graph!Refusable
  <2>5. QED BY <2>2, <2>3, <2>4
<1>8. QED BY <1>6, <1>7

(* Every step of the service is a step of the graph, or none.              *)
LEMMA RefinementStep ==
  ASSUME RInv, [Next]_vars
  PROVE  Graph!Next \/ UNCHANGED Graph!vars
<1>1. TypeOK /\ StageOK /\ RestOK
  BY DEF RInv, IInv
<1>2. ASSUME NEW p \in Procs, Begin(p) \/ Return(p)
      PROVE  Graph!Next \/ UNCHANGED Graph!vars
  BY <1>2, CallAndReply
<1>3. ASSUME NEW p \in Procs, NEW s, Goto(p, s), UNCHANGED <<table, call>>,
             call[p].op \notin Writers \/ s \in {"validateSecond", "check", "commit"},
             pc[p] \notin {"failed", "sweep", "delete", "publish", "ok"}
      PROVE  UNCHANGED Graph!vars
  <2>1. Told(p)' = Told(p)
    BY <1>1, <1>3 DEF Told, Goto, TypeOK
  <2>2. QED BY <1>1, <1>3, <2>1, HiddenStep
<1>4. ASSUME NEW p \in Procs, ValidateFirst(p) \/ ValidateSecond(p) \/ Check(p)
      PROVE  Graph!Next \/ UNCHANGED Graph!vars
  <2>1. PICK s : Goto(p, s) /\ s \in {"failed", "validateSecond", "check", "lookup", "commit"}
    BY <1>4 DEF ValidateFirst, ValidateSecond, Check, Validated
  <2>2. /\ UNCHANGED <<table, call>>
        /\ pc[p] \in {"validateFirst", "validateSecond", "check"}
    BY <1>4 DEF ValidateFirst, ValidateSecond, Check, store
  <2>3. CASE call[p].op \in Writers /\ s = "failed"
    <3>1. Graph!Refusable(Asked(p))
      BY <1>4, <2>1, <2>3, ChecksAreRefusals
    <3>2. Graph!Refuse(p)
      BY <1>1, <2>1, <2>2, <2>3, <3>1, FailureIsRefusal
    <3>3. QED BY <3>2 DEF Graph!Next
  <2>4. CASE call[p].op \in Writers /\ s = "lookup"
    <3>1. call[p].op # "AddFriend"
      BY <1>1, <1>4, <2>1, <2>4
      DEF ValidateFirst, ValidateSecond, Check, Validated, Goto, TypeOK
    <3>2. QED BY <1>1, <1>4, <2>1, <2>4, <3>1
              DEF ValidateFirst, ValidateSecond, Check, StageOK, TwoUsers, Writers, Goto, TypeOK
  <2>5. CASE call[p].op \notin Writers \/ s \in {"validateSecond", "check", "commit"}
    BY <1>3, <2>1, <2>2, <2>5
  <2>6. QED BY <2>1, <2>3, <2>4, <2>5
<1>5. ASSUME NEW p \in Procs, Commit(p) \/ CommitUnanswered(p)
      PROVE  Graph!Next \/ UNCHANGED Graph!vars
  <2>1. pc[p] = "commit" /\ call' = call /\ call[p].op \in Writers
    BY <1>1, <1>5 DEF Commit, CommitUnanswered, StageOK
  <2>2. CASE Permitted(call[p]) /\ WriteRows(p)
    <3>1. Goto(p, "sweep") \/ (Goto(p, "failed") /\ Faults \cap {"store", "crash"} # {})
      BY <1>5, <2>2 DEF Commit, CommitUnanswered
    <3>2. Graph!Accept(p) \/ Graph!Lose(p)
      BY <2>1, <2>2, <3>1, CommitIsAcceptOrLose
    <3>3. QED BY <3>2 DEF Graph!Next
  <2>3. CASE ~ Permitted(call[p]) /\ Goto(p, "failed") /\ UNCHANGED store
    <3>1. Graph!Refusable(Asked(p))
      BY <1>1, <2>1, <2>3, IllegalWhenNotPermitted
    <3>2. Graph!Refuse(p)
      BY <1>1, <2>1, <2>3, <3>1, FailureIsRefusal DEF store
    <3>3. QED BY <3>2 DEF Graph!Next
  <2>4. QED BY <1>5, <2>2, <2>3 DEF Commit, CommitUnanswered
<1>6. ASSUME NEW p \in Procs,
             DeleteKey(p) \/ ScanPattern(p) \/ DeleteFound(p) \/ DeletionFails(p) \/ Publish(p)
      PROVE  UNCHANGED Graph!vars
  <2>1. PICK s : Goto(p, s) /\ s \in {"sweep", "delete", "publish", "ok"}
    BY <1>6 DEF DeleteKey, ScanPattern, DeleteFound, DeletionFails, NextSweep, Publish
  <2>2. /\ UNCHANGED <<table, call>>
        /\ pc[p] \in {"sweep", "delete", "publish"}
    BY <1>6 DEF DeleteKey, ScanPattern, DeleteFound, DeletionFails, Publish, store
  <2>3. Told(p)' = Told(p)
    BY <1>1, <2>1, <2>2 DEF Told, Goto, TypeOK
  <2>4. QED BY <1>1, <2>1, <2>2, <2>3, HiddenStep
<1>7. ASSUME NEW p \in Procs, Lookup(p) \/ Read(p) \/ ReadSecond(p) \/ Fill(p)
      PROVE  UNCHANGED Graph!vars
  <2>1. call[p].op \notin Writers /\ pc[p] \in {"lookup", "read", "readSecond", "fill"}
    BY <1>1, <1>7 DEF Lookup, Read, ReadSecond, Fill, StageOK, Readers, Writers
  <2>2. UNCHANGED <<table, call>> /\ \E s : Goto(p, s)
    BY <1>7 DEF Lookup, Read, ReadSecond, Fill, store
  <2>3. QED BY <1>3, <2>1, <2>2
<1>8. ASSUME NEW p \in Procs, StoreFails(p)
      PROVE  Graph!Next \/ UNCHANGED Graph!vars
  <2>1. /\ Goto(p, "failed") /\ UNCHANGED <<table, call>> /\ "store" \in Faults
        /\ pc[p] \in StoreStages
    BY <1>8 DEF StoreFails, store
  <2>2. CASE call[p].op \in Writers
    <3>1. pc[p] \in {"validateFirst", "validateSecond", "check", "commit"}
      BY <1>1, <2>1, <2>2 DEF StoreStages, StageOK, Readers, Writers
    <3>2. Graph!Refusable(Asked(p))
      BY <2>1 DEF Graph!Refusable
    <3>3. Graph!Refuse(p)
      BY <1>1, <2>1, <2>2, <3>1, <3>2, FailureIsRefusal
    <3>4. QED BY <3>3 DEF Graph!Next
  <2>3. CASE call[p].op \notin Writers
    BY <1>3, <2>1, <2>3 DEF StoreStages
  <2>4. QED BY <2>2, <2>3
<1>9. CASE Crash
  <2>1. Edges' = Edges /\ Members' = Members
    BY <1>9 DEF Crash, store, Edges, Members
  <2>2. \A q \in Procs : Asked(q)' = Graph!NoRequest /\ Told(q)' = "none"
    BY <1>9 DEF Crash, Asked, Told, NoCall, Writers, Graph!NoRequest
  <2>3. [q \in Procs |-> Asked(q)]' = [q \in Procs |-> Graph!NoRequest]
    BY <2>2
  <2>4. [q \in Procs |-> Told(q)]' = [q \in Procs |-> "none"]
    BY <2>2
  <2>5. Graph!Restart
    BY <1>9, <2>1, <2>3, <2>4 DEF Graph!Restart, Crash
  <2>6. QED BY <2>5 DEF Graph!Next
<1>10. ASSUME NEW u \in Users, CreateUser(u) \/ DeleteUser(u)
       PROVE  Graph!Next
  <2>1. PICK b \in BOOLEAN : SetProfile(u, b)
    BY <1>10 DEF CreateUser, DeleteUser
  <2>2. \A x \in Users : /\ table'[x].friends = table[x].friends
                         /\ table'[x].profile = IF x = u THEN b ELSE table[x].profile
    BY <1>1, <2>1 DEF SetProfile, TypeOK, Partition
  <2>3. Edges' = Edges
    BY <2>2, SameRowsSameEdges
  <2>4. Members' = IF b THEN Members \cup {u} ELSE Members \ {u}
    <3>1. \A x : x \in Members' <=> x \in Users /\ IF x = u THEN b ELSE table[x].profile
      BY <2>2 DEF Members
    <3>2. \A x : x \in Members <=> x \in Users /\ table[x].profile
      BY DEF Members
    <3>3. CASE b = TRUE
      <4>1. \A x : x \in Members' <=> x \in Members \cup {u}
        BY <1>10, <3>1, <3>2, <3>3, Zenon
      <4>2. QED BY <3>3, <4>1
    <3>4. CASE b = FALSE
      <4>1. \A x : x \in Members' <=> x \in Members \ {u}
        BY <1>10, <3>1, <3>2, <3>4, Zenon
      <4>2. QED BY <3>4, <4>1
    <3>5. QED BY <2>1, <3>3, <3>4
  <2>5. \A q \in Procs : Asked(q)' = Asked(q) /\ Told(q)' = Told(q)
    BY <2>1 DEF SetProfile, local, Asked, Told
  <2>6. Graph!Register(u) \/ Graph!Unregister(u)
    BY <2>3, <2>4, <2>5 DEF Graph!Register, Graph!Unregister
  <2>7. QED BY <2>6 DEF Graph!Next
<1>11. CASE UNCHANGED <<table, local>>
  <2>1. Edges' = Edges /\ Members' = Members
    BY <1>11 DEF Edges, Members
  <2>2. \A q \in Procs : Asked(q)' = Asked(q) /\ Told(q)' = Told(q)
    BY <1>11 DEF local, Asked, Told
  <2>3. QED BY <2>1, <2>2 DEF Graph!vars
<1>12. CASE \/ \E k \in Keys : Expire(k)
            \/ \E u \in Users : Replicate(u)
            \/ UNCHANGED vars
  BY <1>11, <1>12 DEF Expire, Replicate, store, local, vars
<1>13. QED
  BY <1>2, <1>4, <1>5, <1>6, <1>7, <1>8, <1>9, <1>10, <1>12 DEF Next, Step

(* The service implements the graph of friendships, for any users, any     *)
(* concurrent requests and any faults.                                     *)
THEOREM ServiceImplementsGraph == Spec => ImplementsGraph
<1>1. Init => Graph!Init
  <2>1. ASSUME Init
        PROVE  Graph!Init
    <3>1. table = [u \in Users |-> [Unregistered EXCEPT !.profile = TRUE]]
      BY <2>1 DEF Init
    <3>2. Members \in SUBSET Users
      BY DEF Members
    <3>3. \A u \in Users : table[u].friends = {}
      BY <3>1 DEF Unregistered
    <3>4. Edges = {}
      BY <3>3 DEF Edges
    <3>5. \A q \in Procs : Asked(q) = Graph!NoRequest /\ Told(q) = "none"
      BY <2>1 DEF Init, Asked, Told, NoCall, Writers, Graph!NoRequest
    <3>6. QED BY <3>2, <3>4, <3>5 DEF Graph!Init
  <2>2. QED BY <2>1
<1>2. RInv /\ [Next]_vars => [Graph!Next]_(Graph!vars)
  BY RefinementStep
<1>3. QED BY <1>1, <1>2, RestInvariant, PTL DEF Spec, ImplementsGraph, Graph!Spec
=============================================================================
