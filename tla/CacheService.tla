----------------------------- MODULE CacheService -----------------------------
(***************************************************************************)
(* The cache: Service, which counts what it does, on the Redis client,     *)
(* which guards its connections with a read-write lock, on go-redis, which *)
(* tries a command again when no reply comes.                              *)
(*                                                                         *)
(* internal/cache/service.go, internal/cache/factory.go,                   *)
(* pkg/redis/client.go                                                     *)
(*                                                                         *)
(* A command whose caller has given up may still reach the server later.   *)
(* Latencies are not kept.                                                 *)
(***************************************************************************)
EXTENDS Integers, Sequences, FiniteSets

CONSTANTS
  Procs,       \* goroutines that use the cache
  Keys, Values,
  Asked,       \* the keys that calls name one by one
  Ttls,        \* times to live, in ticks
  None,        \* no entry, no value; of a setter: it fails
  MaxRetries,  \* 3 in the code
  MaxCalls, MaxTicks, \* bounds
  MaxLate      \* bound: commands given up that still arrive

ASSUME ProcsAssumption == IsFiniteSet(Procs)
ASSUME AskedAssumption == Asked \subseteq Keys
ASSUME TtlsAssumption == Ttls \subseteq Nat \ {0}
ASSUME NoneAssumption == None \notin Values
ASSUME RetriesAssumption == MaxRetries \in Nat
ASSUME BoundsAssumption == MaxCalls \in Nat /\ MaxTicks \in Nat /\ MaxLate \in Nat

VARIABLES
  store,    \* Redis: the entry of each key
  wire,     \* the commands that it has not processed yet
  closed,   \* Client.closed
  call,     \* the call of each goroutine
  metrics,  \* Service.metrics: the counters
  begun, ticks,  \* for the bounds
  rewritten,  \* the keys set during each InvalidatePattern, for the property
  tally     \* the operations of the service that ended

vars == <<store, wire, closed, call, metrics, begun, ticks, rewritten, tally>>

Counters == {"hits", "misses", "operations", "errors"}
Entry == [value : Values, left : Ttls]
NoMetrics == [c \in Counters |-> 0]
NoTally == [answered |-> 0, failed |-> 0, failedGets |-> 0]
Idle == [goal |-> "None", op |-> "None", keys |-> {}, value |-> None, ttl |-> 0,
         at |-> "idle", try |-> 0, number |-> 0, result |-> "none", got |-> None, found |-> {}]

Init ==
  /\ store \in [Keys -> Entry \cup {None}]
  /\ wire = {}
  /\ closed = FALSE
  /\ call = [p \in Procs |-> Idle]
  /\ metrics = NoMetrics
  /\ begun = 0 /\ ticks = 0
  /\ rewritten = [p \in Procs |-> {}]
  /\ tally = NoTally

bounds == <<begun, ticks>>

-----------------------------------------------------------------------------
(* Redis.                                                                  *)

(* What is in the store after command m.                                   *)
Applied(m) ==
  [k \in Keys |->
     IF k \notin m.keys THEN store[k]
     ELSE CASE m.op = "Set" -> [value |-> m.value, left |-> m.ttl]
            [] m.op \in {"Delete", "Flush"} -> None
            [] m.op = "SetTTL" ->
                 IF store[k] = None THEN None ELSE [store[k] EXCEPT !.left = m.ttl]
            [] OTHER -> store[k]]

Present(keys) == {k \in keys : store[k] # None}

(* Its reply.                                                              *)
Hit(m) == m.op = "Get" /\ Present(m.keys) # {}
ResultOf(m) == IF m.op = "Get" /\ ~ Hit(m) THEN "miss" ELSE "ok"
Got(m) == IF Hit(m) THEN store[CHOOSE k \in m.keys : TRUE].value ELSE None

(* Mutant: a Get that fails is an error only.                              *)
IncrementedOnce(op, result) ==
  IF op \in {"Keys", "Ping"} THEN {}
  ELSE IF result = "error" THEN {"errors"}
  ELSE IF op # "Get" THEN {"operations"}
  ELSE IF result = "ok" THEN {"hits"} ELSE {"misses"}

(* The counters that the service increments after an operation: a Get that *)
(* fails counts as a miss and as an error.                                 *)
Incremented(op, result) ==
  IF op \in {"Keys", "Ping"} THEN {}
  ELSE IF op = "Get"
    THEN CASE result = "ok" -> {"hits"}
           [] result = "miss" -> {"misses"}
           [] OTHER -> {"misses", "errors"}
    ELSE IF result = "ok" THEN {"operations"} ELSE {"errors"}

(* An operation of the client of p ends, and with it the lock.             *)
Ended(p, result, got, found) ==
  [call[p] EXCEPT !.at = "count", !.result = result, !.got = got, !.found = found]

Tallied(p, result) ==
  LET op == call[p].op IN
  IF op \in {"Keys", "Ping"} THEN tally
  ELSE IF result # "error" THEN [tally EXCEPT !.answered = @ + 1]
  ELSE [tally EXCEPT !.failed = @ + 1,
                     !.failedGets = IF op = "Get" THEN @ + 1 ELSE @]

(* The command of p that is under way.                                     *)
Command(p) ==
  [who |-> p, number |-> call[p].number, try |-> call[p].try, op |-> call[p].op,
   keys |-> call[p].keys, value |-> call[p].value, ttl |-> call[p].ttl]

(* go-redis never takes the reply to another command for the one awaited.  *)
Awaited(m) == call[m.who].at = "wait" /\ m = Command(m.who)

Noted(m) ==
  [p \in Procs |->
     IF m.op = "Set" /\ call[p].goal = "InvalidatePattern"
       THEN rewritten[p] \cup m.keys ELSE rewritten[p]]

(* The server processes a command.  One that is lost is never processed; a *)
(* reply that is lost is one to a command that was given up.               *)
Serve(m) ==
  /\ store' = Applied(m)
  /\ wire' = wire \ {m}
  /\ call' = IF Awaited(m)
               THEN [call EXCEPT ![m.who] =
                       Ended(m.who, ResultOf(m), Got(m), Present(m.keys))]
               ELSE call
  /\ rewritten' = Noted(m)
  /\ tally' = IF Awaited(m) THEN Tallied(m.who, ResultOf(m)) ELSE tally
  /\ UNCHANGED <<closed, metrics, bounds>>

(* A tick: entries expire.                                                 *)
Tick ==
  /\ ticks < MaxTicks
  /\ ticks' = ticks + 1
  /\ store' = [k \in Keys |->
       IF store[k] = None \/ store[k].left <= 1 THEN None
       ELSE [store[k] EXCEPT !.left = @ - 1]]
  /\ UNCHANGED <<wire, closed, call, metrics, begun, rewritten, tally>>

-----------------------------------------------------------------------------
(* Calls.  The first operation of a call, and what it is given.            *)

Single == {{k} : k \in Asked}

Requests ==
  [goal : {"Get", "Look"}, keys : Single, value : {None}, ttl : {0}] \cup
  [goal : {"Set"}, keys : Single, value : Values, ttl : Ttls] \cup
  [goal : {"GetOrSet"}, keys : Single, value : Values \cup {None}, ttl : Ttls] \cup
  [goal : {"SetTTL"}, keys : Single, value : {None}, ttl : Ttls] \cup
  [goal : {"Delete"}, keys : Single, value : {None}, ttl : {0}] \cup
  [goal : {"Flush", "InvalidatePattern", "IsHealthy", "Close", "Reconnect"},
   keys : {Keys}, value : {None}, ttl : {0}]

FirstOp(goal) ==
  CASE goal = "GetOrSet" -> "Get"
    [] goal = "InvalidatePattern" -> "Keys"
    [] goal = "IsHealthy" -> "Ping"
    [] OTHER -> goal

Begin(p, r) ==
  /\ call[p].at = "idle" /\ begun < MaxCalls
  /\ begun' = begun + 1
  /\ call' = [call EXCEPT ![p] =
       [Idle EXCEPT !.goal = r.goal, !.op = FirstOp(r.goal), !.keys = r.keys,
                    !.value = r.value, !.ttl = r.ttl, !.number = begun + 1,
                    !.at = IF r.goal \in {"Close", "Reconnect"} THEN "wlock" ELSE "lock"]]
  /\ UNCHANGED <<store, wire, closed, metrics, ticks, rewritten, tally>>

(* The read-write lock: a pending writer keeps new readers out.  The KEYS  *)
(* of InvalidatePattern goes to the connection without it.                 *)
Reads(p) == call[p].at = "wait" /\ call[p].op # "Keys"
NoReader == \A p \in Procs : ~ Reads(p)
NoWriter == \A p \in Procs : call[p].at \notin {"wlock", "stuck"}
Unlocked == \A p \in Procs : call[p].at # "stuck"

(* The first attempt at the command.                                       *)
Enter(p) ==
  /\ call[p].at = "lock" /\ NoWriter
  /\ IF closed
       THEN /\ call' = [call EXCEPT ![p] = Ended(p, "error", None, {})]
            /\ tally' = Tallied(p, "error")
            /\ UNCHANGED wire
       ELSE /\ call' = [call EXCEPT ![p].at = "wait", ![p].try = 0]
            /\ wire' = wire \cup {[Command(p) EXCEPT !.try = 0]}
            /\ UNCHANGED tally
  /\ UNCHANGED <<store, closed, metrics, bounds, rewritten>>

(* A command that is given up is lost, or still arrives.                   *)
Late == {m \in wire : ~ Awaited(m)}
Lost(p) == wire \ {Command(p)}
Leftovers(p) == {Lost(p)} \cup IF Cardinality(Late) < MaxLate THEN {wire} ELSE {}

(* The last attempt fails, for want of a connection or of a reply in time. *)
GivesUp(p) ==
  /\ call[p].at = "wait" /\ (closed \/ call[p].try = MaxRetries)
  /\ call' = [call EXCEPT ![p] = Ended(p, "error", None, {})]
  /\ wire' \in Leftovers(p)
  /\ tally' = Tallied(p, "error")
  /\ UNCHANGED <<store, closed, metrics, bounds, rewritten>>

(* Mutant: one attempt more than configured.                               *)
TriesOnceMore(p) ==
  LET again == call[p].try + 1 IN
  /\ call[p].at = "wait" /\ ~ closed /\ call[p].try <= MaxRetries
  /\ call' = [call EXCEPT ![p].try = again]
  /\ \E left \in Leftovers(p) : wire' = left \cup {[Command(p) EXCEPT !.try = again]}
  /\ UNCHANGED <<store, closed, metrics, bounds, rewritten, tally>>

(* Mutant: the attempts are not counted.                                   *)
TriesForEver(p) ==
  LET again == (call[p].try + 1) % (MaxRetries + 1) IN
  /\ call[p].at = "wait" /\ ~ closed
  /\ call' = [call EXCEPT ![p].try = again]
  /\ \E left \in Leftovers(p) : wire' = left \cup {[Command(p) EXCEPT !.try = again]}
  /\ UNCHANGED <<store, closed, metrics, bounds, rewritten, tally>>

(* Another attempt after one that failed.                                  *)
TriesAgain(p) ==
  LET again == call[p].try + 1 IN
  /\ call[p].at = "wait" /\ ~ closed /\ call[p].try < MaxRetries
  /\ call' = [call EXCEPT ![p].try = again]
  /\ \E left \in Leftovers(p) : wire' = left \cup {[Command(p) EXCEPT !.try = again]}
  /\ UNCHANGED <<store, closed, metrics, bounds, rewritten, tally>>

(* The increments of one operation: each locks, but no one looks between.  *)
Count(p) ==
  metrics' = [c \in Counters |->
    metrics[c] + IF c \in Incremented(call[p].op, call[p].result) THEN 1 ELSE 0]

(* GetOrSet goes on after a miss, when the setter gives a value.           *)
SetsNext(p) == /\ call[p].goal = "GetOrSet" /\ call[p].op = "Get"
               /\ call[p].result = "miss" /\ call[p].value # None

(* Mutant: only one of the keys is deleted.                                *)
DeletesOne(p) == {CHOOSE k \in call[p].found : TRUE}

(* InvalidatePattern deletes the keys that it found.                       *)
DeletesNext(p) == /\ call[p].goal = "InvalidatePattern" /\ call[p].op = "Keys"
                  /\ call[p].found # {}

ToDelete(p) == call[p].found

Proceed(p) ==
  /\ call[p].at = "count"
  /\ \/ /\ SetsNext(p)
        /\ call' = [call EXCEPT ![p].op = "Set", ![p].at = "lock"]
     \/ /\ DeletesNext(p)
        /\ call' = [call EXCEPT ![p].op = "Delete", ![p].keys = ToDelete(p),
                                ![p].at = "lock"]
  /\ Count(p)
  /\ UNCHANGED <<store, wire, closed, bounds, rewritten, tally>>

Finished(p) == call[p].at = "count" /\ ~ SetsNext(p) /\ ~ DeletesNext(p)

Return(p) ==
  /\ Finished(p)
  /\ Count(p)
  /\ call' = [call EXCEPT ![p] = Idle]
  /\ rewritten' = [rewritten EXCEPT ![p] = {}]
  /\ UNCHANGED <<store, wire, closed, bounds, tally>>

(* Mutant: it does not wait for the readers.                               *)
CloseAtOnce(p) ==
  /\ call[p].goal = "Close" /\ call[p].at = "wlock"
  /\ Unlocked
  /\ closed' = TRUE
  /\ call' = [call EXCEPT ![p] = Idle]
  /\ rewritten' = [rewritten EXCEPT ![p] = {}]
  /\ UNCHANGED <<store, wire, metrics, bounds, tally>>

(* Client.Close.                                                           *)
Close(p) ==
  /\ call[p].goal = "Close" /\ call[p].at = "wlock"
  /\ NoReader /\ Unlocked
  /\ closed' = TRUE
  /\ call' = [call EXCEPT ![p] = Idle]
  /\ rewritten' = [rewritten EXCEPT ![p] = {}]
  /\ UNCHANGED <<store, wire, metrics, bounds, tally>>

(* Client.Reconnect: connect locks what its caller has locked.             *)
Reconnect(p) ==
  /\ call[p].goal = "Reconnect" /\ call[p].at = "wlock"
  /\ NoReader /\ Unlocked
  /\ closed' = TRUE
  /\ call' = [call EXCEPT ![p].at = "stuck"]
  /\ UNCHANGED <<store, wire, metrics, bounds, rewritten, tally>>

-----------------------------------------------------------------------------
Step(p) == \/ Enter(p) \/ TriesAgain(p) \/ GivesUp(p) \/ Proceed(p)
           \/ Return(p) \/ Close(p) \/ Reconnect(p)

Next ==
  \/ \E p \in Procs : Step(p) \/ \E r \in Requests : Begin(p, r)
  \/ \E m \in wire : Serve(m)
  \/ Tick

(* What a goroutine can do it does; a wait for a reply has a timeout.      *)
Fairness == \A p \in Procs : WF_vars(Step(p))

Spec == Init /\ [][Next]_vars /\ Fairness

-----------------------------------------------------------------------------
(* Properties.                                                             *)

Goals == {"Get", "Look", "Set", "GetOrSet", "SetTTL", "Delete", "Flush",
          "InvalidatePattern", "IsHealthy", "Close", "Reconnect", "None"}
Ops == Goals \cup {"Keys", "Ping"}

Stored == [value : Values, left : Nat \ {0}]
Message ==
  [who : Procs, number : 1..MaxCalls, try : 0..MaxRetries, op : Ops,
   keys : SUBSET Keys, value : Values \cup {None}, ttl : Nat]
CallRecord ==
  [goal : Goals, op : Ops, keys : SUBSET Keys, value : Values \cup {None}, ttl : Nat,
   at : {"idle", "lock", "wlock", "wait", "count", "stuck"},
   try : 0..MaxRetries, number : 0..MaxCalls,
   result : {"none", "ok", "miss", "error"}, got : Values \cup {None},
   found : SUBSET Keys]
TypeOK ==
  /\ store \in [Keys -> Stored \cup {None}]
  /\ wire \subseteq Message
  /\ closed \in BOOLEAN
  /\ call \in [Procs -> CallRecord]
  /\ metrics \in [Counters -> Nat]
  /\ begun \in 0..MaxCalls /\ ticks \in 0..MaxTicks
  /\ rewritten \in [Procs -> SUBSET Keys]
  /\ tally \in [answered : Nat, failed : Nat, failedGets : Nat]

(* When InvalidatePattern returns without an error, every key of the       *)
(* pattern is gone unless it was written during the call                   *)
(* (service.go:301-320): the two commands are no transaction.              *)
InvalidateClears ==
  \A p \in Procs :
    Finished(p) /\ call[p].goal = "InvalidatePattern" /\ call[p].result = "ok" =>
      \A k \in Keys : store[k] # None => k \in rewritten[p]

(* Once every ended operation is counted, the counters add up: the misses  *)
(* are those answered, and the Gets that failed as well (service.go:38-46),*)
(* so that an outage lowers the hit rate.                                  *)
MetricsAddUp ==
  (\A p \in Procs : call[p].at # "count") =>
    /\ metrics["errors"] = tally.failed
    /\ metrics["hits"] + metrics["misses"] + metrics["operations"]
         = tally.answered + tally.failedGets
    /\ metrics["misses"] >= tally.failedGets

(* Close waits for the commands that hold the lock: under a closed client  *)
(* only the KEYS of InvalidatePattern, which does not, can be under way    *)
(* (client.go:341-360, service.go:306).                                    *)
CloseWaits == closed => NoReader

(* Every call returns, its attempts being limited, as long as nobody asks  *)
(* for a reconnection, which never does and lets nobody in again           *)
(* (client.go:324-338).                                                    *)
CallsReturn ==
  \A p \in Procs : call[p].at # "idle" ~>
    (call[p].at = "idle" \/ \E q \in Procs : call[q].at = "stuck")
=============================================================================
