-------------------------- MODULE CacheServiceProofs --------------------------
(***************************************************************************)
(* For any goroutines, keys, values and limits, whatever is late or lost:  *)
(* InvalidatePattern leaves only what was written meanwhile, Close waits   *)
(* for the commands, and the counters add up once every operation is       *)
(* counted.                                                                *)
(***************************************************************************)
EXTENDS CacheService, FiniteSetTheorems, TLAPS

(* What a call carries fits its operation, and so does a command.          *)
Fits(c) ==
  /\ c.op = "Set" => c.value \in Values /\ c.ttl \in Ttls
  /\ c.op = "SetTTL" => c.ttl \in Ttls
  /\ c.op = "Get" => \E k \in Keys : c.keys = {k}
  /\ c.op = "Keys" => c.keys = Keys

(* A call c, n calls having begun.                                         *)
CallOK(c, n) ==
  /\ Fits(c)
  /\ c.goal = "GetOrSet" => c.ttl \in Ttls
  /\ c.op = "Get" => c.goal \in {"Get", "GetOrSet"}
  /\ c.goal = "InvalidatePattern" => c.op \in {"Keys", "Delete"}
  /\ c.op = "Keys" => c.goal = "InvalidatePattern"
  /\ c.at # "idle" => c.number \in 1..n
  /\ c.op = "Keys" /\ c.at = "count" => c.result = "ok" \/ c.found = {}

(* InvalidatePattern knows every key but those written during the call,    *)
(* from its search on.                                                     *)
Searched(c) ==
  \/ c.op = "Keys" /\ c.at = "count" /\ c.result = "ok"
  \/ c.op = "Delete" /\ c.at \in {"lock", "wait"}
  \/ c.op = "Delete" /\ c.at = "count" /\ c.result = "ok"

PatternOK(c, w, s) ==
  c.goal = "InvalidatePattern" /\ Searched(c) =>
    \A k \in Keys : s[k] # None =>
      \/ k \in w
      \/ c.op = "Keys" /\ k \in c.found
      \/ c.op = "Delete" /\ c.at # "count" /\ k \in c.keys

LocalOK(c, w, s, n) ==
  CallOK(c, n) /\ PatternOK(c, w, s)

WireOK == \A m \in wire : Fits(m)

IInv ==
  /\ TypeOK /\ WireOK /\ CloseWaits
  /\ \A p \in Procs : LocalOK(call[p], rewritten[p], store, begun)

-----------------------------------------------------------------------------
(* What the steps do to the calls.                                         *)

LEMMA Constants ==
  /\ Ttls \subseteq Nat \ {0} /\ Asked \subseteq Keys /\ None \notin Values
  /\ MaxRetries \in Nat /\ MaxCalls \in Nat
BY AskedAssumption, TtlsAssumption, NoneAssumption, RetriesAssumption, BoundsAssumption

LEMMA IdleFits ==
  /\ Idle \in CallRecord
  /\ \A s, n : LocalOK(Idle, {}, s, n)
<1>1. Idle \in CallRecord
  BY Constants DEF Idle, CallRecord, Goals, Ops
<1>2. \A s, n : LocalOK(Idle, {}, s, n)
  BY DEF Idle, LocalOK, CallOK, Fits, PatternOK, Searched
<1>. QED  BY <1>1, <1>2

LEMMA RequestFits ==
  ASSUME NEW r \in Requests, begun \in 0..MaxCalls, begun < MaxCalls
  PROVE  LET c == [Idle EXCEPT !.goal = r.goal, !.op = FirstOp(r.goal), !.keys = r.keys,
                     !.value = r.value, !.ttl = r.ttl, !.number = begun + 1,
                     !.at = IF r.goal \in {"Close", "Reconnect"} THEN "wlock" ELSE "lock"]
         IN  /\ c \in CallRecord
             /\ c.at \in {"lock", "wlock"} /\ c.goal = r.goal /\ c.op = FirstOp(r.goal)
             /\ c.number = begun + 1
             /\ Fits(c)
             /\ c.goal = "GetOrSet" => c.ttl \in Ttls
             /\ c.op = "Get" => c.goal \in {"Get", "GetOrSet"}
             /\ c.goal = "InvalidatePattern" => c.op = "Keys"
             /\ c.op = "Keys" => c.goal = "InvalidatePattern"
<1> DEFINE c == [Idle EXCEPT !.goal = r.goal, !.op = FirstOp(r.goal), !.keys = r.keys,
                     !.value = r.value, !.ttl = r.ttl, !.number = begun + 1,
                     !.at = IF r.goal \in {"Close", "Reconnect"} THEN "wlock" ELSE "lock"]
<1>1. /\ c.goal = r.goal /\ c.op = FirstOp(r.goal) /\ c.keys = r.keys /\ c.value = r.value
      /\ c.ttl = r.ttl /\ c.number = begun + 1 /\ c.at \in {"lock", "wlock"}
  BY DEF Idle
<1>2. /\ r.goal \in Goals /\ r.goal # "None" /\ r.keys \in SUBSET Keys
      /\ r.value \in Values \cup {None} /\ r.ttl \in Nat
  BY Constants DEF Requests, Single, Goals
<1>3. c \in CallRecord
  <2>1. FirstOp(r.goal) \in Ops
    BY <1>2 DEF FirstOp, Ops, Goals
  <2>2. begun + 1 \in 0..MaxCalls /\ 0 \in 0..MaxRetries
    BY Constants
  <2>. QED  BY IdleFits, <1>2, <2>1, <2>2 DEF CallRecord
<1>4. Fits(c) /\ (c.goal = "GetOrSet" => c.ttl \in Ttls)
  <2>1. c.op = "Set" => r.goal = "Set"
    BY <1>1, <1>2 DEF FirstOp, Goals
  <2>2. r.goal = "Set" => r.value \in Values /\ r.ttl \in Ttls
    BY DEF Requests
  <2>3. c.op = "SetTTL" => r.goal = "SetTTL"
    BY <1>1, <1>2 DEF FirstOp, Goals
  <2>4. r.goal \in {"SetTTL", "GetOrSet"} => r.ttl \in Ttls
    BY DEF Requests
  <2>5. c.op = "Get" => r.goal \in {"Get", "GetOrSet"}
    BY <1>1, <1>2 DEF FirstOp, Goals
  <2>6. r.goal \in {"Get", "GetOrSet"} => \E k \in Keys : r.keys = {k}
    BY Constants DEF Requests, Single
  <2>7. c.op = "Keys" => r.goal = "InvalidatePattern"
    BY <1>1, <1>2 DEF FirstOp, Goals
  <2>8. r.goal = "InvalidatePattern" => r.keys = Keys
    BY DEF Requests
  <2>. QED  BY <1>1, <2>1, <2>2, <2>3, <2>4, <2>5, <2>6, <2>7, <2>8 DEF Fits
<1>5. /\ c.op = "Get" => c.goal \in {"Get", "GetOrSet"}
      /\ c.goal = "InvalidatePattern" => c.op = "Keys"
      /\ c.op = "Keys" => c.goal = "InvalidatePattern"
  BY <1>1, <1>2 DEF FirstOp, Goals
<1>. QED  BY <1>1, <1>3, <1>4, <1>5

(* An operation of the client ends.                                        *)
LEMMA EndedFits ==
  ASSUME NEW p \in Procs, call \in [Procs -> CallRecord],
         NEW result \in {"ok", "miss", "error"},
         NEW got \in Values \cup {None}, NEW found \in SUBSET Keys
  PROVE  LET c == Ended(p, result, got, found) IN
         /\ c \in CallRecord
         /\ c.goal = call[p].goal /\ c.op = call[p].op /\ c.keys = call[p].keys
         /\ c.value = call[p].value /\ c.ttl = call[p].ttl /\ c.number = call[p].number
         /\ c.at = "count" /\ c.result = result /\ c.got = got /\ c.found = found
BY DEF Ended, CallRecord

LEMMA CommandFits ==
  ASSUME IInv, NEW p \in Procs, call[p].at # "idle", NEW n \in 0..MaxRetries
  PROVE  /\ [Command(p) EXCEPT !.try = n] \in Message
         /\ Fits([Command(p) EXCEPT !.try = n])
<1>1. call[p] \in CallRecord /\ call[p].number \in 1..MaxCalls
  <2>1. call[p] \in CallRecord /\ begun \in 0..MaxCalls
    BY DEF IInv, TypeOK
  <2>2. call[p].number \in 1..begun
    BY DEF IInv, LocalOK, CallOK
  <2>. QED  BY <2>1, <2>2, Constants
<1>2. Fits(call[p])
  BY DEF IInv, LocalOK, CallOK
<1>3. [Command(p) EXCEPT !.try = n] \in Message
  BY <1>1 DEF Command, Message, CallRecord
<1>4. Fits([Command(p) EXCEPT !.try = n])
  BY <1>2 DEF Command, Fits
<1>. QED  BY <1>3, <1>4

(* One goroutine goes on, and nothing happens to the store.                *)
LEMMA OneGoesOn ==
  ASSUME IInv, NEW p \in Procs, NEW c \in CallRecord, NEW w \in SUBSET Keys,
         call' = [call EXCEPT ![p] = c], rewritten' = [rewritten EXCEPT ![p] = w],
         UNCHANGED store,
         begun' \in begun..MaxCalls, begun' = begun \/ begun' = begun + 1,
         LocalOK(c, w, store, begun')
  PROVE  /\ call' \in [Procs -> CallRecord] /\ rewritten' \in [Procs -> SUBSET Keys]
         /\ \A q \in Procs : LocalOK(call'[q], rewritten'[q], store', begun')
<1>1. call \in [Procs -> CallRecord] /\ rewritten \in [Procs -> SUBSET Keys]
      /\ begun \in 0..MaxCalls
  BY DEF IInv, TypeOK
<1>2. ASSUME NEW q \in Procs PROVE LocalOK(call'[q], rewritten'[q], store', begun')
  <2>1. CASE q = p
    BY <1>1, <2>1
  <2>2. CASE q # p
    <3>1. call'[q] = call[q] /\ rewritten'[q] = rewritten[q]
      BY <1>1, <2>2
    <3>2. LocalOK(call[q], rewritten[q], store, begun)
      BY DEF IInv
    <3>3. call[q].number \in 1..begun => call[q].number \in 1..begun'
      BY <1>1, Constants
    <3>4. LocalOK(call[q], rewritten[q], store, begun')
      BY <3>2, <3>3 DEF LocalOK, CallOK
    <3>. QED  BY <3>1, <3>4
  <2>. QED  BY <2>1, <2>2
<1>. QED  BY <1>1, <1>2

LEMMA BeginStep ==
  ASSUME IInv, NEW p \in Procs, NEW r \in Requests, Begin(p, r)
  PROVE  IInv'
<1> DEFINE c == [Idle EXCEPT !.goal = r.goal, !.op = FirstOp(r.goal), !.keys = r.keys,
                   !.value = r.value, !.ttl = r.ttl, !.number = begun + 1,
                   !.at = IF r.goal \in {"Close", "Reconnect"} THEN "wlock" ELSE "lock"]
<1>1. /\ begun \in 0..MaxCalls /\ begun < MaxCalls /\ begun' = begun + 1
      /\ call' = [call EXCEPT ![p] = c]
      /\ UNCHANGED <<store, wire, closed, metrics, ticks, rewritten, tally>>
  BY DEF Begin, IInv, TypeOK
<1>2. begun' \in begun..MaxCalls /\ begun' \in 0..MaxCalls
  BY <1>1, Constants
<1>3. rewritten[p] \in SUBSET Keys /\ rewritten' = [rewritten EXCEPT ![p] = rewritten[p]]
  BY <1>1 DEF IInv, TypeOK
<1>4. /\ c \in CallRecord
      /\ c.at \in {"lock", "wlock"} /\ c.goal = r.goal
      /\ c.number = begun + 1
      /\ Fits(c)
      /\ c.goal = "GetOrSet" => c.ttl \in Ttls
      /\ c.op = "Get" => c.goal \in {"Get", "GetOrSet"}
      /\ c.goal = "InvalidatePattern" => c.op = "Keys"
      /\ c.op = "Keys" => c.goal = "InvalidatePattern"
  BY <1>1, RequestFits
<1> HIDE DEF c
<1>5. LocalOK(c, rewritten[p], store, begun')
  <2>1. CallOK(c, begun')
    BY <1>1, <1>4, Constants DEF CallOK
  <2>2. PatternOK(c, rewritten[p], store)
    BY <1>4 DEF PatternOK, Searched
  <2>. QED  BY <2>1, <2>2 DEF LocalOK
<1>6. /\ call' \in [Procs -> CallRecord] /\ rewritten' \in [Procs -> SUBSET Keys]
      /\ \A q \in Procs : LocalOK(call'[q], rewritten'[q], store', begun')
  BY <1>1, <1>2, <1>3, <1>4, <1>5, OneGoesOn
<1>7. TypeOK'
  BY <1>1, <1>2, <1>6 DEF IInv, TypeOK
<1>8. CloseWaits'
  <2>1. \A q \in Procs : Reads(q)' => Reads(q)
    BY <1>1, <1>4 DEF Reads, IInv, TypeOK
  <2>. QED  BY <1>1, <2>1 DEF IInv, CloseWaits, NoReader
<1>. QED  BY <1>1, <1>6, <1>7, <1>8 DEF IInv, WireOK

(* The same when nothing begins, of a goroutine whose call does not end.   *)
LEMMA OneProceeds ==
  ASSUME IInv, NEW p \in Procs, NEW c \in CallRecord,
         call' = [call EXCEPT ![p] = c], UNCHANGED <<store, rewritten, begun>>,
         LocalOK(c, rewritten[p], store, begun)
  PROVE  /\ call' \in [Procs -> CallRecord]
         /\ \A q \in Procs : LocalOK(call'[q], rewritten'[q], store', begun')
<1>1. /\ rewritten \in [Procs -> SUBSET Keys] /\ begun \in 0..MaxCalls
  BY DEF IInv, TypeOK
<1>2. rewritten[p] \in SUBSET Keys /\ rewritten' = [rewritten EXCEPT ![p] = rewritten[p]]
  BY <1>1
<1>3. /\ begun' \in begun..MaxCalls /\ begun' = begun
      /\ LocalOK(c, rewritten[p], store, begun')
  BY <1>1, Constants
<1>. QED  BY <1>2, <1>3, OneGoesOn

LEMMA TallyType ==
  ASSUME TypeOK, NEW p \in Procs, NEW result
  PROVE  Tallied(p, result) \in [answered : Nat, failed : Nat, failedGets : Nat]
<1> DEFINE T == [answered : Nat, failed : Nat, failedGets : Nat]
           failed == [tally EXCEPT !.failed = @ + 1]
<1>1. tally \in T
  BY DEF TypeOK
<1>2. [tally EXCEPT !.answered = @ + 1] \in T
  BY <1>1
<1>3. ASSUME NEW n \in Nat PROVE [tally EXCEPT !.failed = @ + 1, !.failedGets = n] \in T
  <2>1. failed \in T
    BY <1>1
  <2>2. [tally EXCEPT !.failed = @ + 1, !.failedGets = n] = [failed EXCEPT !.failedGets = n]
    BY <1>1
  <2> HIDE DEF failed
  <2>3. [failed EXCEPT !.failedGets = n] \in T
    BY <2>1
  <2>. QED  BY <2>2, <2>3
<1>4. tally.failedGets \in Nat /\ tally.failedGets + 1 \in Nat
  BY <1>1
<1>. QED  BY <1>1, <1>2, <1>3, <1>4 DEF Tallied

LEMMA MetricsType ==
  ASSUME TypeOK, NEW p \in Procs, Count(p)
  PROVE  metrics' \in [Counters -> Nat]
BY DEF TypeOK, Count

(* A call that goes on to c holds the lock only on an open client.         *)
LEMMA StillWaits ==
  ASSUME IInv, NEW p \in Procs, NEW c \in CallRecord,
         call' = [call EXCEPT ![p] = c], UNCHANGED closed,
         closed => c.at # "wait"
  PROVE  CloseWaits'
<1>1. call \in [Procs -> CallRecord]
  BY DEF IInv, TypeOK
<1>2. ASSUME closed, NEW q \in Procs PROVE ~ Reads(q)'
  <2>1. ~ Reads(q)
    BY <1>2 DEF IInv, CloseWaits, NoReader
  <2>. QED  BY <1>1, <1>2, <2>1 DEF Reads
<1>. QED  BY <1>2 DEF CloseWaits, NoReader

LEMMA EnterStep ==
  ASSUME IInv, NEW p \in Procs, Enter(p)
  PROVE  IInv'
<1>1. /\ call \in [Procs -> CallRecord] /\ call[p] \in CallRecord /\ call[p].at = "lock"
      /\ UNCHANGED <<store, closed, metrics, begun, ticks, rewritten>>
      /\ wire \subseteq Message /\ TypeOK /\ WireOK
  BY DEF Enter, IInv, TypeOK, bounds
<1>2. LocalOK(call[p], rewritten[p], store, begun)
  BY DEF IInv
<1>3. CASE closed
  <2> DEFINE c == Ended(p, "error", None, {})
  <2>1. call' = [call EXCEPT ![p] = c] /\ tally' = Tallied(p, "error") /\ wire' = wire
    BY <1>3 DEF Enter
  <2>2. /\ c \in CallRecord
        /\ c.goal = call[p].goal /\ c.op = call[p].op /\ c.keys = call[p].keys
        /\ c.value = call[p].value /\ c.ttl = call[p].ttl /\ c.number = call[p].number
        /\ c.at = "count" /\ c.result = "error" /\ c.found = {}
    BY <1>1, EndedFits
  <2> HIDE DEF c
  <2>3. LocalOK(c, rewritten[p], store, begun)
    BY <1>1, <1>2, <2>2 DEF LocalOK, CallOK, Fits, PatternOK, Searched
  <2>4. /\ call' \in [Procs -> CallRecord]
        /\ \A q \in Procs : LocalOK(call'[q], rewritten'[q], store', begun')
    BY <1>1, <2>1, <2>2, <2>3, OneProceeds
  <2>5. TypeOK'
    BY <1>1, <2>1, <2>4, TallyType DEF TypeOK
  <2>6. CloseWaits'
    BY <1>1, <2>1, <2>2, StillWaits
  <2>. QED  BY <1>1, <2>1, <2>4, <2>5, <2>6 DEF IInv, WireOK
<1>4. CASE ~ closed
  <2> DEFINE c == [call[p] EXCEPT !.at = "wait", !.try = 0]
             m == [Command(p) EXCEPT !.try = 0]
  <2>1. call' = [call EXCEPT ![p] = c] /\ wire' = wire \cup {m} /\ tally' = tally
    BY <1>1, <1>4 DEF Enter
  <2>2. 0 \in 0..MaxRetries
    BY Constants
  <2>3. /\ c \in CallRecord
        /\ c.goal = call[p].goal /\ c.op = call[p].op /\ c.keys = call[p].keys
        /\ c.value = call[p].value /\ c.ttl = call[p].ttl /\ c.number = call[p].number
        /\ c.at = "wait"
    BY <1>1, <2>2 DEF CallRecord
  <2>4. m \in Message /\ Fits(m)
    BY <1>1, <2>2, CommandFits
  <2> HIDE DEF c, m
  <2>5. LocalOK(c, rewritten[p], store, begun)
    BY <1>1, <1>2, <2>3 DEF LocalOK, CallOK, Fits, PatternOK, Searched
  <2>6. /\ call' \in [Procs -> CallRecord]
        /\ \A q \in Procs : LocalOK(call'[q], rewritten'[q], store', begun')
    BY <1>1, <2>1, <2>3, <2>5, OneProceeds
  <2>7. TypeOK'
    BY <1>1, <2>1, <2>4, <2>6 DEF TypeOK
  <2>8. CloseWaits'
    BY <1>1, <1>4, <2>1, <2>3, StillWaits
  <2>. QED  BY <1>1, <2>1, <2>4, <2>6, <2>7, <2>8 DEF IInv, WireOK
<1>. QED  BY <1>3, <1>4

LEMMA TriesAgainStep ==
  ASSUME IInv, NEW p \in Procs, TriesAgain(p)
  PROVE  IInv'
<1> DEFINE again == call[p].try + 1
           c == [call[p] EXCEPT !.try = again]
           m == [Command(p) EXCEPT !.try = again]
<1>1. /\ call \in [Procs -> CallRecord] /\ call[p] \in CallRecord /\ call[p].at = "wait"
      /\ ~ closed /\ call[p].try < MaxRetries
      /\ call' = [call EXCEPT ![p] = c]
      /\ UNCHANGED <<store, closed, metrics, begun, ticks, rewritten, tally>>
      /\ wire \subseteq Message /\ TypeOK /\ WireOK
  BY DEF TriesAgain, IInv, TypeOK, bounds
<1>2. LocalOK(call[p], rewritten[p], store, begun)
  BY DEF IInv
<1>3. wire' \subseteq wire \cup {m}
  BY DEF TriesAgain, Leftovers, Lost
<1>4. again \in 0..MaxRetries
  <2>1. call[p].try \in 0..MaxRetries
    BY <1>1 DEF CallRecord
  <2>. QED  BY <1>1, <2>1, Constants
<1>5. /\ c \in CallRecord
      /\ c.goal = call[p].goal /\ c.op = call[p].op /\ c.keys = call[p].keys
      /\ c.value = call[p].value /\ c.ttl = call[p].ttl /\ c.number = call[p].number
      /\ c.at = "wait"
  BY <1>1, <1>4 DEF CallRecord
<1>6. m \in Message /\ Fits(m)
  BY <1>1, <1>4, CommandFits
<1> HIDE DEF c, m
<1>7. LocalOK(c, rewritten[p], store, begun)
  BY <1>1, <1>2, <1>5 DEF LocalOK, CallOK, Fits, PatternOK, Searched
<1>8. /\ call' \in [Procs -> CallRecord]
      /\ \A q \in Procs : LocalOK(call'[q], rewritten'[q], store', begun')
  BY <1>1, <1>5, <1>7, OneProceeds
<1>9. TypeOK'
  BY <1>1, <1>3, <1>6, <1>8 DEF TypeOK
<1>10. CloseWaits'
  BY <1>1, <1>5, StillWaits
<1>. QED  BY <1>1, <1>3, <1>6, <1>8, <1>9, <1>10 DEF IInv, WireOK

LEMMA GivesUpStep ==
  ASSUME IInv, NEW p \in Procs, GivesUp(p)
  PROVE  IInv'
<1> DEFINE c == Ended(p, "error", None, {})
<1>1. /\ call \in [Procs -> CallRecord] /\ call[p] \in CallRecord /\ call[p].at = "wait"
      /\ call' = [call EXCEPT ![p] = c] /\ tally' = Tallied(p, "error")
      /\ UNCHANGED <<store, closed, metrics, begun, ticks, rewritten>>
      /\ wire \subseteq Message /\ TypeOK /\ WireOK
  BY DEF GivesUp, IInv, TypeOK, bounds
<1>2. LocalOK(call[p], rewritten[p], store, begun)
  BY DEF IInv
<1>3. wire' \subseteq wire
  BY DEF GivesUp, Leftovers, Lost
<1>4. /\ c \in CallRecord
      /\ c.goal = call[p].goal /\ c.op = call[p].op /\ c.keys = call[p].keys
      /\ c.value = call[p].value /\ c.ttl = call[p].ttl /\ c.number = call[p].number
      /\ c.at = "count" /\ c.result = "error" /\ c.found = {}
  BY <1>1, EndedFits
<1> HIDE DEF c
<1>5. LocalOK(c, rewritten[p], store, begun)
  BY <1>1, <1>2, <1>4 DEF LocalOK, CallOK, Fits, PatternOK, Searched
<1>6. /\ call' \in [Procs -> CallRecord]
      /\ \A q \in Procs : LocalOK(call'[q], rewritten'[q], store', begun')
  BY <1>1, <1>4, <1>5, OneProceeds
<1>7. TypeOK'
  BY <1>1, <1>3, <1>6, TallyType DEF TypeOK
<1>8. CloseWaits'
  BY <1>1, <1>4, StillWaits
<1>. QED  BY <1>1, <1>3, <1>6, <1>7, <1>8 DEF IInv, WireOK

LEMMA ProceedStep ==
  ASSUME IInv, NEW p \in Procs, Proceed(p)
  PROVE  IInv'
<1>1. /\ call \in [Procs -> CallRecord] /\ call[p] \in CallRecord /\ call[p].at = "count"
      /\ UNCHANGED <<store, wire, closed, begun, ticks, rewritten, tally>>
      /\ TypeOK /\ WireOK /\ Count(p)
  BY DEF Proceed, IInv, TypeOK, bounds
<1>2. LocalOK(call[p], rewritten[p], store, begun)
  BY DEF IInv
<1>3. PICK c \in CallRecord :
        /\ call' = [call EXCEPT ![p] = c]
        /\ c.at = "lock" /\ LocalOK(c, rewritten[p], store, begun)
  <2>1. CASE SetsNext(p) /\ call' = [call EXCEPT ![p].op = "Set", ![p].at = "lock"]
    <3> DEFINE c == [call[p] EXCEPT !.op = "Set", !.at = "lock"]
    <3>1. call' = [call EXCEPT ![p] = c]
      BY <1>1, <2>1
    <3>2. /\ c \in CallRecord
          /\ c.goal = "GetOrSet" /\ c.op = "Set" /\ c.at = "lock"
          /\ c.ttl = call[p].ttl /\ c.value \in Values /\ c.number = call[p].number
          /\ call[p].goal = "GetOrSet"
      BY <1>1, <2>1 DEF CallRecord, SetsNext, Ops, Goals
    <3> HIDE DEF c
    <3>3. LocalOK(c, rewritten[p], store, begun)
      BY <1>1, <1>2, <3>2
      DEF LocalOK, CallOK, Fits, PatternOK, Searched
    <3>. QED  BY <3>1, <3>2, <3>3
  <2>2. CASE DeletesNext(p) /\ call' = [call EXCEPT ![p].op = "Delete",
               ![p].keys = ToDelete(p), ![p].at = "lock"]
    <3> DEFINE c == [call[p] EXCEPT !.op = "Delete", !.keys = call[p].found, !.at = "lock"]
    <3>1. call' = [call EXCEPT ![p] = c]
      BY <1>1, <2>2 DEF ToDelete
    <3>2. /\ c \in CallRecord
          /\ c.goal = "InvalidatePattern" /\ c.op = "Delete" /\ c.at = "lock"
          /\ c.keys = call[p].found /\ c.number = call[p].number
          /\ call[p].goal = "InvalidatePattern" /\ call[p].op = "Keys" /\ call[p].found # {}
      BY <1>1, <2>2 DEF CallRecord, DeletesNext, Ops, Goals
    <3> HIDE DEF c
    <3>3. call[p].result = "ok"
      BY <1>1, <1>2, <3>2 DEF LocalOK, CallOK
    <3>4. \A k \in Keys : store[k] # None => k \in rewritten[p] \/ k \in call[p].found
      BY <1>1, <1>2, <3>2, <3>3 DEF LocalOK, PatternOK, Searched
    <3>5. LocalOK(c, rewritten[p], store, begun)
      BY <1>1, <1>2, <3>2, <3>4
      DEF LocalOK, CallOK, Fits, PatternOK
    <3>. QED  BY <3>1, <3>2, <3>5
  <2>. QED  BY <2>1, <2>2 DEF Proceed
<1>4. /\ call' \in [Procs -> CallRecord]
      /\ \A q \in Procs : LocalOK(call'[q], rewritten'[q], store', begun')
  BY <1>1, <1>3, OneProceeds
<1>5. TypeOK'
  BY <1>1, <1>4, MetricsType DEF TypeOK
<1>6. CloseWaits'
  BY <1>1, <1>3, StillWaits
<1>. QED  BY <1>1, <1>4, <1>5, <1>6 DEF IInv, WireOK

(* The call of p is over.                                                  *)
LEMMA OneEnds ==
  ASSUME IInv, NEW p \in Procs,
         call' = [call EXCEPT ![p] = Idle], rewritten' = [rewritten EXCEPT ![p] = {}],
         UNCHANGED <<store, wire, begun>>
  PROVE  /\ call' \in [Procs -> CallRecord] /\ rewritten' \in [Procs -> SUBSET Keys]
         /\ \A q \in Procs : LocalOK(call'[q], rewritten'[q], store', begun')
<1>1. begun' \in begun..MaxCalls /\ begun' = begun
  BY Constants DEF IInv, TypeOK
<1>2. LocalOK(Idle, {}, store, begun')
  BY IdleFits
<1>. QED  BY <1>1, <1>2, IdleFits, OneGoesOn

LEMMA ReturnStep ==
  ASSUME IInv, NEW p \in Procs, Return(p)
  PROVE  IInv'
<1>1. /\ call' = [call EXCEPT ![p] = Idle] /\ rewritten' = [rewritten EXCEPT ![p] = {}]
      /\ UNCHANGED <<store, wire, closed, begun, ticks, tally>>
      /\ TypeOK /\ WireOK /\ Count(p)
  BY DEF Return, IInv, bounds
<1>2. /\ call' \in [Procs -> CallRecord] /\ rewritten' \in [Procs -> SUBSET Keys]
      /\ \A q \in Procs : LocalOK(call'[q], rewritten'[q], store', begun')
  BY <1>1, OneEnds
<1>3. TypeOK'
  BY <1>1, <1>2, MetricsType DEF TypeOK
<1>4. CloseWaits'
  <2>1. Idle \in CallRecord /\ Idle.at # "wait"
    BY IdleFits DEF Idle
  <2>. QED  BY <1>1, <2>1, StillWaits
<1>. QED  BY <1>1, <1>2, <1>3, <1>4 DEF IInv, WireOK

(* Nobody holds the lock when a writer has it.                             *)
LEMMA CloseStep ==
  ASSUME IInv, NEW p \in Procs, Close(p)
  PROVE  IInv'
<1>1. /\ call' = [call EXCEPT ![p] = Idle] /\ rewritten' = [rewritten EXCEPT ![p] = {}]
      /\ UNCHANGED <<store, wire, metrics, begun, ticks, tally>> /\ closed' = TRUE
      /\ TypeOK /\ WireOK /\ NoReader
  BY DEF Close, IInv, bounds
<1>2. /\ call' \in [Procs -> CallRecord] /\ rewritten' \in [Procs -> SUBSET Keys]
      /\ \A q \in Procs : LocalOK(call'[q], rewritten'[q], store', begun')
  BY <1>1, OneEnds
<1>3. TypeOK'
  BY <1>1, <1>2 DEF TypeOK
<1>4. CloseWaits'
  <2>1. Idle.at # "wait"
    BY DEF Idle
  <2>. QED  BY <1>1, <2>1 DEF CloseWaits, NoReader, Reads, TypeOK
<1>. QED  BY <1>1, <1>2, <1>3, <1>4 DEF IInv, WireOK

LEMMA ReconnectStep ==
  ASSUME IInv, NEW p \in Procs, Reconnect(p)
  PROVE  IInv'
<1> DEFINE c == [call[p] EXCEPT !.at = "stuck"]
<1>1. /\ call \in [Procs -> CallRecord] /\ call[p] \in CallRecord /\ call[p].at = "wlock"
      /\ call' = [call EXCEPT ![p] = c]
      /\ UNCHANGED <<store, wire, metrics, begun, ticks, rewritten, tally>> /\ closed' = TRUE
      /\ TypeOK /\ WireOK /\ NoReader
  BY DEF Reconnect, IInv, TypeOK, bounds
<1>2. LocalOK(call[p], rewritten[p], store, begun)
  BY DEF IInv
<1>3. /\ c \in CallRecord
      /\ c.goal = call[p].goal /\ c.op = call[p].op /\ c.keys = call[p].keys
      /\ c.value = call[p].value /\ c.ttl = call[p].ttl /\ c.number = call[p].number
      /\ c.at = "stuck"
  BY <1>1 DEF CallRecord
<1> HIDE DEF c
<1>4. LocalOK(c, rewritten[p], store, begun)
  BY <1>1, <1>2, <1>3 DEF LocalOK, CallOK, Fits, PatternOK, Searched
<1>5. /\ call' \in [Procs -> CallRecord]
      /\ \A q \in Procs : LocalOK(call'[q], rewritten'[q], store', begun')
  BY <1>1, <1>3, <1>4, OneProceeds
<1>6. TypeOK'
  BY <1>1, <1>5 DEF TypeOK
<1>7. CloseWaits'
  BY <1>1, <1>3 DEF CloseWaits, NoReader, Reads
<1>. QED  BY <1>1, <1>5, <1>6, <1>7 DEF IInv, WireOK

-----------------------------------------------------------------------------
(* What the server does.                                                   *)

(* Entries go away, or keep their values, or are those of a Set.           *)
Settles(s, m) ==
  /\ s \in [Keys -> Stored \cup {None}]
  /\ \A k \in Keys : s[k] # None =>
       \/ m.op = "Set" /\ k \in m.keys /\ s[k].value = m.value
       \/ store[k] # None /\ s[k].value = store[k].value

LEMMA AppliedSettles ==
  ASSUME IInv, NEW m \in wire
  PROVE  /\ Settles(Applied(m), m)
         /\ m.op \in {"Delete", "Flush"} => \A k \in m.keys : Applied(m)[k] = None
         /\ m.op \notin {"Set", "SetTTL", "Delete", "Flush"} => Applied(m) = store
<1>1. m \in Message /\ store \in [Keys -> Stored \cup {None}] /\ Fits(m)
  BY DEF IInv, TypeOK, WireOK
<1>2. m.keys \subseteq Keys /\ m.op \in Ops
  BY <1>1 DEF Message
<1>3. ASSUME NEW k \in Keys
      PROVE  /\ Applied(m)[k] \in Stored \cup {None}
             /\ Applied(m)[k] # None =>
                  \/ m.op = "Set" /\ k \in m.keys /\ Applied(m)[k].value = m.value
                  \/ store[k] # None /\ Applied(m)[k].value = store[k].value
  <2>1. CASE k \notin m.keys
    BY <1>1, <2>1 DEF Applied
  <2>2. CASE k \in m.keys /\ m.op = "Set"
    <3>1. m.value \in Values /\ m.ttl \in Nat \ {0}
      BY <1>1, <2>2, Constants DEF Fits
    <3>2. Applied(m)[k] = [value |-> m.value, left |-> m.ttl]
      BY <2>2 DEF Applied
    <3>. QED  BY <2>2, <3>1, <3>2 DEF Stored
  <2>3. CASE k \in m.keys /\ m.op \in {"Delete", "Flush"}
    <3>1. Applied(m)[k] = None
      BY <2>3 DEF Applied
    <3>. QED  BY <3>1
  <2>4. CASE k \in m.keys /\ m.op = "SetTTL"
    <3>1. m.ttl \in Nat \ {0}
      BY <1>1, <2>4, Constants DEF Fits
    <3>2. Applied(m)[k] = IF store[k] = None THEN None ELSE [store[k] EXCEPT !.left = m.ttl]
      BY <2>4 DEF Applied
    <3>3. store[k] # None => store[k] \in Stored
      BY <1>1
    <3>. QED  BY <3>1, <3>2, <3>3 DEF Stored
  <2>5. CASE k \in m.keys /\ m.op \notin {"Set", "SetTTL", "Delete", "Flush"}
    <3>1. Applied(m)[k] = store[k]
      BY <2>5 DEF Applied
    <3>. QED  BY <1>1, <3>1
  <2>. QED  BY <2>1, <2>2, <2>3, <2>4, <2>5
<1>4. Applied(m) \in [Keys -> Stored \cup {None}]
  BY <1>3 DEF Applied
<1>5. m.op \in {"Delete", "Flush"} => \A k \in m.keys : Applied(m)[k] = None
  BY <1>2 DEF Applied
<1>6. ASSUME m.op \notin {"Set", "SetTTL", "Delete", "Flush"} PROVE Applied(m) = store
  <2>1. \A k \in Keys : Applied(m)[k] = store[k]
    BY <1>6 DEF Applied
  <2>. QED  BY <1>1, <1>4, <2>1
<1>. QED  BY <1>3, <1>4, <1>5, <1>6 DEF Settles

(* What is noted of the calls only grows.                                  *)
LEMMA NotedGrows ==
  ASSUME IInv, NEW m \in wire, NEW p \in Procs
  PROVE  /\ Noted(m)[p] \in SUBSET Keys
         /\ rewritten[p] \subseteq Noted(m)[p]
         /\ m.op = "Set" /\ call[p].goal = "InvalidatePattern" => m.keys \subseteq Noted(m)[p]
<1>1. rewritten[p] \in SUBSET Keys /\ m.keys \in SUBSET Keys
  BY DEF IInv, TypeOK, Message
<1>. QED  BY <1>1 DEF Noted

(* Whoever waits for something else keeps what holds.                      *)
LEMMA OthersServed ==
  ASSUME IInv, NEW m \in wire, NEW p \in Procs
  PROVE  LocalOK(call[p], Noted(m)[p], Applied(m), begun)
<1> DEFINE c == call[p]
           w == Noted(m)[p]
           s == Applied(m)
<1>1. LocalOK(c, rewritten[p], store, begun)
  BY DEF IInv
<1>2. /\ rewritten[p] \subseteq w
      /\ m.op = "Set" /\ c.goal = "InvalidatePattern" => m.keys \subseteq w
  BY NotedGrows
<1>3. Settles(s, m)
  BY AppliedSettles
<1> HIDE DEF c, w, s
<1>4. CallOK(c, begun)
  BY <1>1 DEF LocalOK
<1>5. ASSUME c.goal = "InvalidatePattern", NEW k \in Keys, s[k] # None
      PROVE  k \in w \/ store[k] # None
  BY <1>2, <1>3, <1>5 DEF Settles
<1>6. PatternOK(c, w, s)
  BY <1>1, <1>2, <1>5 DEF LocalOK, PatternOK
<1>7. LocalOK(c, w, s, begun)
  BY <1>4, <1>6 DEF LocalOK
<1>. QED  BY <1>7 DEF c, w, s

(* The value of a reply is one that is stored.                             *)
LEMMA GotTyped ==
  ASSUME IInv, NEW m \in wire
  PROVE  Got(m) \in Values \cup {None}
<1>1. m.keys \subseteq Keys /\ store \in [Keys -> Stored \cup {None}] /\ Fits(m)
  BY DEF IInv, TypeOK, WireOK, Message
<1>2. SUFFICES ASSUME Hit(m) PROVE store[CHOOSE k \in m.keys : TRUE].value \in Values
  BY DEF Got
<1>3. m.op = "Get" /\ Present(m.keys) # {}
  BY <1>2 DEF Hit
<1>4. PICK k \in Keys : m.keys = {k}
  BY <1>1, <1>3 DEF Fits
<1>5. (CHOOSE j \in m.keys : TRUE) = k /\ store[k] # None
  BY <1>3, <1>4 DEF Present
<1>. QED  BY <1>1, <1>5 DEF Stored

(* The reply to the command that is awaited.                               *)
LEMMA AwaitedServed ==
  ASSUME IInv, NEW m \in wire, Awaited(m)
  PROVE  LET c == Ended(m.who, ResultOf(m), Got(m), Present(m.keys)) IN
         /\ m.who \in Procs /\ c \in CallRecord /\ c.at = "count"
         /\ LocalOK(c, Noted(m)[m.who], Applied(m), begun)
<1> DEFINE p == m.who
           c == Ended(p, ResultOf(m), Got(m), Present(m.keys))
           w == Noted(m)[p]
           s == Applied(m)
<1>1. /\ m \in Message /\ p \in Procs /\ Fits(m) /\ m.keys \subseteq Keys
      /\ call \in [Procs -> CallRecord] /\ call[p] \in CallRecord
      /\ store \in [Keys -> Stored \cup {None}]
  BY DEF IInv, TypeOK, WireOK, Message
<1>2. call[p].at = "wait" /\ m = Command(p)
  BY DEF Awaited
<1>3. /\ m.op = call[p].op /\ m.keys = call[p].keys /\ m.number = call[p].number
  BY <1>2 DEF Command
<1>4. ResultOf(m) \in {"ok", "miss"} /\ (m.op # "Get" => ResultOf(m) = "ok")
  BY DEF ResultOf
<1>5. Present(m.keys) \in SUBSET Keys
  BY <1>1 DEF Present
<1>6. Got(m) \in Values \cup {None}
  BY GotTyped
<1>7. /\ c \in CallRecord
      /\ c.goal = call[p].goal /\ c.op = m.op /\ c.keys = m.keys
      /\ c.value = call[p].value /\ c.ttl = call[p].ttl /\ c.number = call[p].number
      /\ c.at = "count" /\ c.result = ResultOf(m) /\ c.got = Got(m)
      /\ c.found = Present(m.keys)
  BY <1>1, <1>3, <1>4, <1>5, <1>6, EndedFits
<1>8. LocalOK(call[p], rewritten[p], store, begun) /\ LocalOK(call[p], w, s, begun)
  BY <1>1, OthersServed DEF IInv
<1>9. /\ m.op \in {"Delete", "Flush"} => \A k \in m.keys : s[k] = None
      /\ m.op \notin {"Set", "SetTTL", "Delete", "Flush"} => s = store
  BY AppliedSettles
<1> HIDE DEF c, w, s, p
<1>10. CallOK(c, begun)
  BY <1>2, <1>3, <1>4, <1>7, <1>8 DEF LocalOK, CallOK, Fits
<1>11. PatternOK(c, w, s)
  <2>1. SUFFICES ASSUME c.goal = "InvalidatePattern", NEW k \in Keys, s[k] # None
                 PROVE  \/ k \in w
                        \/ c.op = "Keys" /\ k \in c.found
    BY DEF PatternOK
  <2>2. call[p].goal = "InvalidatePattern" /\ c.op = call[p].op
    BY <1>3, <1>7, <2>1
  <2>3. c.op \in {"Keys", "Delete"}
    BY <1>10, <2>1 DEF CallOK
  <2>4. CASE c.op = "Keys"
    <3>1. s = store /\ m.keys = Keys
      BY <1>1, <1>7, <1>9, <2>4 DEF Fits
    <3>. QED  BY <1>7, <2>1, <2>4, <3>1 DEF Present
  <2>5. CASE c.op = "Delete"
    <3>1. k \notin call[p].keys
      BY <1>3, <1>7, <1>9, <2>1, <2>5
    <3>2. Searched(call[p]) /\ call[p].op = "Delete"
      BY <1>2, <2>2, <2>5 DEF Searched
    <3>. QED  BY <1>8, <2>1, <2>2, <3>1, <3>2 DEF LocalOK, PatternOK
  <2>. QED  BY <2>3, <2>4, <2>5
<1>12. LocalOK(c, w, s, begun)
  BY <1>10, <1>11 DEF LocalOK
<1>. QED  BY <1>1, <1>7, <1>12 DEF c, w, s, p

LEMMA ServeStep ==
  ASSUME IInv, NEW m \in wire, Serve(m)
  PROVE  IInv'
<1> DEFINE c == Ended(m.who, ResultOf(m), Got(m), Present(m.keys))
<1>1. /\ store' = Applied(m) /\ wire' = wire \ {m} /\ rewritten' = Noted(m)
      /\ call' = IF Awaited(m) THEN [call EXCEPT ![m.who] = c] ELSE call
      /\ tally' = IF Awaited(m) THEN Tallied(m.who, ResultOf(m)) ELSE tally
      /\ UNCHANGED <<closed, metrics, begun, ticks>>
  BY DEF Serve, bounds
<1>2. /\ call \in [Procs -> CallRecord] /\ TypeOK /\ WireOK /\ CloseWaits
      /\ m.who \in Procs
  BY DEF IInv, TypeOK, Message
<1>3. Awaited(m) => /\ c \in CallRecord /\ c.at = "count"
                    /\ LocalOK(c, Noted(m)[m.who], Applied(m), begun)
  BY AwaitedServed
<1> HIDE DEF c
<1>4. call' \in [Procs -> CallRecord]
  BY <1>1, <1>2, <1>3
<1>5. ASSUME NEW p \in Procs
      PROVE  LocalOK(call'[p], rewritten'[p], store', begun') /\ (Reads(p)' => Reads(p))
  <2>1. CASE call'[p] = call[p]
    <3>1. LocalOK(call[p], Noted(m)[p], Applied(m), begun)
      BY OthersServed
    <3>. QED  BY <1>1, <2>1, <3>1 DEF Reads
  <2>2. CASE call'[p] # call[p]
    <3>1. Awaited(m) /\ p = m.who /\ call'[p] = c
      BY <1>1, <1>2, <2>2
    <3>. QED  BY <1>1, <1>3, <3>1 DEF Reads
  <2>. QED  BY <2>1, <2>2
<1>6. store' \in [Keys -> Stored \cup {None}]
  BY <1>1, AppliedSettles DEF Settles
<1>7. rewritten' \in [Procs -> SUBSET Keys]
  <2>1. \A p \in Procs : Noted(m)[p] \in SUBSET Keys
    BY NotedGrows
  <2>. QED  BY <1>1, <2>1 DEF Noted
<1>8. tally' \in [answered : Nat, failed : Nat, failedGets : Nat]
  BY <1>1, <1>2, TallyType DEF TypeOK
<1>9. TypeOK'
  BY <1>1, <1>2, <1>4, <1>6, <1>7, <1>8 DEF TypeOK
<1>10. CloseWaits' /\ WireOK'
  BY <1>1, <1>2, <1>5 DEF CloseWaits, NoReader, WireOK
<1>. QED  BY <1>5, <1>9, <1>10 DEF IInv

LEMMA TickStep ==
  ASSUME IInv, Tick
  PROVE  IInv'
<1>1. /\ store' = [k \in Keys |->
            IF store[k] = None \/ store[k].left <= 1 THEN None
            ELSE [store[k] EXCEPT !.left = @ - 1]]
      /\ ticks' = ticks + 1 /\ ticks < MaxTicks
      /\ UNCHANGED <<wire, closed, call, metrics, begun, rewritten, tally>>
      /\ store \in [Keys -> Stored \cup {None}] /\ TypeOK
  BY DEF Tick, IInv, TypeOK
<1>2. ASSUME NEW k \in Keys
      PROVE  /\ store'[k] \in Stored \cup {None}
             /\ store'[k] # None => store[k] # None /\ store'[k].value = store[k].value
  <2>1. CASE store[k] = None \/ store[k].left <= 1
    BY <1>1, <2>1
  <2>2. CASE store[k] # None /\ ~ (store[k].left <= 1)
    <3>1. store[k] \in Stored
      BY <1>1, <2>2
    <3>2. store'[k] = [store[k] EXCEPT !.left = store[k].left - 1]
      BY <1>1, <2>2
    <3>3. store[k].left - 1 \in Nat \ {0}
      BY <2>2, <3>1 DEF Stored
    <3>. QED  BY <2>2, <3>1, <3>2, <3>3 DEF Stored
  <2>. QED  BY <2>1, <2>2
<1>3. store' \in [Keys -> Stored \cup {None}]
  BY <1>1, <1>2
<1>4. ASSUME NEW p \in Procs PROVE LocalOK(call[p], rewritten[p], store', begun)
  <2>1. LocalOK(call[p], rewritten[p], store, begun)
    BY DEF IInv
  <2>. QED  BY <1>2, <2>1 DEF LocalOK, PatternOK
<1>5. TypeOK'
  BY <1>1, <1>3, Constants, BoundsAssumption DEF TypeOK
<1>. QED  BY <1>1, <1>4, <1>5 DEF IInv, WireOK, CloseWaits, NoReader, Reads

-----------------------------------------------------------------------------
(* The theorems.                                                           *)

LEMMA InitOK == Init => IInv
<1>1. SUFFICES ASSUME Init PROVE IInv
  OBVIOUS
<1>2. Entry \cup {None} \subseteq Stored \cup {None}
  BY Constants DEF Entry, Stored
<1>3. store \in [Keys -> Stored \cup {None}]
  BY <1>1, <1>2 DEF Init
<1>4. \A p \in Procs : call[p] = Idle /\ rewritten[p] = {}
  BY <1>1 DEF Init
<1>5. \A p \in Procs : LocalOK(call[p], rewritten[p], store, begun)
  BY <1>4, IdleFits
<1>6. TypeOK
  <2>1. call \in [Procs -> CallRecord] /\ rewritten \in [Procs -> SUBSET Keys]
    BY <1>1, IdleFits DEF Init
  <2>2. metrics \in [Counters -> Nat] /\ wire \subseteq Message /\ closed \in BOOLEAN
    BY <1>1 DEF Init, NoMetrics
  <2>3. tally \in [answered : Nat, failed : Nat, failedGets : Nat]
    BY <1>1 DEF Init, NoTally
  <2>4. begun \in 0..MaxCalls /\ ticks \in 0..MaxTicks
    BY <1>1, BoundsAssumption DEF Init
  <2>. QED  BY <1>3, <2>1, <2>2, <2>3, <2>4 DEF TypeOK
<1>7. WireOK /\ CloseWaits
  BY <1>1 DEF Init, WireOK, CloseWaits
<1>. QED  BY <1>5, <1>6, <1>7 DEF IInv

LEMMA NextOK == IInv /\ [Next]_vars => IInv'
<1>1. SUFFICES ASSUME IInv, [Next]_vars PROVE IInv'
  OBVIOUS
<1>2. ASSUME NEW p \in Procs, Step(p) PROVE IInv'
  BY <1>1, <1>2, EnterStep, TriesAgainStep, GivesUpStep, ProceedStep, ReturnStep,
    CloseStep, ReconnectStep DEF Step
<1>3. ASSUME NEW p \in Procs, NEW r \in Requests, Begin(p, r) PROVE IInv'
  BY <1>1, <1>3, BeginStep
<1>4. ASSUME NEW m \in wire, Serve(m) PROVE IInv'
  BY <1>1, <1>4, ServeStep
<1>5. CASE Tick
  BY <1>1, <1>5, TickStep
<1>6. CASE UNCHANGED vars
  BY <1>1, <1>6 DEF vars, IInv, TypeOK, WireOK, CloseWaits, NoReader, Reads
<1>. QED  BY <1>1, <1>2, <1>3, <1>4, <1>5, <1>6 DEF Next

(* What holds in every state of the cache.                                 *)
THEOREM InductiveInvariant == Spec => []IInv
BY InitOK, NextOK, PTL DEF Spec

(* Every variable has its type.                                            *)
THEOREM TypeCorrect == Spec => []TypeOK
BY InductiveInvariant, PTL DEF IInv

(* Close and Reconnect have waited for the commands under the lock         *)
(* (client.go:324-360).                                                    *)
THEOREM CloseIsExclusive == Spec => []CloseWaits
BY InductiveInvariant, PTL DEF IInv

(* InvalidatePattern leaves only what was written meanwhile                *)
(* (service.go:301-320).                                                   *)
THEOREM InvalidationCorrect == Spec => []InvalidateClears
<1>1. ASSUME IInv PROVE InvalidateClears
  <2>1. SUFFICES ASSUME NEW p \in Procs, Finished(p), call[p].goal = "InvalidatePattern",
                        call[p].result = "ok", NEW k \in Keys, store[k] # None
                 PROVE  k \in rewritten[p]
    BY DEF InvalidateClears
  <2>2. LocalOK(call[p], rewritten[p], store, begun)
    BY <1>1 DEF IInv
  <2>3. call[p].at = "count" /\ ~ (call[p].op = "Keys" /\ call[p].found # {})
    BY <2>1 DEF Finished, DeletesNext
  <2>4. Searched(call[p])
    BY <2>1, <2>2, <2>3 DEF LocalOK, CallOK, Searched
  <2>. QED  BY <2>1, <2>2, <2>3, <2>4 DEF LocalOK, PatternOK
<1>. QED  BY <1>1, InductiveInvariant, PTL

-----------------------------------------------------------------------------
(* The counters.  The operations that ended and are not counted yet make   *)
(* up the difference between what is counted and what happened.            *)

Failed(c) == c.at = "count" /\ "errors" \in Incremented(c.op, c.result)
FailedGet(c) == c.at = "count" /\ c.op = "Get" /\ c.result = "error"
Answered(c) == c.at = "count" /\ c.op \notin {"Keys", "Ping"} /\ c.result # "error"

CountOK(c) ==
  c.at = "count" => c.result \in {"ok", "miss", "error"} /\ (c.result = "miss" => c.op = "Get")

FailedCalls == {p \in Procs : Failed(call[p])}
FailedGets == {p \in Procs : FailedGet(call[p])}
AnsweredCalls == {p \in Procs : Answered(call[p])}

Balanced ==
  /\ \A p \in Procs : CountOK(call[p])
  /\ metrics["errors"] + Cardinality(FailedCalls) = tally.failed
  /\ metrics["hits"] + metrics["misses"] + metrics["operations"]
       + Cardinality(AnsweredCalls) + Cardinality(FailedGets)
       = tally.answered + tally.failedGets
  /\ metrics["misses"] + Cardinality(FailedGets) >= tally.failedGets

One(b) == IF b THEN 1 ELSE 0

LEMMA Sizes ==
  /\ Cardinality(FailedCalls) \in Nat
  /\ Cardinality(FailedGets) \in Nat
  /\ Cardinality(AnsweredCalls) \in Nat
<1>1. FailedCalls \subseteq Procs /\ FailedGets \subseteq Procs /\ AnsweredCalls \subseteq Procs
  BY DEF FailedCalls, FailedGets, AnsweredCalls
<1>. QED  BY <1>1, ProcsAssumption, FS_Subset, FS_CardinalityType

LEMMA SizesNext ==
  (/\ Cardinality(FailedCalls) \in Nat
   /\ Cardinality(FailedGets) \in Nat
   /\ Cardinality(AnsweredCalls) \in Nat)'
BY Sizes, PTL

(* Two sets that differ at most in p.                                      *)
LEMMA OneMoves ==
  ASSUME NEW S, NEW T, NEW p, IsFiniteSet(S),
         \A q : q # p => (q \in S <=> q \in T)
  PROVE  Cardinality(T) + One(p \in S) = Cardinality(S) + One(p \in T)
<1> DEFINE R == S \ {p}
<1>1. IsFiniteSet(R)
  BY FS_Subset
<1>2. p \notin R
  OBVIOUS
<1>3. /\ S = IF p \in S THEN R \cup {p} ELSE R
      /\ T = IF p \in T THEN R \cup {p} ELSE R
  OBVIOUS
<1> HIDE DEF R
<1>4. Cardinality(R) \in Nat /\ Cardinality(R \cup {p}) = Cardinality(R) + 1
  BY <1>1, <1>2, FS_AddElement, FS_CardinalityType
<1>. QED  BY <1>3, <1>4 DEF One

(* The call of p goes on to c.                                             *)
LEMMA SizesMove ==
  ASSUME IInv, NEW p \in Procs, NEW c, call' = [call EXCEPT ![p] = c]
  PROVE  /\ Cardinality(FailedCalls)' + One(Failed(call[p]))
              = Cardinality(FailedCalls) + One(Failed(c))
         /\ Cardinality(FailedGets)' + One(FailedGet(call[p]))
              = Cardinality(FailedGets) + One(FailedGet(c))
         /\ Cardinality(AnsweredCalls)' + One(Answered(call[p]))
              = Cardinality(AnsweredCalls) + One(Answered(c))
<1>1. call'[p] = c /\ \A q \in Procs : q # p => call'[q] = call[q]
  BY DEF IInv, TypeOK
<1>2. /\ IsFiniteSet(FailedCalls) /\ IsFiniteSet(FailedGets) /\ IsFiniteSet(AnsweredCalls)
  <2>1. /\ FailedCalls \subseteq Procs /\ FailedGets \subseteq Procs
        /\ AnsweredCalls \subseteq Procs
    BY DEF FailedCalls, FailedGets, AnsweredCalls
  <2>. QED  BY <2>1, ProcsAssumption, FS_Subset
<1>3. Cardinality(FailedCalls') + One(Failed(call[p])) = Cardinality(FailedCalls) + One(Failed(c))
  <2>1. \A q \in Procs : Failed(call[q])' = Failed(call'[q])
    BY DEF Failed
  <2>2. /\ \A q : q # p => (q \in FailedCalls <=> q \in FailedCalls')
        /\ p \in FailedCalls <=> Failed(call[p])
        /\ p \in FailedCalls' <=> Failed(c)
    BY <1>1, <2>1 DEF FailedCalls
  <2>. QED  BY <1>2, <2>2, OneMoves DEF One
<1>4. Cardinality(FailedGets') + One(FailedGet(call[p])) = Cardinality(FailedGets) + One(FailedGet(c))
  <2>1. /\ \A q : q # p => (q \in FailedGets <=> q \in FailedGets')
        /\ p \in FailedGets <=> FailedGet(call[p])
        /\ p \in FailedGets' <=> FailedGet(c)
    BY <1>1 DEF FailedGets, FailedGet
  <2>. QED  BY <1>2, <2>1, OneMoves DEF One
<1>5. Cardinality(AnsweredCalls') + One(Answered(call[p])) = Cardinality(AnsweredCalls) + One(Answered(c))
  <2>1. /\ \A q : q # p => (q \in AnsweredCalls <=> q \in AnsweredCalls')
        /\ p \in AnsweredCalls <=> Answered(call[p])
        /\ p \in AnsweredCalls' <=> Answered(c)
    BY <1>1 DEF AnsweredCalls, Answered
  <2>. QED  BY <1>2, <2>1, OneMoves DEF One
<1>. QED  BY <1>3, <1>4, <1>5

LEMMA OnesMove ==
  ASSUME IInv, NEW p \in Procs, NEW c, call' = [call EXCEPT ![p] = c],
         CountOK(c), Balanced
  PROVE  \A q \in Procs : CountOK(call[q])'
BY DEF IInv, TypeOK, Balanced, CountOK

(* Nothing is counted, and nothing ends.                                   *)
LEMMA NothingCounts ==
  ASSUME IInv, Balanced, NEW p \in Procs, NEW c, call' = [call EXCEPT ![p] = c],
         call[p].at # "count", c.at # "count", UNCHANGED <<metrics, tally>>
  PROVE  Balanced'
<1>1. /\ Cardinality(FailedCalls)' = Cardinality(FailedCalls)
      /\ Cardinality(FailedGets)' = Cardinality(FailedGets)
      /\ Cardinality(AnsweredCalls)' = Cardinality(AnsweredCalls)
  <2>1. /\ One(Failed(call[p])) = 0 /\ One(FailedGet(call[p])) = 0
        /\ One(Answered(call[p])) = 0
        /\ One(Failed(c)) = 0 /\ One(FailedGet(c)) = 0 /\ One(Answered(c)) = 0
    BY DEF Failed, FailedGet, Answered, One
  <2>2. /\ Cardinality(FailedCalls)' + One(Failed(call[p]))
             = Cardinality(FailedCalls) + One(Failed(c))
        /\ Cardinality(FailedGets)' + One(FailedGet(call[p]))
             = Cardinality(FailedGets) + One(FailedGet(c))
        /\ Cardinality(AnsweredCalls)' + One(Answered(call[p]))
             = Cardinality(AnsweredCalls) + One(Answered(c))
    BY SizesMove
  <2>. QED  BY <2>1, <2>2, Sizes, SizesNext
<1>2. CountOK(c)
  BY DEF CountOK
<1>. QED  BY <1>1, <1>2, OnesMove DEF Balanced

(* An operation of p ends.                                                 *)
LEMMA EndsBalanced ==
  ASSUME IInv, Balanced, NEW p \in Procs, NEW result \in {"ok", "miss", "error"},
         NEW got \in Values \cup {None}, NEW found \in SUBSET Keys,
         call' = [call EXCEPT ![p] = Ended(p, result, got, found)],
         call[p].at # "count", result = "miss" => call[p].op = "Get",
         tally' = Tallied(p, result), UNCHANGED metrics
  PROVE  Balanced'
<1> DEFINE c == Ended(p, result, got, found)
           op == call[p].op
<1>1. c.op = op /\ c.at = "count" /\ c.result = result
  BY EndedFits DEF IInv, TypeOK
<1> HIDE DEF c
<1>2. ~ Failed(call[p]) /\ ~ FailedGet(call[p]) /\ ~ Answered(call[p])
  BY DEF Failed, FailedGet, Answered
<1>3. /\ Failed(c) <=> op \notin {"Keys", "Ping"} /\ result = "error"
      /\ FailedGet(c) <=> op = "Get" /\ result = "error"
      /\ Answered(c) <=> op \notin {"Keys", "Ping"} /\ result # "error"
  BY <1>1 DEF Failed, FailedGet, Answered, Incremented
<1>4. /\ tally.answered \in Nat /\ tally.failed \in Nat /\ tally.failedGets \in Nat
      /\ tally'.answered = tally.answered + One(Answered(c))
      /\ tally'.failed = tally.failed + One(Failed(c))
      /\ tally'.failedGets = tally.failedGets + One(FailedGet(c))
  <2>1. tally \in [answered : Nat, failed : Nat, failedGets : Nat]
    BY DEF IInv, TypeOK
  <2>2. CASE op \in {"Keys", "Ping"}
    BY <1>3, <2>1, <2>2 DEF Tallied, One
  <2>3. CASE op \notin {"Keys", "Ping"} /\ result # "error"
    <3>1. tally' = [tally EXCEPT !.answered = @ + 1]
      BY <2>3 DEF Tallied
    <3>2. One(Answered(c)) = 1 /\ One(Failed(c)) = 0 /\ One(FailedGet(c)) = 0
      BY <1>3, <2>3 DEF One
    <3>. QED  BY <2>1, <3>1, <3>2
  <2>4. CASE op \notin {"Keys", "Ping"} /\ result = "error"
    <3>1. tally' = [tally EXCEPT !.failed = @ + 1,
                                 !.failedGets = IF op = "Get" THEN @ + 1 ELSE @]
      BY <2>4 DEF Tallied
    <3>2. /\ One(Answered(c)) = 0 /\ One(Failed(c)) = 1
          /\ One(FailedGet(c)) = IF op = "Get" THEN 1 ELSE 0
      BY <1>3, <2>4 DEF One
    <3>. QED  BY <2>1, <3>1, <3>2
  <2>. QED  BY <2>2, <2>3, <2>4
<1>5. /\ One(Failed(call[p])) = 0 /\ One(FailedGet(call[p])) = 0
      /\ One(Answered(call[p])) = 0
      /\ One(Failed(c)) \in Nat /\ One(FailedGet(c)) \in Nat /\ One(Answered(c)) \in Nat
  BY <1>2 DEF One
<1>6. /\ Cardinality(FailedCalls)' = Cardinality(FailedCalls) + One(Failed(c))
      /\ Cardinality(FailedGets)' = Cardinality(FailedGets) + One(FailedGet(c))
      /\ Cardinality(AnsweredCalls)' = Cardinality(AnsweredCalls) + One(Answered(c))
  <2>1. /\ Cardinality(FailedCalls)' + One(Failed(call[p]))
             = Cardinality(FailedCalls) + One(Failed(c))
        /\ Cardinality(FailedGets)' + One(FailedGet(call[p]))
             = Cardinality(FailedGets) + One(FailedGet(c))
        /\ Cardinality(AnsweredCalls)' + One(Answered(call[p]))
             = Cardinality(AnsweredCalls) + One(Answered(c))
    BY SizesMove DEF c
  <2>. QED  BY <1>5, <2>1, Sizes, SizesNext
<1>7. CountOK(c)
  BY <1>1 DEF CountOK
<1>8. metrics \in [Counters -> Nat]
  BY DEF IInv, TypeOK
<1>9. /\ metrics["errors"] \in Nat /\ metrics["hits"] \in Nat
      /\ metrics["misses"] \in Nat /\ metrics["operations"] \in Nat
  BY <1>8 DEF Counters
<1>10. \A q \in Procs : CountOK(call[q])'
  BY <1>7, OnesMove DEF c
<1>11. /\ metrics'["errors"] + Cardinality(FailedCalls)' = tally'.failed
       /\ metrics'["hits"] + metrics'["misses"] + metrics'["operations"]
            + Cardinality(AnsweredCalls)' + Cardinality(FailedGets)'
            = tally'.answered + tally'.failedGets
       /\ metrics'["misses"] + Cardinality(FailedGets)' >= tally'.failedGets
  <2>1. /\ metrics["errors"] + Cardinality(FailedCalls) = tally.failed
        /\ metrics["hits"] + metrics["misses"] + metrics["operations"]
             + Cardinality(AnsweredCalls) + Cardinality(FailedGets)
             = tally.answered + tally.failedGets
        /\ metrics["misses"] + Cardinality(FailedGets) >= tally.failedGets
    BY DEF Balanced
  <2>. QED  BY <2>1, <1>4, <1>5, <1>6, <1>9, Sizes
<1>. QED  BY <1>10, <1>11 DEF Balanced

(* An operation of p is counted.                                           *)
LEMMA CountsBalanced ==
  ASSUME IInv, Balanced, NEW p \in Procs, NEW c, call' = [call EXCEPT ![p] = c],
         call[p].at = "count", c.at # "count", Count(p), UNCHANGED tally
  PROVE  Balanced'
<1> DEFINE op == call[p].op
           result == call[p].result
           I == Incremented(op, result)
<1>1. result \in {"ok", "miss", "error"} /\ (result = "miss" => op = "Get")
  BY DEF Balanced, CountOK
<1>2. ~ Failed(c) /\ ~ FailedGet(c) /\ ~ Answered(c)
  BY DEF Failed, FailedGet, Answered
<1>3. /\ One(Failed(c)) = 0 /\ One(FailedGet(c)) = 0 /\ One(Answered(c)) = 0
      /\ One(Failed(call[p])) \in Nat /\ One(FailedGet(call[p])) \in Nat
      /\ One(Answered(call[p])) \in Nat
  BY <1>2 DEF One
<1>4. /\ Cardinality(FailedCalls) = Cardinality(FailedCalls)' + One(Failed(call[p]))
      /\ Cardinality(FailedGets) = Cardinality(FailedGets)' + One(FailedGet(call[p]))
      /\ Cardinality(AnsweredCalls) = Cardinality(AnsweredCalls)' + One(Answered(call[p]))
  <2>1. /\ Cardinality(FailedCalls)' + One(Failed(call[p]))
             = Cardinality(FailedCalls) + One(Failed(c))
        /\ Cardinality(FailedGets)' + One(FailedGet(call[p]))
             = Cardinality(FailedGets) + One(FailedGet(c))
        /\ Cardinality(AnsweredCalls)' + One(Answered(call[p]))
             = Cardinality(AnsweredCalls) + One(Answered(c))
    BY SizesMove
  <2>. QED  BY <1>3, <2>1, Sizes, SizesNext
<1>5. metrics \in [Counters -> Nat]
  BY DEF IInv, TypeOK
<1>6. /\ metrics["errors"] \in Nat /\ metrics["hits"] \in Nat
      /\ metrics["misses"] \in Nat /\ metrics["operations"] \in Nat
  BY <1>5 DEF Counters
<1>7. \A k \in Counters : metrics'[k] = metrics[k] + One(k \in I)
  BY DEF Count, One
<1>8. /\ metrics'["errors"] = metrics["errors"] + One("errors" \in I)
      /\ metrics'["hits"] = metrics["hits"] + One("hits" \in I)
      /\ metrics'["misses"] = metrics["misses"] + One("misses" \in I)
      /\ metrics'["operations"] = metrics["operations"] + One("operations" \in I)
  BY <1>7 DEF Counters
<1>9. /\ One("errors" \in I) = One(Failed(call[p]))
      /\ One("hits" \in I) + One("misses" \in I) + One("operations" \in I)
           = One(Answered(call[p])) + One(FailedGet(call[p]))
      /\ One("misses" \in I) >= One(FailedGet(call[p]))
      /\ One("hits" \in I) \in Nat /\ One("misses" \in I) \in Nat
      /\ One("operations" \in I) \in Nat
  BY <1>1 DEF Failed, FailedGet, Answered, Incremented, One
<1>10. \A q \in Procs : CountOK(call[q])'
  <2>1. CountOK(c)
    BY DEF CountOK
  <2>. QED  BY <2>1, OnesMove
<1>11. tally \in [answered : Nat, failed : Nat, failedGets : Nat]
  BY DEF IInv, TypeOK
<1> HIDE DEF I
<1>12. /\ metrics'["errors"] + Cardinality(FailedCalls)' = tally'.failed
       /\ metrics'["hits"] + metrics'["misses"] + metrics'["operations"]
            + Cardinality(AnsweredCalls)' + Cardinality(FailedGets)'
            = tally'.answered + tally'.failedGets
       /\ metrics'["misses"] + Cardinality(FailedGets)' >= tally'.failedGets
  <2>1. /\ metrics["errors"] + Cardinality(FailedCalls) = tally.failed
        /\ metrics["hits"] + metrics["misses"] + metrics["operations"]
             + Cardinality(AnsweredCalls) + Cardinality(FailedGets)
             = tally.answered + tally.failedGets
        /\ metrics["misses"] + Cardinality(FailedGets) >= tally.failedGets
    BY DEF Balanced
  <2>. QED  BY <2>1, <1>3, <1>4, <1>6, <1>8, <1>9, <1>11, Sizes, SizesNext
<1>. QED  BY <1>10, <1>12 DEF Balanced

LEMMA InitBalanced == Init => Balanced
<1>1. SUFFICES ASSUME Init PROVE Balanced
  OBVIOUS
<1>2. \A p \in Procs : call[p].at = "idle"
  BY <1>1 DEF Init, Idle
<1>3. FailedCalls = {} /\ FailedGets = {} /\ AnsweredCalls = {}
  BY <1>2 DEF FailedCalls, FailedGets, AnsweredCalls, Failed, FailedGet, Answered
<1>4. /\ metrics["errors"] = 0 /\ metrics["hits"] = 0
      /\ metrics["misses"] = 0 /\ metrics["operations"] = 0
      /\ tally.answered = 0 /\ tally.failed = 0 /\ tally.failedGets = 0
  BY <1>1 DEF Init, NoMetrics, Counters, NoTally
<1>. QED  BY <1>2, <1>3, <1>4, FS_EmptySet DEF Balanced, CountOK

LEMMA NextBalanced == IInv /\ Balanced /\ [Next]_vars => Balanced'
<1>1. SUFFICES ASSUME IInv, Balanced, [Next]_vars PROVE Balanced'
  OBVIOUS
<1>2. call \in [Procs -> CallRecord]
  BY <1>1 DEF IInv, TypeOK
<1>3. ASSUME NEW p \in Procs, Enter(p) PROVE Balanced'
  <2>1. CASE closed
    <3>1. /\ call' = [call EXCEPT ![p] = Ended(p, "error", None, {})]
          /\ tally' = Tallied(p, "error") /\ UNCHANGED metrics /\ call[p].at # "count"
      BY <1>3, <2>1 DEF Enter
    <3>2. "error" \in {"ok", "miss", "error"} /\ "error" # "miss"
          /\ None \in Values \cup {None} /\ {} \in SUBSET Keys
      OBVIOUS
    <3>. QED  BY <1>1, <3>1, <3>2, EndsBalanced
  <2>2. CASE ~ closed
    <3> DEFINE c == [call[p] EXCEPT !.at = "wait", !.try = 0]
    <3>1. /\ call' = [call EXCEPT ![p] = c] /\ UNCHANGED <<metrics, tally>>
          /\ call[p].at # "count"
      BY <1>2, <1>3, <2>2 DEF Enter
    <3>2. c.at # "count"
      BY <1>2 DEF CallRecord
    <3> HIDE DEF c
    <3>. QED  BY <1>1, <3>1, <3>2, NothingCounts
  <2>. QED  BY <2>1, <2>2
<1>4. ASSUME NEW p \in Procs, TriesAgain(p) PROVE Balanced'
  <2> DEFINE c == [call[p] EXCEPT !.try = call[p].try + 1]
  <2>1. /\ call' = [call EXCEPT ![p] = c] /\ UNCHANGED <<metrics, tally>>
        /\ call[p].at = "wait"
    BY <1>2, <1>4 DEF TriesAgain
  <2>2. c.at = "wait"
    BY <1>2, <2>1 DEF CallRecord
  <2> HIDE DEF c
  <2>. QED  BY <1>1, <2>1, <2>2, NothingCounts
<1>5. ASSUME NEW p \in Procs, GivesUp(p) PROVE Balanced'
  <2>1. /\ call' = [call EXCEPT ![p] = Ended(p, "error", None, {})]
        /\ tally' = Tallied(p, "error") /\ UNCHANGED metrics /\ call[p].at # "count"
    BY <1>5 DEF GivesUp
  <2>2. "error" \in {"ok", "miss", "error"} /\ "error" # "miss"
        /\ None \in Values \cup {None} /\ {} \in SUBSET Keys
    OBVIOUS
  <2>. QED  BY <1>1, <2>1, <2>2, EndsBalanced
<1>6. ASSUME NEW p \in Procs, Proceed(p) PROVE Balanced'
  <2>1. call[p].at = "count" /\ Count(p) /\ UNCHANGED tally
    BY <1>6 DEF Proceed
  <2>2. PICK c : call' = [call EXCEPT ![p] = c] /\ c.at = "lock"
    <3>1. CASE call' = [call EXCEPT ![p].op = "Set", ![p].at = "lock"]
      <4>1. call' = [call EXCEPT ![p] = [call[p] EXCEPT !.op = "Set", !.at = "lock"]]
        BY <1>2, <3>1
      <4>2. [call[p] EXCEPT !.op = "Set", !.at = "lock"].at = "lock"
        BY <1>2 DEF CallRecord
      <4>. QED  BY <4>1, <4>2
    <3>2. CASE call' = [call EXCEPT ![p].op = "Delete", ![p].keys = ToDelete(p),
                                    ![p].at = "lock"]
      <4> DEFINE c == [call[p] EXCEPT !.op = "Delete", !.keys = ToDelete(p), !.at = "lock"]
      <4>1. call' = [call EXCEPT ![p] = c]
        BY <1>2, <3>2
      <4>2. c.at = "lock"
        BY <1>2 DEF CallRecord
      <4>. QED  BY <4>1, <4>2
    <3>. QED  BY <1>6, <3>1, <3>2 DEF Proceed
  <2>. QED  BY <1>1, <2>1, <2>2, CountsBalanced
<1>7. Idle.at = "idle"
  BY DEF Idle
<1>8. ASSUME NEW p \in Procs, Return(p) PROVE Balanced'
  <2>1. /\ call[p].at = "count" /\ Count(p) /\ UNCHANGED tally
        /\ call' = [call EXCEPT ![p] = Idle]
    BY <1>8 DEF Return, Finished
  <2>. QED  BY <1>1, <1>7, <2>1, CountsBalanced
<1>9. ASSUME NEW p \in Procs, Close(p) PROVE Balanced'
  <2>1. /\ call[p].at # "count" /\ UNCHANGED <<metrics, tally>>
        /\ call' = [call EXCEPT ![p] = Idle]
    BY <1>9 DEF Close
  <2>. QED  BY <1>1, <1>7, <2>1, NothingCounts
<1>10. ASSUME NEW p \in Procs, Reconnect(p) PROVE Balanced'
  <2> DEFINE c == [call[p] EXCEPT !.at = "stuck"]
  <2>1. /\ call' = [call EXCEPT ![p] = c] /\ UNCHANGED <<metrics, tally>>
        /\ call[p].at # "count"
    BY <1>2, <1>10 DEF Reconnect
  <2>2. c.at = "stuck"
    BY <1>2 DEF CallRecord
  <2> HIDE DEF c
  <2>. QED  BY <1>1, <2>1, <2>2, NothingCounts
<1>11. ASSUME NEW p \in Procs, NEW r \in Requests, Begin(p, r) PROVE Balanced'
  <2> DEFINE c == [Idle EXCEPT !.goal = r.goal, !.op = FirstOp(r.goal), !.keys = r.keys,
                     !.value = r.value, !.ttl = r.ttl, !.number = begun + 1,
                     !.at = IF r.goal \in {"Close", "Reconnect"} THEN "wlock" ELSE "lock"]
  <2>1. /\ call' = [call EXCEPT ![p] = c] /\ UNCHANGED <<metrics, tally>>
        /\ call[p].at # "count"
    BY <1>11 DEF Begin
  <2>2. c.at # "count"
    BY DEF Idle
  <2> HIDE DEF c
  <2>. QED  BY <1>1, <2>1, <2>2, NothingCounts
<1>12. ASSUME UNCHANGED <<call, metrics, tally>> PROVE Balanced'
  BY <1>1, <1>12
  DEF Balanced, CountOK, FailedCalls, FailedGets, AnsweredCalls, Failed, FailedGet, Answered
<1>13. ASSUME NEW m \in wire, Serve(m) PROVE Balanced'
  <2>1. CASE Awaited(m)
    <3>1. /\ call' = [call EXCEPT ![m.who] =
                        Ended(m.who, ResultOf(m), Got(m), Present(m.keys))]
          /\ tally' = Tallied(m.who, ResultOf(m)) /\ UNCHANGED metrics
      BY <1>13, <2>1 DEF Serve
    <3>2. call[m.who].at = "wait" /\ call[m.who].op = m.op
      BY <2>1 DEF Awaited, Command
    <3>3. /\ ResultOf(m) \in {"ok", "miss", "error"}
          /\ ResultOf(m) = "miss" => m.op = "Get"
      BY DEF ResultOf
    <3>4. m.who \in Procs /\ Present(m.keys) \in SUBSET Keys
      BY <1>1 DEF IInv, TypeOK, Message, Present
    <3>5. Got(m) \in Values \cup {None}
      BY <1>1, GotTyped
    <3>. QED  BY <1>1, <3>1, <3>2, <3>3, <3>4, <3>5, EndsBalanced
  <2>2. CASE ~ Awaited(m)
    BY <1>12, <1>13, <2>2 DEF Serve
  <2>. QED  BY <2>1, <2>2
<1>14. CASE Tick
  BY <1>12, <1>14 DEF Tick
<1>15. CASE UNCHANGED vars
  BY <1>12, <1>15 DEF vars
<1>16. ASSUME NEW p \in Procs, Step(p) PROVE Balanced'
  BY <1>3, <1>4, <1>5, <1>6, <1>8, <1>9, <1>10, <1>16 DEF Step
<1>. QED  BY <1>1, <1>11, <1>13, <1>14, <1>15, <1>16 DEF Next

(* Once every ended operation is counted, the errors are the operations    *)
(* that failed, the other counters add up to those that were answered and  *)
(* the failed Gets, and these are among the misses (service.go:32-50).     *)
THEOREM CountersCorrect == Spec => []MetricsAddUp
<1>1. Spec => []Balanced
  BY InductiveInvariant, InitBalanced, NextBalanced, PTL DEF Spec
<1>2. ASSUME IInv, Balanced PROVE MetricsAddUp
  <2>1. SUFFICES ASSUME \A p \in Procs : call[p].at # "count"
                 PROVE  /\ metrics["errors"] = tally.failed
                        /\ metrics["hits"] + metrics["misses"] + metrics["operations"]
                             = tally.answered + tally.failedGets
                        /\ metrics["misses"] >= tally.failedGets
    BY DEF MetricsAddUp
  <2>2. FailedCalls = {} /\ FailedGets = {} /\ AnsweredCalls = {}
    BY <2>1 DEF FailedCalls, FailedGets, AnsweredCalls, Failed, FailedGet, Answered
  <2>3. metrics \in [Counters -> Nat]
    BY <1>2 DEF IInv, TypeOK
  <2>4. /\ metrics["errors"] \in Nat /\ metrics["hits"] \in Nat
        /\ metrics["misses"] \in Nat /\ metrics["operations"] \in Nat
    BY <2>3 DEF Counters
  <2>. QED  BY <1>2, <2>2, <2>4, FS_EmptySet DEF Balanced
<1>. QED  BY <1>1, <1>2, InductiveInvariant, PTL
=============================================================================
