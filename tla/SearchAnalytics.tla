---------------------------- MODULE SearchAnalytics ----------------------------
(***************************************************************************)
(* The statistics of searches: SearchAnalytics, which records each search  *)
(* under its query, its user and the whole, and SearchOptimizer, which     *)
(* keeps the slow ones.  Neither has a lock: one goroutine records, as in  *)
(* their only caller (cmd/search-benchmark).  Nothing is ever reset.       *)
(*                                                                         *)
(* internal/search/search_analytics.go, internal/search/search_optimizer.go*)
(*                                                                         *)
(* A rate that the code keeps as a fraction of its count is kept as its    *)
(* exact numerator.  The code's is a float64 that every search multiplies, *)
(* adds to and divides: what it loses in rounding is far less than the     *)
(* distance of two fractions of any count below ten million, so a report   *)
(* that compares it can be wrong only where the two are equal (Failing-    *)
(* Queries).                                                               *)
(***************************************************************************)
EXTENDS Integers, Sequences, SequencesExt, FiniteSets

CONSTANTS
  Users, Queries,
  Times,       \* response times, in ticks
  Slow,        \* the longest that is not slow, a second in the code
  MaxRecords,  \* bound: records
  TopMax,      \* 10 in the code
  SlowMax,     \* 100 in the code
  Share        \* one in how many may be slow, 10 in the code

ASSUME TimesAssumption == Times \subseteq Nat
ASSUME BoundsAssumption ==
  /\ MaxRecords \in Nat /\ TopMax \in Nat \ {0}
  /\ SlowMax \in Nat \ {0} /\ Share \in Nat \ {0}

VARIABLES
  count, average, good,  \* QueryPatterns: per query; a count of 0: none
  hours,                 \* PeakHours, all of them
  searches, freq, top,   \* UserBehavior: per user
  trends,                \* the length of SearchTrends
  total, mean, failures, \* PerformanceStats
  asked, spent, popular, slow, \* SearchMetrics of the optimizer
  flops,                 \* the numerator of its ErrorRate
  history                \* what really happened, for the properties

patterns == <<count, average, good, hours>>
behavior == <<searches, freq, top>>
stats == <<total, mean, failures>>
metrics == <<asked, spent, popular, slow, flops>>
vars == <<patterns, behavior, trends, stats, metrics, history>>

Init ==
  /\ count = [q \in Queries |-> 0] /\ average = [q \in Queries |-> 0]
  /\ good = [q \in Queries |-> 0] /\ hours = [q \in Queries |-> 0]
  /\ searches = [u \in Users |-> 0]
  /\ freq = [u \in Users |-> [q \in Queries |-> 0]]
  /\ top = [u \in Users |-> <<>>]
  /\ trends = 0
  /\ total = 0 /\ mean = 0 /\ failures = 0
  /\ asked = 0 /\ spent = 0 /\ popular = [q \in Queries |-> 0]
  /\ slow = <<>> /\ flops = 0
  /\ history = [time |-> [q \in Queries |-> 0], success |-> [q \in Queries |-> 0],
                slow |-> <<>>]

-----------------------------------------------------------------------------
(* RecordSearchEvent.                                                      *)

(* Mutant: the average of before weighs as much as all.                    *)
AveragedOver(avg, n, time) == (avg * n + time) \div n

(* The running average over n times, in whole ticks.                       *)
Averaged(avg, n, time) == (avg * (n - 1) + time) \div n

(* A first search counts as a success.                                     *)
RecordPattern(q, time, ok) ==
  /\ count' = [count EXCEPT ![q] = @ + 1]
  /\ average' = [average EXCEPT ![q] = Averaged(@, count'[q], time)]
  /\ good' = [good EXCEPT ![q] = IF ok \/ count[q] = 0 THEN @ + 1 ELSE @]
  /\ hours' = [hours EXCEPT ![q] = @ + 1]

(* Where the loop of updateTopQueries stops in list, with n searches of q  *)
(* and f[x] of any other.                                                  *)
Stops(list, f, q, n) == {i \in 1..Len(list) : list[i] = q \/ n > f[list[i]]}

(* Mutant: a query that is found nowhere goes to the end.                  *)
UpdateTopLast(list, f, q, n) ==
  IF \E i \in 1..Len(list) : list[i] = q THEN list
  ELSE IF Len(list) < TopMax THEN Append(list, q) ELSE list

(* A query that is more frequent than one in the list is inserted before   *)
(* it, even when it is in the list already, further down, or the list is   *)
(* full.                                                                   *)
UpdateTop(list, f, q, n) ==
  LET stops == Stops(list, f, q, n) IN
  IF stops = {}
    THEN IF Len(list) < TopMax THEN Append(list, q) ELSE list
    ELSE LET i == CHOOSE i \in stops : \A j \in stops : i <= j IN
         IF list[i] = q THEN list ELSE InsertAt(list, i, q)

RecordBehavior(u, q) ==
  /\ searches' = [searches EXCEPT ![u] = @ + 1]
  /\ freq' = [freq EXCEPT ![u][q] = @ + 1]
  /\ top' = [top EXCEPT ![u] =
       IF searches[u] = 0 THEN <<q>> ELSE UpdateTop(@, freq[u], q, freq[u][q] + 1)]

(* Mutant: a success takes back a failure.                                 *)
RecordStatsTakesBack(time, ok) ==
  /\ total' = total + 1
  /\ mean' = IF total' = 1 THEN time ELSE Averaged(mean, total', time)
  /\ failures' = failures + (IF ok THEN 0 - 1 ELSE 1)

(* updatePerformanceStats.                                                 *)
RecordStats(time, ok) ==
  /\ total' = total + 1
  /\ mean' = IF total' = 1 THEN time ELSE Averaged(mean, total', time)
  /\ failures' = failures + (IF ok THEN 0 ELSE 1)

RecordSearchEvent(u, q, time, ok) ==
  /\ total + asked < MaxRecords
  /\ RecordPattern(q, time, ok)
  /\ RecordBehavior(u, q)
  /\ trends' = trends + 1
  /\ RecordStats(time, ok)
  /\ history' = [history EXCEPT !.time[q] = @ + time,
                                !.success[q] = @ + (IF ok THEN 1 ELSE 0)]
  /\ UNCHANGED metrics

-----------------------------------------------------------------------------
(* RecordQueryMetrics.                                                     *)

(* Only the last SlowMax are kept.                                         *)
Kept(list) == IF Len(list) > SlowMax THEN Tail(list) ELSE list

(* An error counts the slow queries of duration 0, of which there are none.*)
Flops(list) == Cardinality({i \in 1..Len(list) : list[i].time = 0})

RecordQueryMetrics(q, time, failed) ==
  /\ total + asked < MaxRecords
  /\ asked' = asked + 1 /\ spent' = spent + time
  /\ popular' = [popular EXCEPT ![q] = @ + 1]
  /\ IF time > Slow
       THEN /\ slow' = Kept(Append(slow, [query |-> q, time |-> time]))
            /\ history' = [history EXCEPT !.slow = Append(@, [query |-> q, time |-> time])]
       ELSE UNCHANGED <<slow, history>>
  /\ flops' = IF failed THEN Flops(slow') ELSE flops
  /\ UNCHANGED <<patterns, behavior, trends, stats>>

-----------------------------------------------------------------------------
Next ==
  \/ \E u \in Users, q \in Queries, time \in Times, ok \in BOOLEAN :
       RecordSearchEvent(u, q, time, ok)
  \/ \E q \in Queries, time \in Times, failed \in BOOLEAN :
       RecordQueryMetrics(q, time, failed)

Spec == Init /\ [][Next]_vars

-----------------------------------------------------------------------------
(* The reports.                                                            *)

(* collectResponseTimes: an entry for every search, at its query's average.*)
ResponseTimes == UNION {{q} \X (1..count[q]) : q \in Queries}
TimeOf(e) == average[e[1]]

(* generatePerformanceInsights.  The index of a percentile, and what is    *)
(* there after sorting: the time with at most so many below it and more up *)
(* to it.                                                                  *)
Below(t) == Cardinality({e \in ResponseTimes : TimeOf(e) < t})
UpTo(t) == Cardinality({e \in ResponseTimes : TimeOf(e) <= t})

(* Mutant: the index is not rounded down.                                  *)
PercentileIndexUp(percent) == (Cardinality(ResponseTimes) * percent + 99) \div 100

PercentileIndex(percent) == (Cardinality(ResponseTimes) * percent) \div 100

Percentile(percent) ==
  {t \in {TimeOf(e) : e \in ResponseTimes} :
     Below(t) <= PercentileIndex(percent) /\ PercentileIndex(percent) < UpTo(t)}

(* getFailingQueries: the lists of those with a SuccessRate < 0.8 that may *)
(* come out.  A rate of exactly 4/5 may have been rounded to either side:  *)
(* after 31 successes, 8 failures and a success it is 0.7999999999999999.  *)
FailingQueries ==
  LET searched == {q \in Queries : count[q] > 0}
      below    == {q \in searched : 5 * good[q] < 4 * count[q]}
      atLimit  == {q \in searched : 5 * good[q] = 4 * count[q]}
  IN  {below \cup rounded : rounded \in SUBSET atLimit}

(* generateOptimizationRecommendations of the optimizer.                   *)

WarnsOfSlowness == Len(slow) > asked \div Share

-----------------------------------------------------------------------------
(* Properties.                                                             *)

Pattern == [query : Queries, time : Nat]

TypeOK ==
  /\ count \in [Queries -> Nat] /\ average \in [Queries -> Nat]
  /\ good \in [Queries -> Nat] /\ hours \in [Queries -> Nat]
  /\ searches \in [Users -> Nat] /\ freq \in [Users -> [Queries -> Nat]]
  /\ top \in [Users -> Seq(Queries)]
  /\ trends \in Nat /\ total \in Nat /\ mean \in Nat /\ failures \in Nat
  /\ asked \in Nat /\ spent \in Nat /\ popular \in [Queries -> Nat]
  /\ slow \in Seq(Pattern) /\ flops \in Nat
  /\ history \in [time : [Queries -> Nat], success : [Queries -> Nat], slow : Seq(Pattern)]

Listed(u, n, q) == \E i \in 1..n : top[u][i] = q

(* The top queries of a user rank by frequency: what does not appear up to *)
(* a place is searched no more often than what is there, so the first is a *)
(* most frequent one, and only a list of full length leaves any out        *)
(* (search_analytics.go:317-339).  The list may name a query twice.        *)
TopIsRanked ==
  \A u \in Users :
    /\ \A i \in 1..Len(top[u]), q \in Queries :
         ~ Listed(u, i, q) => freq[u][q] <= freq[u][top[u][i]]
    /\ Len(top[u]) < TopMax =>
         \A q \in Queries : freq[u][q] > 0 => Listed(u, Len(top[u]), q)

(* Rounding: a running average is never above the true one, and loses less *)
(* than half a tick for each time that went in (search_analytics.go:137).  *)
AverageDriftsDown ==
  \A q \in Queries :
    /\ average[q] * count[q] <= history.time[q]
    /\ 2 * (history.time[q] - average[q] * count[q]) <= count[q] * (count[q] - 1)

(* The success rate of a query is the true one, or takes one failure, the  *)
(* first search, for a success.  So a query that is listed as failing has  *)
(* succeeded in at most 4 of 5 searches, however the rate was rounded, and *)
(* one that is not is at most one success short of that                    *)
(* (search_analytics.go:139-143, 153, 532).                                *)
FailingIsTrue ==
  /\ \A q \in Queries : good[q] - history.success[q] \in {0, 1}
  /\ \A list \in FailingQueries, q \in Queries :
       /\ q \in list => 5 * history.success[q] <= 4 * count[q]
       /\ q \notin list => 5 * (history.success[q] + 1) >= 4 * count[q]

(* What is known of a query is true up to the rounding of its average and  *)
(* the failure of its first search (search_analytics.go:135-158).          *)
PatternsAreNearlyTrue == AverageDriftsDown /\ FailingIsTrue

(* As long as there is a search, each percentile is one of the averages,   *)
(* and at most the rest of the searches is slower (search_analytics.go:    *)
(* 227-243): the index never falls off the end.                            *)
PercentilesCover ==
  total > 0 =>
    /\ \A percent \in {95, 99} :
         /\ Cardinality(Percentile(percent)) = 1
         /\ \A t \in Percentile(percent) : 100 * UpTo(t) >= percent * total
    /\ \A s \in Percentile(95), t \in Percentile(99) : s <= t

(* The kept slow queries are the latest ones, in order                     *)
(* (search_optimizer.go:275-288).                                          *)
SlowAreTheLatest ==
  LET n == Len(history.slow) IN
  slow = SubSeq(history.slow, (IF n > SlowMax THEN n - SlowMax ELSE 0) + 1, n)

(* As long as none has been dropped, the warning comes exactly when more   *)
(* than the allowed share was slow; later it may be missing, but is never  *)
(* wrong (search_optimizer.go:181).                                        *)
WarningIsRight ==
  /\ WarnsOfSlowness => Share * Len(history.slow) > asked
  /\ Len(history.slow) <= SlowMax =>
       (Share * Len(history.slow) > asked => WarnsOfSlowness)
=============================================================================
