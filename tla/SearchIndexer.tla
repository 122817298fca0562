----------------------------- MODULE SearchIndexer -----------------------------
(***************************************************************************)
(* The consumer that keeps the search index: it takes the events of one    *)
(* queue one after the other, tries each up to MaxAttempts times, and then *)
(* acknowledges it or refuses it for good.                                 *)
(*                                                                         *)
(* The broker keeps an event until it is settled.  Events are settled in   *)
(* the order in which they were published, because there is one consumer   *)
(* and what it leaves unsettled returns to its place; the queue is thus    *)
(* what comes after the settled ones.                                      *)
(*                                                                         *)
(* internal/search/event_consumer.go, internal/search/user_indexer.go,     *)
(* pkg/elasticsearch/client.go.                                            *)
(***************************************************************************)
EXTENDS Integers, Sequences, FiniteSets

CONSTANTS Users,
          Events,       \* the events that are published
          MaxEvents,    \* bound: how many
          MaxAttempts,  \* maxRetries, 3 in the code
          MaxRestarts,  \* bound: how often the process starts again
          Faults,       \* what can go wrong: "index", "text", "stop", "link", "crash"
          None          \* no document

Types == {"created", "updated", "added", "removed", "unknown", "garbled"}
Event == [type : Types, user : Users, friend : Users, named : BOOLEAN]

ASSUME EventsAssumption == Events \subseteq Event
ASSUME BoundsAssumption ==
  MaxEvents \in Nat /\ MaxAttempts \in Nat \ {0} /\ MaxRestarts \in Nat

VARIABLES
  events,     \* what was published, in order
  outcome,    \* how the settled ones ended: "acked" or "dropped"
  tries,      \* for each event, its failed attempts since it was last taken
  misread,    \* history: of these, the last failure was taken for unreadable
  docs,       \* the index: the document of each user, or None
  pc,         \* where the consumer is
  hand,       \* the event it works on, 0 for none
  pos,        \* the next request of that event
  cancelled,  \* its context is done
  lost,       \* its channel is closed
  stops,      \* how often it was asked to stop, for the properties
  restarts

broker == <<events, outcome>>
attempts == <<tries, misread>>
signals == <<cancelled, lost, stops, restarts>>
vars == <<broker, attempts, docs, pc, hand, pos, signals>>

(* The event whose names the document shows, its friend_count, and the    *)
(* fields that no reader of the index knows.                               *)
Document == [from : 1..MaxEvents, count : Int, stray : SUBSET {"script", "doc"}]

ASSUME NoneAssumption == None \notin Document

Init ==
  /\ events = <<>> /\ outcome = <<>> /\ tries = <<>> /\ misread = {}
  /\ docs = [u \in Users |-> None]
  /\ pc = "select" /\ hand = 0 /\ pos = 1
  /\ cancelled = FALSE /\ lost = FALSE
  /\ stops = 0 /\ restarts = 0

Current == events[hand]

-----------------------------------------------------------------------------
(* The index.                                                              *)

(* IndexDocument puts a new document in the place of the old one.          *)
Indexed == [docs EXCEPT ![Current.user] = [from |-> hand, count |-> 0, stray |-> {}]]

(* UpdateDocument sends {"doc": body}: the fields of the body are merged   *)
(* into the document, and a document that is missing is an error.  Its     *)
(* callers have put "doc", or "script", into the body themselves.          *)
Merged(u, field) ==
  IF docs[u] = None THEN docs ELSE [docs EXCEPT ![u].stray = @ \cup {field}]

(* A request whose context is done fails; any other may fail.              *)
MayFail == cancelled \/ "index" \in Faults

-----------------------------------------------------------------------------
(* The broker's side.                                                      *)

Publish ==
  /\ Len(events) < MaxEvents
  /\ \E e \in Events : events' = Append(events, e)
  /\ tries' = Append(tries, 0)
  /\ UNCHANGED <<outcome, misread, docs, pc, hand, pos, signals>>

(* The channel closes: what is unsettled goes back, and the consumer hears *)
(* nothing any more, however often it asks.                                *)
LinkLost ==
  /\ "link" \in Faults /\ ~ lost
  /\ lost' = TRUE
  /\ UNCHANGED <<broker, attempts, docs, pc, hand, pos, cancelled, stops, restarts>>

-----------------------------------------------------------------------------
(* processMessages.                                                        *)

Take ==
  /\ pc = "select" /\ ~ lost
  /\ Len(outcome) < Len(events)
  /\ hand' = Len(outcome) + 1
  /\ tries' = [tries EXCEPT ![hand'] = 0] /\ misread' = misread \ {hand'}
  /\ pc' = "work" /\ pos' = 1
  /\ UNCHANGED <<broker, docs, signals>>

Stopped ==
  /\ pc = "select" /\ cancelled
  /\ pc' = "stopped"
  /\ UNCHANGED <<broker, attempts, docs, hand, pos, signals>>

(* Ack or Nack without requeueing; neither reaches the broker over a       *)
(* closed channel, and nobody looks at the error.                          *)
Settle ==
  /\ pc \in {"ack", "nack"}
  /\ outcome' = IF lost THEN outcome
                ELSE Append(outcome, IF pc = "ack" THEN "acked" ELSE "dropped")
  /\ pc' = "select" /\ hand' = 0 /\ pos' = 1
  /\ UNCHANGED <<events, attempts, docs, signals>>

-----------------------------------------------------------------------------
(* processMessageWithRetry.                                                *)

Done(s) == pc' = s /\ pos' = 1 /\ UNCHANGED attempts

(* Mutant: the attempts are not counted.                                   *)
FailedForEver ==
  /\ tries' = [tries EXCEPT ![hand] = 1]
  /\ pc' = "wait" /\ pos' = 1
  /\ UNCHANGED misread

(* Mutant: one attempt more than there are.                                *)
FailedOnceMore ==
  /\ tries' = [tries EXCEPT ![hand] = @ + 1]
  /\ pc' = IF tries[hand] < MaxAttempts THEN "wait" ELSE "nack"
  /\ pos' = 1
  /\ UNCHANGED misread

(* Mutant: one attempt less.                                               *)
FailedTooSoon ==
  /\ tries' = [tries EXCEPT ![hand] = @ + 1]
  /\ pc' = IF tries[hand] + 2 < MaxAttempts THEN "wait" ELSE "nack"
  /\ pos' = 1
  /\ UNCHANGED misread

(* An error is worth another attempt while some are left, unless its text  *)
(* has "json" or "unmarshal" in it, as the answer of Elasticsearch or the  *)
(* id of a user may: then it passes for that of an unreadable event.       *)
Failed ==
  /\ tries' = [tries EXCEPT ![hand] = @ + 1]
  /\ \/ /\ pc' = IF tries[hand] + 1 < MaxAttempts THEN "wait" ELSE "nack"
        /\ UNCHANGED misread
     \/ /\ "text" \in Faults
        /\ pc' = "nack"
        /\ misread' = misread \cup {hand}
  /\ pos' = 1

Retry ==
  /\ pc = "wait"
  /\ pc' = "work"
  /\ UNCHANGED <<broker, attempts, docs, hand, pos, signals>>

(* The wait ends with the context, and that is an error like any other.    *)
AbandonRetry ==
  /\ pc = "wait" /\ cancelled
  /\ pc' = "nack"
  /\ UNCHANGED <<broker, attempts, docs, hand, pos, signals>>

-----------------------------------------------------------------------------
(* processMessage.                                                         *)

Working(types) == pc = "work" /\ Current.type \in types

(* Unknown routing keys, and user events without names, need nothing.      *)
Ignore ==
  /\ \/ Working({"unknown"})
     \/ Working({"created", "updated"}) /\ ~ Current.named
  /\ Done("ack")
  /\ UNCHANGED <<broker, docs, hand, signals>>

(* What cannot be read now can never be read.                              *)
Unreadable ==
  /\ Working({"garbled"})
  /\ tries' = [tries EXCEPT ![hand] = @ + 1]
  /\ pc' = "nack" /\ pos' = 1
  /\ UNCHANGED <<broker, misread, docs, hand, signals>>

(* Mutant: an error is logged and forgotten, as for friend events.         *)
IndexNewUserForgiving ==
  /\ Working({"created"}) /\ Current.named
  /\ \/ ~ cancelled /\ docs' = Indexed
     \/ MayFail /\ docs' \in {docs, Indexed}
  /\ Done("ack")
  /\ UNCHANGED <<broker, hand, signals>>

(* A request that fails may have been carried out.                         *)
IndexNewUser ==
  /\ Working({"created"}) /\ Current.named
  /\ \/ ~ cancelled /\ docs' = Indexed /\ Done("ack")
     \/ MayFail /\ docs' \in {docs, Indexed} /\ Failed
  /\ UNCHANGED <<broker, hand, signals>>

UpdateUser ==
  /\ Working({"updated"}) /\ Current.named
  /\ LET merged == Merged(Current.user, "doc") IN
       \/ /\ ~ cancelled /\ docs[Current.user] # None
          /\ docs' = merged /\ Done("ack")
       \/ /\ MayFail \/ docs[Current.user] = None
          /\ docs' \in {docs, merged} /\ Failed
  /\ UNCHANGED <<broker, hand, signals>>

(* Two friend counts and two mutual friend counts, whose errors are logged *)
(* and forgotten.                                                          *)
UpdateCount ==
  /\ Working({"added", "removed"})
  /\ LET u == IF pos \in {1, 3} THEN Current.user ELSE Current.friend IN
       \/ ~ cancelled /\ docs' = Merged(u, "script")
       \/ MayFail /\ docs' \in {docs, Merged(u, "script")}
  /\ IF pos = 4 THEN Done("ack") ELSE pos' = pos + 1 /\ UNCHANGED <<pc, attempts>>
  /\ UNCHANGED <<broker, hand, signals>>

-----------------------------------------------------------------------------
(* The process.                                                            *)

Cancel ==
  /\ "stop" \in Faults
  /\ ~ cancelled /\ pc # "stopped"
  /\ cancelled' = TRUE /\ stops' = stops + 1
  /\ UNCHANGED <<broker, attempts, docs, pc, hand, pos, lost, restarts>>

(* The process ends, at any point or two seconds after it was asked to,    *)
(* and is started again.                                                   *)
Restart ==
  /\ "crash" \in Faults \/ cancelled
  /\ restarts < MaxRestarts
  /\ restarts' = restarts + 1
  /\ pc' = "select" /\ hand' = 0 /\ pos' = 1
  /\ cancelled' = FALSE /\ lost' = FALSE
  /\ UNCHANGED <<broker, attempts, docs, stops>>

Consume ==
  \/ Take \/ Stopped \/ Settle \/ Retry \/ AbandonRetry
  \/ Ignore \/ Unreadable \/ IndexNewUser \/ UpdateUser \/ UpdateCount

Next == Publish \/ Consume \/ LinkLost \/ Cancel \/ Restart

Spec == Init /\ [][Next]_vars

(* The consumer's goroutine keeps running.                                 *)
FairSpec == Spec /\ WF_vars(Consume)

-----------------------------------------------------------------------------
(* Properties.                                                             *)

TypeOK ==
  /\ events \in Seq(Events) /\ Len(events) <= MaxEvents
  /\ outcome \in Seq({"acked", "dropped"}) /\ Len(outcome) <= Len(events)
  /\ tries \in Seq(0..MaxAttempts) /\ Len(tries) = Len(events)
  /\ misread \subseteq 1..Len(events)
  /\ docs \in [Users -> Document \cup {None}]
  /\ pc \in {"select", "work", "wait", "ack", "nack", "stopped"}
  /\ hand \in {0, Len(outcome) + 1} /\ hand <= Len(events)
  /\ pos \in 1..4
  /\ cancelled \in BOOLEAN /\ lost \in BOOLEAN
  /\ stops \in Nat /\ restarts \in 0..MaxRestarts

Indexes(e) == e.type = "created" /\ e.named

(* A user whose creation was acknowledged is in the index with what that   *)
(* event said or a later one: neither an error, nor a redelivery after a   *)
(* restart or over a closed channel, loses it or brings an older state     *)
(* back (event_consumer.go:107-117, 300-302).                              *)
AckedIsIndexed ==
  \A i \in 1..Len(outcome) :
    outcome[i] = "acked" /\ Indexes(events[i])
      => /\ docs[events[i].user] # None
         /\ docs[events[i].user].from >= i

Refused == {i \in 1..Len(outcome) : outcome[i] = "dropped" /\ events[i].type # "garbled"}

(* An event that can be read is refused for good "after max retries"       *)
(* (event_consumer.go:113), each of which failed, but for two reasons: a   *)
(* shutdown, and an error whose text makes it look as if the event could   *)
(* not be read.  Nothing else: neither restarts and redeliveries, nor      *)
(* errors of an earlier attempt, of another event or of a friend count,    *)
(* use up the attempts of an event (event_consumer.go:123-184).            *)
RefusedWithReason ==
  stops = 0 => \A i \in Refused : tries[i] = MaxAttempts \/ i \in misread

(* Every event is settled, unless the consumer was stopped or has lost its *)
(* channel, after which nothing in the process subscribes again.           *)
EventsAreSettled ==
  \A i \in 1..MaxEvents :
    Len(events) >= i ~> Len(outcome) >= i \/ lost \/ pc = "stopped"

Between(type, u, i, j) ==
  {k \in i..j : events[k].type = type /\ u \in {events[k].user, events[k].friend}}

(* "Increment friend count for both users", and decrement it               *)
(* (event_consumer.go:240, 255): with every event settled, a document      *)
(* counts those that came after the one which made it.                     *)
CountsFollowEvents ==
  Len(outcome) = Len(events) =>
    \A u \in Users : docs[u] # None =>
      docs[u].count = Cardinality(Between("added", u, docs[u].from, Len(events)))
                      - Cardinality(Between("removed", u, docs[u].from, Len(events)))
=============================================================================
