----------------------------- MODULE EventPublisher -----------------------------
(***************************************************************************)
(* How events reach the broker: the goroutine that a friend request leaves *)
(* behind to publish the two events of its change, the batches of          *)
(* PublishBatch, the retries, and the process around them, which sets up   *)
(* the queues, serves, and shuts down.                                     *)
(*                                                                         *)
(* internal/service/friend_service.go, internal/service/event_service.go,  *)
(* pkg/events/publisher.go, pkg/events/types.go, cmd/server/main.go; the   *)
(* RabbitMQ client by what RabbitClient shows of it.                       *)
(***************************************************************************)
EXTENDS Integers, Sequences, FiniteSets

CONSTANTS
  MaxTasks,       \* bound: changes and batches
  MaxStarts,      \* bound: how often the process starts
  RetryAttempts,  \* retries after the first attempt, 3 in the code
  Kinds,          \* what is asked for: "added", "removed", "batch"
  Faults          \* "refuse", "link", "jam", "setup", "crash"

ASSUME BoundsAssumption ==
  MaxTasks \in Nat /\ MaxStarts \in Nat \ {0} /\ RetryAttempts \in Nat
ASSUME KindsAssumption == Kinds \subseteq {"added", "removed", "batch"}

Task == 1..MaxTasks
Event == Task \X {1, 2}  \* the two events of a task

VARIABLES
  tasks,      \* the kind of each, or "none"
  stage,      \* per event, where the goroutine that publishes it is
  tries,      \* its failed attempts
  answer,     \* what a batch returned
  cancelled,  \* the batches whose context is done
  copies,     \* how often the exchange took an event
  reached,    \* the queues that every copy of it went to
  replies,    \* the broker's answers that the client has not read yet
  bound,      \* the queues that are bound to all their keys
  visited,    \* the queues that this process has set up
  link,       \* the connection is up
  jammed,     \* the library hands out no answers any more
  phase,      \* of the process
  starts,
  misheard    \* events whose call returned on another message's answer

work == <<tasks, stage, tries, answer, cancelled>>
broker == <<copies, reached, replies, bound, link, jammed>>
process == <<visited, phase, starts>>
vars == <<work, broker, process, misheard>>

(* SetupExchangeAndQueues: the keys of each queue; "#" is every key.       *)
Keys ==
  [friendEvents |-> {"friend.added", "friend.removed"},
   userEvents |-> {"user.created", "user.updated", "user.deleted"},
   recommendationEvents |-> {"recommendation.generated", "recommendation.updated"},
   searchIndex |-> {"user.created", "user.updated", "friend.added", "friend.removed"},
   analytics |-> {"#"}]
Queues == DOMAIN Keys

(* GetRoutingKey.  A batch is a new user and a recommendation.             *)
RoutingKey(e) ==
  CASE tasks[e[1]] = "added" -> "friend.added"
    [] tasks[e[1]] = "removed" -> "friend.removed"
    [] tasks[e[1]] = "batch" -> IF e[2] = 1 THEN "user.created" ELSE "recommendation.generated"

Routes(e) == {q \in bound : Keys[q] \cap {RoutingKey(e), "#"} # {}}

InCall == {"sent", "listening", "acked", "nacked"}
Stages == {"none", "turn", "due", "waiting", "ok", "failed", "cut"} \cup InCall

Ended(e) == stage[e] \in {"ok", "failed"}
Known == {e \in Event : stage[e] # "none"}
Running == phase \in {"serving", "draining", "closed"}

Init ==
  /\ tasks = [n \in Task |-> "none"] /\ answer = [n \in Task |-> "none"]
  /\ cancelled = {}
  /\ stage = [e \in Event |-> "none"]
  /\ tries = [e \in Event |-> 0]
  /\ copies = [e \in Event |-> 0] /\ reached = [e \in Event |-> Queues]
  /\ replies = <<>> /\ bound = {}
  /\ visited = {} /\ link = TRUE /\ jammed = FALSE
  /\ phase = "starting" /\ starts = 1
  /\ misheard = {}

-----------------------------------------------------------------------------
(* Initialize.                                                             *)

(* The queues come in the order of a map, which is any; what has been      *)
(* bound before stays bound.                                               *)
SetUpQueue ==
  /\ phase = "starting"
  /\ \E q \in Queues \ visited :
       /\ visited' = visited \cup {q}
       /\ bound' = bound \cup {q}
  /\ UNCHANGED <<work, copies, reached, replies, link, jammed, phase, starts, misheard>>

(* An error is fatal.                                                      *)
SetUpFails ==
  /\ phase = "starting" /\ "setup" \in Faults
  /\ phase' = "ended"
  /\ UNCHANGED <<work, broker, visited, starts, misheard>>

(* Mutant: the server does not wait for the queues.                        *)
ServeAtOnce ==
  /\ phase = "starting"
  /\ phase' = "serving"
  /\ UNCHANGED <<work, broker, visited, starts, misheard>>

Serve ==
  /\ phase = "starting" /\ visited = Queues
  /\ phase' = "serving"
  /\ UNCHANGED <<work, broker, visited, starts, misheard>>

-----------------------------------------------------------------------------
(* The tasks.                                                              *)

(* Mutant: the goroutine of a change publishes for the caller only.        *)
BeginOneWay(n, kind) ==
  /\ phase \in {"serving", "draining"}
  /\ tasks[n] = "none" /\ \A m \in 1..n - 1 : tasks[m] # "none"
  /\ tasks' = [tasks EXCEPT ![n] = kind]
  /\ stage' = [stage EXCEPT ![<<n, 1>>] = "due",
                            ![<<n, 2>>] = IF kind = "batch" THEN "due" ELSE "cut"]
  /\ UNCHANGED <<tries, answer, cancelled, broker, process, misheard>>

(* AddFriend and RemoveFriend start a goroutine for both directions, one   *)
(* after the other; PublishBatch starts one for each event.                *)
Begin(n, kind) ==
  /\ phase \in {"serving", "draining"}
  /\ tasks[n] = "none" /\ \A m \in 1..n - 1 : tasks[m] # "none"
  /\ tasks' = [tasks EXCEPT ![n] = kind]
  /\ stage' = [stage EXCEPT ![<<n, 1>>] = "due",
                            ![<<n, 2>>] = IF kind = "batch" THEN "due" ELSE "turn"]
  /\ UNCHANGED <<tries, answer, cancelled, broker, process, misheard>>

(* The first direction is settled, one way or the other.                   *)
SecondDirection(n) ==
  /\ Running
  /\ stage[<<n, 2>>] = "turn" /\ Ended(<<n, 1>>)
  /\ stage' = [stage EXCEPT ![<<n, 2>>] = "due"]
  /\ UNCHANGED <<tasks, tries, answer, cancelled, broker, process, misheard>>

(* The context of whoever called PublishBatch ends; a friend request's     *)
(* goroutine has the background context, which does not.                   *)
Cancel(n) ==
  /\ Running
  /\ tasks[n] = "batch" /\ answer[n] = "none" /\ n \notin cancelled
  /\ cancelled' = cancelled \cup {n}
  /\ UNCHANGED <<tasks, stage, tries, answer, broker, process, misheard>>

(* Mutant: PublishBatch takes one result for all of them.                  *)
BatchReturnsLast(n) ==
  /\ Running
  /\ tasks[n] = "batch" /\ answer[n] = "none"
  /\ Ended(<<n, 1>>) /\ Ended(<<n, 2>>)
  /\ \E s \in {1, 2} : answer' = [answer EXCEPT ![n] = stage[<<n, s>>]]
  /\ UNCHANGED <<tasks, stage, tries, cancelled, broker, process, misheard>>

(* All results are collected; one error makes an error.                    *)
BatchReturns(n) ==
  /\ Running
  /\ tasks[n] = "batch" /\ answer[n] = "none"
  /\ Ended(<<n, 1>>) /\ Ended(<<n, 2>>)
  /\ answer' = [answer EXCEPT ![n] =
       IF stage[<<n, 1>>] = "ok" /\ stage[<<n, 2>>] = "ok" THEN "ok" ELSE "failed"]
  /\ UNCHANGED <<tasks, stage, tries, cancelled, broker, process, misheard>>

-----------------------------------------------------------------------------
(* publishEventWithRetry.                                                  *)

(* Mutant: the attempts are not counted.                                   *)
FailedForEver(e) ==
  /\ stage' = [stage EXCEPT ![e] = "waiting"]
  /\ UNCHANGED tries

(* Mutant: one attempt more.                                               *)
FailedOnceMore(e) ==
  /\ tries' = [tries EXCEPT ![e] = @ + 1]
  /\ stage' = [stage EXCEPT ![e] = IF tries[e] <= RetryAttempts THEN "waiting" ELSE "failed"]

Failed(e) ==
  /\ tries' = [tries EXCEPT ![e] = @ + 1]
  /\ stage' = [stage EXCEPT ![e] = IF tries[e] < RetryAttempts THEN "waiting" ELSE "failed"]

Retry(e) ==
  /\ Running /\ stage[e] = "waiting"
  /\ stage' = [stage EXCEPT ![e] = "due"]
  /\ UNCHANGED <<tasks, tries, answer, cancelled, broker, process, misheard>>

AbandonRetry(e) ==
  /\ Running /\ stage[e] = "waiting" /\ e[1] \in cancelled
  /\ stage' = [stage EXCEPT ![e] = "failed"]
  /\ UNCHANGED <<tasks, tries, answer, cancelled, broker, process, misheard>>

-----------------------------------------------------------------------------
(* Client.Publish.                                                         *)

(* The client is closed or its connection down.                            *)
CannotSend(e) ==
  /\ Running /\ stage[e] = "due"
  /\ phase = "closed" \/ ~ link
  /\ Failed(e)
  /\ UNCHANGED <<tasks, answer, cancelled, broker, process, misheard>>

Taken(e) ==
  /\ copies' = [copies EXCEPT ![e] = @ + 1]
  /\ reached' = [reached EXCEPT ![e] = @ \cap Routes(e)]

(* The message is sent.  The broker takes it and will say so, or refuses   *)
(* it and will say so, or the connection ends before anything is said.     *)
Send(e) ==
  /\ phase \in {"serving", "draining"} /\ stage[e] = "due" /\ link
  /\ stage' = [stage EXCEPT ![e] = "sent"]
  /\ \/ Taken(e) /\ replies' = Append(replies, [event |-> e, ack |-> TRUE]) /\ UNCHANGED link
     \/ /\ "refuse" \in Faults
        /\ replies' = Append(replies, [event |-> e, ack |-> FALSE])
        /\ UNCHANGED <<copies, reached, link>>
     \/ /\ "link" \in Faults
        /\ Taken(e) \/ UNCHANGED <<copies, reached>>
        /\ link' = FALSE
        /\ UNCHANGED replies
  /\ UNCHANGED <<tasks, tries, answer, cancelled, bound, jammed, process, misheard>>

(* NotifyPublish, only now; a jammed library lets nobody register.         *)
Listen(e) ==
  /\ Running /\ stage[e] = "sent" /\ ~ jammed
  /\ stage' = [stage EXCEPT ![e] = "listening"]
  /\ UNCHANGED <<tasks, tries, answer, cancelled, broker, process, misheard>>

(* An answer reaches everybody who listens.                                *)
Hear ==
  /\ Running /\ replies # <<>> /\ link /\ ~ jammed
  /\ LET r == Head(replies)
         L == {e \in Event : stage[e] = "listening"} IN
     /\ stage' = [e \in Event |->
          IF e \in L THEN IF r.ack THEN "acked" ELSE "nacked" ELSE stage[e]]
     /\ misheard' = misheard \cup (IF r.ack THEN L \ {r.event} ELSE {})
  /\ replies' = Tail(replies)
  /\ UNCHANGED <<tasks, tries, answer, cancelled, copies, reached, bound, link, jammed, process>>

(* Mutant: whatever is heard counts as an acknowledgement.                 *)
AnsweredAnyhow(e) ==
  /\ Running /\ stage[e] \in {"acked", "nacked"}
  /\ stage' = [stage EXCEPT ![e] = "ok"]
  /\ UNCHANGED <<tasks, tries, answer, cancelled, broker, process, misheard>>

Answered(e) ==
  /\ Running /\ stage[e] \in {"acked", "nacked"}
  /\ \/ /\ stage[e] = "acked"
        /\ stage' = [stage EXCEPT ![e] = "ok"]
        /\ UNCHANGED tries
     \/ stage[e] = "nacked" /\ Failed(e)
  /\ UNCHANGED <<tasks, answer, cancelled, broker, process, misheard>>

(* Five seconds have passed, the context is done, or the connection has    *)
(* ended.                                                                  *)
GiveUp(e) ==
  /\ Running /\ stage[e] \in {"listening", "acked", "nacked"}
  /\ Failed(e)
  /\ UNCHANGED <<tasks, answer, cancelled, broker, process, misheard>>

(* The library blocks on a listener that nobody reads any more; there is   *)
(* one as soon as a Publish has returned, and it holds an answer after the *)
(* next one (RabbitClient, Wedged).                                        *)
Jam ==
  /\ "jam" \in Faults /\ ~ jammed
  /\ \E e \in Event : copies[e] > 1 \/ \E f \in Event \ {e} : copies[e] > 0 /\ copies[f] > 0
  /\ jammed' = TRUE
  /\ UNCHANGED <<work, copies, reached, replies, bound, link, process, misheard>>

-----------------------------------------------------------------------------
(* The process.                                                            *)

(* The signal: GracefulStop takes no new requests and waits for those that *)
(* run, which may still start a task.                                      *)
Shutdown ==
  /\ phase = "serving"
  /\ phase' = "draining"
  /\ UNCHANGED <<work, broker, visited, starts, misheard>>

(* Close has the client's lock, so that no Publish is under way.           *)
Close ==
  /\ phase = "draining"
  /\ \A e \in Event : stage[e] \notin InCall
  /\ phase' = "closed" /\ link' = FALSE
  /\ UNCHANGED <<work, copies, reached, replies, bound, jammed, visited, starts, misheard>>

Cut == [e \in Event |-> IF Ended(e) \/ e \notin Known THEN stage[e] ELSE "cut"]

(* main returns, or the process dies: no goroutine goes on.                *)
Exit ==
  /\ \/ phase = "closed"
     \/ "crash" \in Faults /\ phase \in {"starting", "serving", "draining"}
  /\ phase' = "ended"
  /\ stage' = Cut
  /\ answer' = [n \in Task |-> IF answer[n] = "none" /\ tasks[n] # "none" THEN "cut" ELSE answer[n]]
  /\ UNCHANGED <<tasks, tries, cancelled, broker, visited, starts, misheard>>

(* A new process with a connection of its own.                             *)
Restart ==
  /\ phase = "ended" /\ starts < MaxStarts
  /\ phase' = "starting" /\ starts' = starts + 1
  /\ visited' = {} /\ replies' = <<>> /\ link' = TRUE /\ jammed' = FALSE
  /\ UNCHANGED <<work, copies, reached, bound, misheard>>

-----------------------------------------------------------------------------
PublishStep(e) ==
  Retry(e) \/ AbandonRetry(e) \/ CannotSend(e) \/ Send(e) \/ Listen(e) \/ Answered(e) \/ GiveUp(e)

Next ==
  \/ SetUpQueue \/ SetUpFails \/ Serve
  \/ \E n \in Task :
       \/ \E kind \in Kinds : Begin(n, kind)
       \/ SecondDirection(n) \/ Cancel(n) \/ BatchReturns(n)
  \/ \E e \in Event : PublishStep(e)
  \/ Hear \/ Jam
  \/ Shutdown \/ Close \/ Exit \/ Restart

Spec == Init /\ [][Next]_vars

(* Goroutines keep running, timers fire, and a serving process starts with *)
(* what it was asked for.  The broker owes no answer.                      *)
FairSpec ==
  /\ Spec
  /\ \A e \in Event : WF_vars(PublishStep(e))
  /\ \A n \in Task : WF_vars(SecondDirection(n)) /\ WF_vars(BatchReturns(n))

-----------------------------------------------------------------------------
(* Properties.                                                             *)

TypeOK ==
  /\ tasks \in [Task -> Kinds \cup {"none"}]
  /\ stage \in [Event -> Stages]
  /\ tries \in [Event -> 0..RetryAttempts + 1]
  /\ answer \in [Task -> {"none", "ok", "failed", "cut"}]
  /\ cancelled \subseteq Task
  /\ copies \in [Event -> Nat] /\ reached \in [Event -> SUBSET Queues]
  /\ replies \in Seq([event : Event, ack : BOOLEAN])
  /\ bound \subseteq Queues /\ visited \subseteq bound
  /\ link \in BOOLEAN /\ jammed \in BOOLEAN
  /\ phase \in {"starting", "serving", "draining", "closed", "ended"}
  /\ starts \in 1..MaxStarts
  /\ misheard \subseteq Event

Published == {e \in Event : copies[e] > 0}

(* Every copy of an event but one comes from an attempt that failed, or    *)
(* seemed to: what is reported as published is published once for each     *)
(* failed attempt and once more (publisher.go:105-138).                    *)
CopiesAreAttempts ==
  \A e \in Event :
    copies[e] <= tries[e] + (IF stage[e] \in InCall \cup {"ok", "cut"} THEN 1 ELSE 0)

(* What PublishBatch returns is the truth about all its events, and it     *)
(* leaves no goroutine behind (publisher.go:172-189).                      *)
BatchTellsTheTruth ==
  \A n \in Task : answer[n] \in {"ok", "failed"} =>
    /\ Ended(<<n, 1>>) /\ Ended(<<n, 2>>)
    /\ answer[n] = "ok" <=> stage[<<n, 1>>] = "ok" /\ stage[<<n, 2>>] = "ok"

(* Whatever is published finds the queue that wants it: the search index   *)
(* hears of every friendship and of every user, and analytics of all       *)
(* (publisher.go:54-60), across restarts and failed setups.                *)
NothingUnrouted ==
  \A e \in Published :
    /\ "analytics" \in reached[e]
    /\ RoutingKey(e) # "recommendation.generated" => "searchIndex" \in reached[e]

(* The events that were handed over are a channel: each is owed until it   *)
(* is published, reported as failed or lost with the process.              *)
Channel == INSTANCE EventChannel WITH
  owed <- {e \in Event : stage[e] \in {"turn", "due", "waiting"} \cup InCall},
  published <- Published,
  settled <- {e \in Event : stage[e] = "ok"},
  reported <- {e \in Event : stage[e] = "failed"},
  lost <- {e \in Event : stage[e] = "cut"},
  Deceptive <- Faults \cap {"refuse", "link"} # {}

ImplementsChannel == Channel!ChannelSpec

(* An event that was reported as published and is not has heard another    *)
(* message's acknowledgement; there is no other way to lose it silently.   *)
OkIsPublished ==
  \A e \in Event : stage[e] = "ok" => e \in Published \/ e \in misheard

(* The number of an event's copies fits what was told of it: one at least  *)
(* after a success, and no more than there were attempts.                  *)
CopiesFitAnswers == CopiesAreAttempts /\ OkIsPublished

(* Every event that was handed over is settled, and every batch returns,   *)
(* unless the process ends or the library blocks.                          *)
EventsAreSettled ==
  /\ \A e \in Event : stage[e] = "due" ~> stage[e] \in {"ok", "failed", "cut"} \/ jammed
  /\ \A n \in Task : tasks[n] = "batch" ~> answer[n] # "none" \/ jammed
=============================================================================
