-------------------------- MODULE EventPublisherProofs --------------------------
(***************************************************************************)
(* Theorems about EventPublisher for any number of tasks, starts and       *)
(* attempts, any kinds of tasks and any faults.                            *)
(***************************************************************************)
EXTENDS EventPublisher, SequenceTheorems, TLAPS

-----------------------------------------------------------------------------
(* The inductive invariant.                                                *)

(* The events of a task are those of a task that was begun, and one that   *)
(* is still in work has an attempt left.                                   *)
StageOK ==
  /\ \A n \in Task, s \in {1, 2} :
       stage[<<n, s>>] = "none" <=> tasks[n] = "none"
  /\ \A e \in Event : stage[e] = "none" => copies[e] = 0 /\ tries[e] = 0
  /\ \A e \in Event : ~ Ended(e) /\ stage[e] # "cut" => tries[e] <= RetryAttempts

(* The broker acknowledges what it took, and who has heard an              *)
(* acknowledgement has heard his own, or is marked.                        *)
HeardOK ==
  /\ \A i \in 1..Len(replies) : replies[i].ack => copies[replies[i].event] > 0
  /\ \A e \in Event : stage[e] = "acked" => copies[e] > 0 \/ e \in misheard

(* A server that serves has set up its queues.                             *)
SetUpOK == Running => bound = Queues

(* No queue has missed an event that was never sent.                       *)
UnroutedOK == \A e \in Event : copies[e] = 0 => reached[e] = Queues

IInv ==
  /\ TypeOK /\ StageOK /\ HeardOK /\ SetUpOK /\ UnroutedOK
  /\ CopiesAreAttempts /\ BatchTellsTheTruth /\ NothingUnrouted /\ OkIsPublished

(* The parts of an event.                                                  *)
LEMMA Parts ==
  ASSUME NEW e \in Event
  PROVE  e[1] \in Task /\ e[2] \in {1, 2} /\ e = <<e[1], e[2]>>
BY DEF Event

LEMMA EventOf ==
  ASSUME NEW n \in Task, NEW s \in {1, 2}
  PROVE  <<n, s>> \in Event
BY DEF Event

(* What a call of Publish leaves at the broker.                            *)
LEMMA SendEffect ==
  ASSUME TypeOK, NEW e \in Event, Send(e)
  PROVE  /\ \/ /\ copies' = [copies EXCEPT ![e] = copies[e] + 1]
               /\ reached' = [reached EXCEPT ![e] = reached[e] \cap Routes(e)]
            \/ copies' = copies /\ reached' = reached
         /\ \/ replies' = replies
            \/ replies' = Append(replies, [event |-> e, ack |-> FALSE])
            \/ /\ replies' = Append(replies, [event |-> e, ack |-> TRUE])
               /\ copies' = [copies EXCEPT ![e] = copies[e] + 1]
         /\ replies' \in Seq([event : Event, ack : BOOLEAN])
         /\ stage' = [stage EXCEPT ![e] = "sent"] /\ stage[e] = "due"
<1>1. [event |-> e, ack |-> TRUE] \in [event : Event, ack : BOOLEAN]
      /\ [event |-> e, ack |-> FALSE] \in [event : Event, ack : BOOLEAN]
  OBVIOUS
<1>2. /\ Append(replies, [event |-> e, ack |-> TRUE]) \in Seq([event : Event, ack : BOOLEAN])
      /\ Append(replies, [event |-> e, ack |-> FALSE]) \in Seq([event : Event, ack : BOOLEAN])
  BY <1>1, AppendProperties DEF TypeOK
<1>3. /\ \/ replies' = replies
         \/ replies' = Append(replies, [event |-> e, ack |-> FALSE])
         \/ replies' = Append(replies, [event |-> e, ack |-> TRUE]) /\ Taken(e)
      /\ Taken(e) \/ UNCHANGED <<copies, reached>>
      /\ stage' = [stage EXCEPT ![e] = "sent"] /\ stage[e] = "due"
  BY DEF Send
<1>. QED  BY <1>2, <1>3 DEF Taken, TypeOK

(* What a new task changes.                                                *)
LEMMA BeginEffect ==
  ASSUME TypeOK, NEW n \in Task, NEW kind \in Kinds, Begin(n, kind)
  PROVE  /\ \A m \in Task : tasks'[m] = IF m = n THEN kind ELSE tasks[m]
         /\ tasks[n] = "none" /\ kind # "none"
         /\ \A f \in Event : f[1] # n => stage'[f] = stage[f]
         /\ \A m \in Task, s \in {1, 2} : m # n => stage'[<<m, s>>] = stage[<<m, s>>]
         /\ \A s \in {1, 2} : stage'[<<n, s>>] \in {"due", "turn"}
         /\ \A f \in Event : f[1] = n => stage'[f] \in {"due", "turn"}
         /\ UNCHANGED <<tries, answer, copies, reached, misheard>>
<1>1. <<n, 1>> \in Event /\ <<n, 2>> \in Event /\ <<n, 1>> # <<n, 2>>
  BY EventOf
<1>2. /\ stage' = [stage EXCEPT ![<<n, 1>>] = "due",
                              ![<<n, 2>>] = IF kind = "batch" THEN "due" ELSE "turn"]
      /\ stage \in [Event -> Stages]
  BY DEF Begin, TypeOK
<1>3. \A f \in Event :
        stage'[f] = IF f = <<n, 1>> THEN "due"
                    ELSE IF f = <<n, 2>> THEN (IF kind = "batch" THEN "due" ELSE "turn")
                    ELSE stage[f]
  BY <1>1, <1>2
<1>4. \A s \in {1, 2} : stage'[<<n, s>>] \in {"due", "turn"}
  BY <1>1, <1>3
<1>5. \A f \in Event : f[1] = n => f = <<n, 1>> \/ f = <<n, 2>>
  BY Parts
<1>6. \A f \in Event : f[1] # n => f # <<n, 1>> /\ f # <<n, 2>>
  OBVIOUS
<1>7. \A m \in Task, s \in {1, 2} : <<m, s>> \in Event /\ <<m, s>>[1] = m
  BY EventOf
<1>8. \A m \in Task : tasks'[m] = IF m = n THEN kind ELSE tasks[m]
  BY DEF Begin, TypeOK
<1>9. tasks[n] = "none" /\ UNCHANGED <<tries, answer, copies, reached, misheard>>
  BY DEF Begin, broker
<1>10. kind # "none"
  BY KindsAssumption
<1>. QED  BY <1>3, <1>4, <1>5, <1>6, <1>7, <1>8, <1>9, <1>10

-----------------------------------------------------------------------------
(* The steps.                                                              *)

(* Every step keeps the types.                                             *)
LEMMA TypeStep ==
  TypeOK /\ StageOK /\ [Next]_vars => TypeOK'
<1>. SUFFICES ASSUME TypeOK, StageOK, [Next]_vars
             PROVE  TypeOK'
  OBVIOUS
<1>1. CASE SetUpQueue
    BY <1>1 DEF SetUpQueue, work, broker, process, TypeOK, Stages, InCall
<1>2. CASE SetUpFails
    BY <1>2 DEF SetUpFails, work, broker, process, TypeOK, Stages, InCall
<1>3. CASE Serve
    BY <1>3 DEF Serve, work, broker, process, TypeOK, Stages, InCall
<1>4. ASSUME NEW n \in Task, NEW kind \in Kinds, Begin(n, kind) PROVE TypeOK'
    BY <1>4 DEF Begin, work, broker, process, TypeOK, Stages, InCall
<1>5. ASSUME NEW n \in Task, SecondDirection(n) PROVE TypeOK'
    BY <1>5 DEF SecondDirection, work, broker, process, TypeOK, Stages, InCall
<1>6. ASSUME NEW n \in Task, Cancel(n) PROVE TypeOK'
    BY <1>6 DEF Cancel, work, broker, process, TypeOK, Stages, InCall
<1>7. ASSUME NEW n \in Task, BatchReturns(n) PROVE TypeOK'
    BY <1>7 DEF BatchReturns, work, broker, process, TypeOK, Stages, InCall
<1>8. ASSUME NEW e \in Event, Retry(e) PROVE TypeOK'
    BY <1>8 DEF Retry, work, broker, process, TypeOK, Stages, InCall
<1>9. ASSUME NEW e \in Event, AbandonRetry(e) PROVE TypeOK'
    BY <1>9 DEF AbandonRetry, work, broker, process, TypeOK, Stages, InCall
<1>10. ASSUME NEW e \in Event, CannotSend(e) PROVE TypeOK'
  <2>0. stage[e] \notin {"ok", "failed", "cut"}
    BY <1>10 DEF CannotSend
  <2>1. tries[e] \in 0..RetryAttempts
    <3>1. tries[e] \in 0..RetryAttempts + 1
      BY DEF TypeOK
    <3>2. tries[e] <= RetryAttempts
      BY <2>0 DEF StageOK, Ended
    <3>. QED  BY <3>1, <3>2, BoundsAssumption
  <2>2. tries[e] + 1 \in 0..RetryAttempts + 1
    BY <2>1, BoundsAssumption
  <2>. QED  BY <1>10, <2>2 DEF CannotSend, Failed, broker, process, TypeOK, Stages, InCall
<1>11. ASSUME NEW e \in Event, Send(e) PROVE TypeOK'
  <2>1. copies[e] + 1 \in Nat /\ reached[e] \cap Routes(e) \in SUBSET Queues
    BY DEF TypeOK
  <2>2. copies' \in [Event -> Nat] /\ reached' \in [Event -> SUBSET Queues]
    BY <1>11, <2>1, SendEffect DEF TypeOK
  <2>3. stage' \in [Event -> Stages]
    BY <1>11 DEF Send, TypeOK, Stages, InCall
  <2>4. link' \in BOOLEAN
    BY <1>11 DEF Send, TypeOK
  <2>. QED  BY <1>11, <2>2, <2>3, <2>4, SendEffect DEF Send, process, TypeOK
<1>12. ASSUME NEW e \in Event, Listen(e) PROVE TypeOK'
    BY <1>12 DEF Listen, work, broker, process, TypeOK, Stages, InCall
<1>13. ASSUME NEW e \in Event, Answered(e) PROVE TypeOK'
  <2>0. stage[e] \notin {"ok", "failed", "cut"}
    BY <1>13 DEF Answered
  <2>1. tries[e] \in 0..RetryAttempts
    <3>1. tries[e] \in 0..RetryAttempts + 1
      BY DEF TypeOK
    <3>2. tries[e] <= RetryAttempts
      BY <2>0 DEF StageOK, Ended
    <3>. QED  BY <3>1, <3>2, BoundsAssumption
  <2>2. tries[e] + 1 \in 0..RetryAttempts + 1
    BY <2>1, BoundsAssumption
  <2>. QED  BY <1>13, <2>2 DEF Answered, Failed, broker, process, TypeOK, Stages, InCall
<1>14. ASSUME NEW e \in Event, GiveUp(e) PROVE TypeOK'
  <2>0. stage[e] \notin {"ok", "failed", "cut"}
    BY <1>14 DEF GiveUp
  <2>1. tries[e] \in 0..RetryAttempts
    <3>1. tries[e] \in 0..RetryAttempts + 1
      BY DEF TypeOK
    <3>2. tries[e] <= RetryAttempts
      BY <2>0 DEF StageOK, Ended
    <3>. QED  BY <3>1, <3>2, BoundsAssumption
  <2>2. tries[e] + 1 \in 0..RetryAttempts + 1
    BY <2>1, BoundsAssumption
  <2>. QED  BY <1>14, <2>2 DEF GiveUp, Failed, broker, process, TypeOK, Stages, InCall
<1>15. CASE Hear
  <2>1. replies' \in Seq([event : Event, ack : BOOLEAN])
    BY <1>15, HeadTailProperties DEF Hear, TypeOK
  <2>2. stage' \in [Event -> Stages] /\ misheard' \in SUBSET Event
    BY <1>15 DEF Hear, TypeOK, Stages, InCall
  <2>. QED  BY <1>15, <2>1, <2>2 DEF Hear, process, TypeOK
<1>16. CASE Jam
    BY <1>16 DEF Jam, work, broker, process, TypeOK, Stages, InCall
<1>17. CASE Shutdown
    BY <1>17 DEF Shutdown, work, broker, process, TypeOK, Stages, InCall
<1>18. CASE Close
    BY <1>18 DEF Close, work, broker, process, TypeOK, Stages, InCall
<1>19. CASE Exit
    BY <1>19 DEF Exit, work, broker, process, TypeOK, Stages, InCall, Cut
<1>20. CASE Restart
  <2>1. <<>> \in Seq([event : Event, ack : BOOLEAN])
    BY EmptySeq
  <2>2. starts' \in 1..MaxStarts
    BY <1>20, BoundsAssumption DEF Restart, TypeOK
  <2>. QED  BY <1>20, <2>1, <2>2 DEF Restart, work, TypeOK
<1>21. CASE UNCHANGED vars
  BY <1>21 DEF vars, work, broker, process, TypeOK, Stages, InCall
<1>. QED
  BY <1>1, <1>2, <1>3, <1>4, <1>5, <1>6, <1>7, <1>8, <1>9, <1>10, <1>11, <1>12,
    <1>13, <1>14, <1>15, <1>16, <1>17, <1>18, <1>19, <1>20, <1>21 DEF Next,
    PublishStep

(* Every step keeps what is known of the stages.                           *)
LEMMA StageStep ==
  TypeOK /\ StageOK /\ CopiesAreAttempts /\ [Next]_vars => StageOK'
<1>. SUFFICES ASSUME TypeOK, StageOK, CopiesAreAttempts, [Next]_vars
             PROVE  StageOK'
  OBVIOUS
<1>1. CASE SetUpQueue
    BY <1>1, EventOf, Parts, BoundsAssumption DEF SetUpQueue, work, broker,
    process, TypeOK, StageOK, Ended, InCall, Stages, CopiesAreAttempts
<1>2. CASE SetUpFails
    BY <1>2, EventOf, Parts, BoundsAssumption DEF SetUpFails, work, broker,
    process, TypeOK, StageOK, Ended, InCall, Stages, CopiesAreAttempts
<1>3. CASE Serve
    BY <1>3, EventOf, Parts, BoundsAssumption DEF Serve, work, broker, process,
    TypeOK, StageOK, Ended, InCall, Stages, CopiesAreAttempts
<1>4. ASSUME NEW n \in Task, NEW kind \in Kinds, Begin(n, kind) PROVE StageOK'
  <2>0. /\ \A m \in Task : tasks'[m] = IF m = n THEN kind ELSE tasks[m]
        /\ tasks[n] = "none" /\ kind # "none"
        /\ \A f \in Event : f[1] # n => stage'[f] = stage[f]
        /\ \A m \in Task, s \in {1, 2} : m # n => stage'[<<m, s>>] = stage[<<m, s>>]
        /\ \A s \in {1, 2} : stage'[<<n, s>>] \in {"due", "turn"}
        /\ \A f \in Event : f[1] = n => stage'[f] \in {"due", "turn"}
        /\ UNCHANGED <<tries, copies>>
    BY <1>4, BeginEffect
  <2>1. \A m \in Task, s \in {1, 2} : stage'[<<m, s>>] = "none" <=> tasks'[m] = "none"
    <3>. SUFFICES ASSUME NEW m \in Task, NEW s \in {1, 2}
                  PROVE  stage'[<<m, s>>] = "none" <=> tasks'[m] = "none"
      OBVIOUS
    <3>1. CASE m = n
      BY <2>0, <3>1
    <3>2. CASE m # n
      <4>1. stage[<<m, s>>] = "none" <=> tasks[m] = "none"
        BY DEF StageOK
      <4>2. stage'[<<m, s>>] = stage[<<m, s>>] /\ tasks'[m] = tasks[m]
        BY <2>0, <3>2
      <4>. QED  BY <4>1, <4>2
    <3>. QED  BY <3>1, <3>2
  <2>2. ASSUME NEW f \in Event PROVE stage'[f] = "none" => copies'[f] = 0 /\ tries'[f] = 0
    BY <2>0 DEF StageOK
  <2>3. ASSUME NEW f \in Event PROVE ~ Ended(f)' /\ stage'[f] # "cut" => tries'[f] <= RetryAttempts
    <3>1. CASE f[1] = n
      <4>1. stage[f] = "none"
        BY <2>0, <3>1, Parts DEF StageOK
      <4>. QED  BY <2>0, <4>1, BoundsAssumption DEF StageOK
    <3>2. CASE f[1] # n
      BY <2>0, <3>2 DEF StageOK, Ended
    <3>. QED  BY <3>1, <3>2
  <2>. QED  BY <2>1, <2>2, <2>3 DEF StageOK
<1>5. ASSUME NEW n \in Task, SecondDirection(n) PROVE StageOK'
    BY <1>5, EventOf, Parts, BoundsAssumption DEF SecondDirection, work,
    broker, process, TypeOK, StageOK, Ended, InCall, Stages, CopiesAreAttempts
<1>6. ASSUME NEW n \in Task, Cancel(n) PROVE StageOK'
    BY <1>6, EventOf, Parts, BoundsAssumption DEF Cancel, work, broker,
    process, TypeOK, StageOK, Ended, InCall, Stages, CopiesAreAttempts
<1>7. ASSUME NEW n \in Task, BatchReturns(n) PROVE StageOK'
    BY <1>7, EventOf, Parts, BoundsAssumption DEF BatchReturns, work, broker,
    process, TypeOK, StageOK, Ended, InCall, Stages, CopiesAreAttempts
<1>8. ASSUME NEW e \in Event, Retry(e) PROVE StageOK'
    BY <1>8, EventOf, Parts, BoundsAssumption DEF Retry, work, broker, process,
    TypeOK, StageOK, Ended, InCall, Stages, CopiesAreAttempts
<1>9. ASSUME NEW e \in Event, AbandonRetry(e) PROVE StageOK'
    BY <1>9, EventOf, Parts, BoundsAssumption DEF AbandonRetry, work, broker,
    process, TypeOK, StageOK, Ended, InCall, Stages, CopiesAreAttempts
<1>10. ASSUME NEW e \in Event, CannotSend(e) PROVE StageOK'
    BY <1>10, EventOf, Parts, BoundsAssumption DEF CannotSend, work, broker,
    process, TypeOK, StageOK, Ended, InCall, Stages, CopiesAreAttempts, Failed
<1>11. ASSUME NEW e \in Event, Send(e) PROVE StageOK'
    BY <1>11, EventOf, Parts, BoundsAssumption DEF Send, work, broker, process,
    TypeOK, StageOK, Ended, InCall, Stages, CopiesAreAttempts, Taken
<1>12. ASSUME NEW e \in Event, Listen(e) PROVE StageOK'
    BY <1>12, EventOf, Parts, BoundsAssumption DEF Listen, work, broker,
    process, TypeOK, StageOK, Ended, InCall, Stages, CopiesAreAttempts
<1>13. ASSUME NEW e \in Event, Answered(e) PROVE StageOK'
  <2>1. CASE stage[e] = "acked" /\ stage' = [stage EXCEPT ![e] = "ok"] /\ UNCHANGED tries
    BY <1>13, <2>1 DEF Answered, broker, TypeOK, StageOK, Ended
  <2>2. CASE stage[e] = "nacked" /\ Failed(e)
    BY <1>13, <2>2, BoundsAssumption
      DEF Answered, Failed, broker, TypeOK, StageOK, Ended, InCall, Stages
  <2>. QED  BY <1>13, <2>1, <2>2 DEF Answered
<1>14. ASSUME NEW e \in Event, GiveUp(e) PROVE StageOK'
    BY <1>14, EventOf, Parts, BoundsAssumption DEF GiveUp, work, broker,
    process, TypeOK, StageOK, Ended, InCall, Stages, CopiesAreAttempts, Failed
<1>15. CASE Hear
    BY <1>15, EventOf, Parts, BoundsAssumption DEF Hear, work, broker, process,
    TypeOK, StageOK, Ended, InCall, Stages, CopiesAreAttempts
<1>16. CASE Jam
    BY <1>16, EventOf, Parts, BoundsAssumption DEF Jam, work, broker, process,
    TypeOK, StageOK, Ended, InCall, Stages, CopiesAreAttempts
<1>17. CASE Shutdown
    BY <1>17, EventOf, Parts, BoundsAssumption DEF Shutdown, work, broker,
    process, TypeOK, StageOK, Ended, InCall, Stages, CopiesAreAttempts
<1>18. CASE Close
    BY <1>18, EventOf, Parts, BoundsAssumption DEF Close, work, broker,
    process, TypeOK, StageOK, Ended, InCall, Stages, CopiesAreAttempts
<1>19. CASE Exit
  <2>1. \A f \in Event :
          stage'[f] = IF Ended(f) \/ stage[f] = "none" THEN stage[f] ELSE "cut"
    BY <1>19 DEF Exit, Cut, Known
  <2>2. UNCHANGED <<tasks, copies, tries>>
    BY <1>19 DEF Exit, broker
  <2>3. \A m \in Task, s \in {1, 2} : stage'[<<m, s>>] = "none" <=> stage[<<m, s>>] = "none"
    BY <2>1, EventOf DEF Ended
  <2>. QED  BY <2>1, <2>2, <2>3 DEF StageOK, Ended
<1>20. CASE Restart
    BY <1>20, EventOf, Parts, BoundsAssumption DEF Restart, work, broker,
    process, TypeOK, StageOK, Ended, InCall, Stages, CopiesAreAttempts
<1>21. CASE UNCHANGED vars
  BY <1>21 DEF vars, work, broker, process, TypeOK, StageOK, Ended, InCall,
    Stages, CopiesAreAttempts
<1>. QED
  BY <1>1, <1>2, <1>3, <1>4, <1>5, <1>6, <1>7, <1>8, <1>9, <1>10, <1>11, <1>12,
    <1>13, <1>14, <1>15, <1>16, <1>17, <1>18, <1>19, <1>20, <1>21 DEF Next,
    PublishStep

(* No step publishes without an attempt.                                   *)
LEMMA CopiesStep ==
  TypeOK /\ StageOK /\ CopiesAreAttempts /\ [Next]_vars => CopiesAreAttempts'
<1>. SUFFICES ASSUME TypeOK, StageOK, CopiesAreAttempts, [Next]_vars
             PROVE  CopiesAreAttempts'
  OBVIOUS
<1>1. CASE SetUpQueue
    BY <1>1, EventOf, Parts DEF SetUpQueue, work, broker, process, TypeOK,
    StageOK, Ended, InCall, Stages, CopiesAreAttempts
<1>2. CASE SetUpFails
    BY <1>2, EventOf, Parts DEF SetUpFails, work, broker, process, TypeOK,
    StageOK, Ended, InCall, Stages, CopiesAreAttempts
<1>3. CASE Serve
    BY <1>3, EventOf, Parts DEF Serve, work, broker, process, TypeOK, StageOK,
    Ended, InCall, Stages, CopiesAreAttempts
<1>4. ASSUME NEW n \in Task, NEW kind \in Kinds, Begin(n, kind)
      PROVE  CopiesAreAttempts'
    BY <1>4, EventOf, Parts DEF Begin, work, broker, process, TypeOK, StageOK,
    Ended, InCall, Stages, CopiesAreAttempts
<1>5. ASSUME NEW n \in Task, SecondDirection(n) PROVE CopiesAreAttempts'
    BY <1>5, EventOf, Parts DEF SecondDirection, work, broker, process, TypeOK,
    StageOK, Ended, InCall, Stages, CopiesAreAttempts
<1>6. ASSUME NEW n \in Task, Cancel(n) PROVE CopiesAreAttempts'
    BY <1>6, EventOf, Parts DEF Cancel, work, broker, process, TypeOK, StageOK,
    Ended, InCall, Stages, CopiesAreAttempts
<1>7. ASSUME NEW n \in Task, BatchReturns(n) PROVE CopiesAreAttempts'
    BY <1>7, EventOf, Parts DEF BatchReturns, work, broker, process, TypeOK,
    StageOK, Ended, InCall, Stages, CopiesAreAttempts
<1>8. ASSUME NEW e \in Event, Retry(e) PROVE CopiesAreAttempts'
    BY <1>8, EventOf, Parts DEF Retry, work, broker, process, TypeOK, StageOK,
    Ended, InCall, Stages, CopiesAreAttempts
<1>9. ASSUME NEW e \in Event, AbandonRetry(e) PROVE CopiesAreAttempts'
    BY <1>9, EventOf, Parts DEF AbandonRetry, work, broker, process, TypeOK,
    StageOK, Ended, InCall, Stages, CopiesAreAttempts
<1>10. ASSUME NEW e \in Event, CannotSend(e) PROVE CopiesAreAttempts'
    BY <1>10, EventOf, Parts DEF CannotSend, work, broker, process, TypeOK,
    StageOK, Ended, InCall, Stages, CopiesAreAttempts, Failed
<1>11. ASSUME NEW e \in Event, Send(e) PROVE CopiesAreAttempts'
  <2>0. /\ \/ copies' = [copies EXCEPT ![e] = copies[e] + 1]
           \/ copies' = copies
        /\ stage' = [stage EXCEPT ![e] = "sent"] /\ stage[e] = "due"
        /\ copies \in [Event -> Nat] /\ stage \in [Event -> Stages]
    <3>1. copies \in [Event -> Nat] /\ stage \in [Event -> Stages]
      BY DEF TypeOK
    <3>. QED  BY <1>11, <3>1, SendEffect
  <2>1. \A f \in Event : /\ copies[f] \in Nat /\ copies'[f] \in Nat
                           /\ copies'[f] <= copies[f] + (IF f = e THEN 1 ELSE 0)
    BY <2>0
  <2>2. UNCHANGED tries
    BY <1>11 DEF Send
  <2>3. \A f \in Event : stage'[f] = IF f = e THEN "sent" ELSE stage[f]
    BY <2>0
  <2>. SUFFICES ASSUME NEW f \in Event
                PROVE  copies'[f] <= tries'[f] + (IF stage'[f] \in InCall \cup {"ok", "cut"} THEN 1 ELSE 0)
    BY DEF CopiesAreAttempts
  <2>4. tries[f] \in Nat /\ copies[f] <= tries[f] + (IF stage[f] \in InCall \cup {"ok", "cut"} THEN 1 ELSE 0)
    BY BoundsAssumption DEF CopiesAreAttempts, TypeOK
  <2>5. CASE f = e
    BY <2>0, <2>1, <2>2, <2>3, <2>4, <2>5 DEF InCall
  <2>6. CASE f # e
    BY <2>1, <2>2, <2>3, <2>4, <2>6
  <2>. QED  BY <2>5, <2>6
<1>12. ASSUME NEW e \in Event, Listen(e) PROVE CopiesAreAttempts'
    BY <1>12, EventOf, Parts DEF Listen, work, broker, process, TypeOK,
    StageOK, Ended, InCall, Stages, CopiesAreAttempts
<1>13. ASSUME NEW e \in Event, Answered(e) PROVE CopiesAreAttempts'
    BY <1>13, EventOf, Parts DEF Answered, work, broker, process, TypeOK,
    StageOK, Ended, InCall, Stages, CopiesAreAttempts, Failed
<1>14. ASSUME NEW e \in Event, GiveUp(e) PROVE CopiesAreAttempts'
    BY <1>14, EventOf, Parts DEF GiveUp, work, broker, process, TypeOK,
    StageOK, Ended, InCall, Stages, CopiesAreAttempts, Failed
<1>15. CASE Hear
    BY <1>15, EventOf, Parts DEF Hear, work, broker, process, TypeOK, StageOK,
    Ended, InCall, Stages, CopiesAreAttempts
<1>16. CASE Jam
    BY <1>16, EventOf, Parts DEF Jam, work, broker, process, TypeOK, StageOK,
    Ended, InCall, Stages, CopiesAreAttempts
<1>17. CASE Shutdown
    BY <1>17, EventOf, Parts DEF Shutdown, work, broker, process, TypeOK,
    StageOK, Ended, InCall, Stages, CopiesAreAttempts
<1>18. CASE Close
    BY <1>18, EventOf, Parts DEF Close, work, broker, process, TypeOK, StageOK,
    Ended, InCall, Stages, CopiesAreAttempts
<1>19. CASE Exit
    BY <1>19, EventOf, Parts DEF Exit, work, broker, process, TypeOK, StageOK,
    Ended, InCall, Stages, CopiesAreAttempts, Cut
<1>20. CASE Restart
    BY <1>20, EventOf, Parts DEF Restart, work, broker, process, TypeOK,
    StageOK, Ended, InCall, Stages, CopiesAreAttempts
<1>21. CASE UNCHANGED vars
  BY <1>21 DEF vars, work, broker, process, TypeOK, StageOK, Ended, InCall,
    Stages, CopiesAreAttempts
<1>. QED
  BY <1>1, <1>2, <1>3, <1>4, <1>5, <1>6, <1>7, <1>8, <1>9, <1>10, <1>11, <1>12,
    <1>13, <1>14, <1>15, <1>16, <1>17, <1>18, <1>19, <1>20, <1>21 DEF Next,
    PublishStep

(* Every step keeps what is known of the answers.                          *)
LEMMA HeardStep ==
  TypeOK /\ HeardOK /\ [Next]_vars => HeardOK'
<1>. SUFFICES ASSUME TypeOK, HeardOK, [Next]_vars
             PROVE  HeardOK'
  OBVIOUS
<1>1. CASE SetUpQueue
    BY <1>1 DEF SetUpQueue, work, broker, process, TypeOK, HeardOK
<1>2. CASE SetUpFails
    BY <1>2 DEF SetUpFails, work, broker, process, TypeOK, HeardOK
<1>3. CASE Serve
    BY <1>3 DEF Serve, work, broker, process, TypeOK, HeardOK
<1>4. ASSUME NEW n \in Task, NEW kind \in Kinds, Begin(n, kind) PROVE HeardOK'
    BY <1>4 DEF Begin, work, broker, process, TypeOK, HeardOK
<1>5. ASSUME NEW n \in Task, SecondDirection(n) PROVE HeardOK'
    BY <1>5 DEF SecondDirection, work, broker, process, TypeOK, HeardOK
<1>6. ASSUME NEW n \in Task, Cancel(n) PROVE HeardOK'
    BY <1>6 DEF Cancel, work, broker, process, TypeOK, HeardOK
<1>7. ASSUME NEW n \in Task, BatchReturns(n) PROVE HeardOK'
    BY <1>7 DEF BatchReturns, work, broker, process, TypeOK, HeardOK
<1>8. ASSUME NEW e \in Event, Retry(e) PROVE HeardOK'
    BY <1>8 DEF Retry, work, broker, process, TypeOK, HeardOK
<1>9. ASSUME NEW e \in Event, AbandonRetry(e) PROVE HeardOK'
    BY <1>9 DEF AbandonRetry, work, broker, process, TypeOK, HeardOK
<1>10. ASSUME NEW e \in Event, CannotSend(e) PROVE HeardOK'
    BY <1>10 DEF CannotSend, work, broker, process, TypeOK, HeardOK, Failed
<1>11. ASSUME NEW e \in Event, Send(e) PROVE HeardOK'
  <2>0. /\ \/ copies' = [copies EXCEPT ![e] = copies[e] + 1]
           \/ copies' = copies
        /\ stage' = [stage EXCEPT ![e] = "sent"] /\ stage[e] = "due"
        /\ copies \in [Event -> Nat] /\ stage \in [Event -> Stages]
    <3>1. copies \in [Event -> Nat] /\ stage \in [Event -> Stages]
      BY DEF TypeOK
    <3>. QED  BY <1>11, <3>1, SendEffect
  <2>1. \A f \in Event : copies'[f] >= copies[f] /\ copies[f] \in Nat /\ copies'[f] \in Nat
    BY <2>0
  <2>2. \A f \in Event : stage'[f] = "acked" => stage[f] = "acked"
    BY <2>0
  <2>3. misheard' = misheard
    BY <1>11 DEF Send
  <2>4. ASSUME NEW i \in 1..Len(replies'), replies'[i].ack
        PROVE  copies'[replies'[i].event] > 0
    <3>1. replies \in Seq([event : Event, ack : BOOLEAN])
      BY DEF TypeOK
    <3>2. ASSUME i \in 1..Len(replies), replies'[i] = replies[i]
          PROVE  copies'[replies'[i].event] > 0
      <4>1. replies[i] \in [event : Event, ack : BOOLEAN]
        BY <3>1, <3>2, ElementOfSeq
      <4>2. copies[replies[i].event] > 0
        BY <2>4, <3>2 DEF HeardOK
      <4>. QED  BY <2>1, <3>2, <4>1, <4>2
    <3>3. CASE replies' = replies
      BY <3>2, <3>3
    <3>4. ASSUME NEW r, replies' = Append(replies, r)
          PROVE  \/ i = Len(replies) + 1 /\ replies'[i] = r
                 \/ i \in 1..Len(replies) /\ replies'[i] = replies[i]
      BY <3>1, <3>4
    <3>5. CASE replies' = Append(replies, [event |-> e, ack |-> FALSE])
      BY <2>4, <3>2, <3>4, <3>5
    <3>6. CASE /\ replies' = Append(replies, [event |-> e, ack |-> TRUE])
               /\ copies' = [copies EXCEPT ![e] = copies[e] + 1]
      <4>1. copies'[e] > 0
        BY <3>6 DEF TypeOK
      <4>. QED  BY <3>2, <3>4, <3>6, <4>1
    <3>. QED  BY <1>11, <3>3, <3>5, <3>6, SendEffect
  <2>5. \A f \in Event : stage'[f] = "acked" => copies'[f] > 0 \/ f \in misheard'
    BY <2>1, <2>2, <2>3 DEF HeardOK
  <2>. QED  BY <2>4, <2>5 DEF HeardOK
<1>12. ASSUME NEW e \in Event, Listen(e) PROVE HeardOK'
    BY <1>12 DEF Listen, work, broker, process, TypeOK, HeardOK
<1>13. ASSUME NEW e \in Event, Answered(e) PROVE HeardOK'
    BY <1>13 DEF Answered, work, broker, process, TypeOK, HeardOK, Failed
<1>14. ASSUME NEW e \in Event, GiveUp(e) PROVE HeardOK'
    BY <1>14 DEF GiveUp, work, broker, process, TypeOK, HeardOK, Failed
<1>15. CASE Hear
    BY <1>15 DEF Hear, work, broker, process, TypeOK, HeardOK
<1>16. CASE Jam
    BY <1>16 DEF Jam, work, broker, process, TypeOK, HeardOK
<1>17. CASE Shutdown
    BY <1>17 DEF Shutdown, work, broker, process, TypeOK, HeardOK
<1>18. CASE Close
    BY <1>18 DEF Close, work, broker, process, TypeOK, HeardOK
<1>19. CASE Exit
    BY <1>19 DEF Exit, work, broker, process, TypeOK, HeardOK, Cut
<1>20. CASE Restart
    BY <1>20 DEF Restart, work, broker, process, TypeOK, HeardOK
<1>21. CASE UNCHANGED vars
  BY <1>21 DEF vars, work, broker, process, TypeOK, HeardOK
<1>. QED
  BY <1>1, <1>2, <1>3, <1>4, <1>5, <1>6, <1>7, <1>8, <1>9, <1>10, <1>11, <1>12,
    <1>13, <1>14, <1>15, <1>16, <1>17, <1>18, <1>19, <1>20, <1>21 DEF Next,
    PublishStep

(* No step serves without queues.                                          *)
LEMMA SetUpStep ==
  TypeOK /\ SetUpOK /\ [Next]_vars => SetUpOK'
<1>. SUFFICES ASSUME TypeOK, SetUpOK, [Next]_vars
             PROVE  SetUpOK'
  OBVIOUS
<1>1. CASE SetUpQueue
    BY <1>1 DEF SetUpQueue, work, broker, process, TypeOK, SetUpOK, Running
<1>2. CASE SetUpFails
    BY <1>2 DEF SetUpFails, work, broker, process, TypeOK, SetUpOK, Running
<1>3. CASE Serve
    BY <1>3 DEF Serve, work, broker, process, TypeOK, SetUpOK, Running
<1>4. ASSUME NEW n \in Task, NEW kind \in Kinds, Begin(n, kind) PROVE SetUpOK'
    BY <1>4 DEF Begin, work, broker, process, TypeOK, SetUpOK, Running
<1>5. ASSUME NEW n \in Task, SecondDirection(n) PROVE SetUpOK'
    BY <1>5 DEF SecondDirection, work, broker, process, TypeOK, SetUpOK,
    Running
<1>6. ASSUME NEW n \in Task, Cancel(n) PROVE SetUpOK'
    BY <1>6 DEF Cancel, work, broker, process, TypeOK, SetUpOK, Running
<1>7. ASSUME NEW n \in Task, BatchReturns(n) PROVE SetUpOK'
    BY <1>7 DEF BatchReturns, work, broker, process, TypeOK, SetUpOK, Running
<1>8. ASSUME NEW e \in Event, Retry(e) PROVE SetUpOK'
    BY <1>8 DEF Retry, work, broker, process, TypeOK, SetUpOK, Running
<1>9. ASSUME NEW e \in Event, AbandonRetry(e) PROVE SetUpOK'
    BY <1>9 DEF AbandonRetry, work, broker, process, TypeOK, SetUpOK, Running
<1>10. ASSUME NEW e \in Event, CannotSend(e) PROVE SetUpOK'
    BY <1>10 DEF CannotSend, work, broker, process, TypeOK, SetUpOK, Running,
    Failed
<1>11. ASSUME NEW e \in Event, Send(e) PROVE SetUpOK'
    BY <1>11 DEF Send, work, broker, process, TypeOK, SetUpOK, Running, Taken
<1>12. ASSUME NEW e \in Event, Listen(e) PROVE SetUpOK'
    BY <1>12 DEF Listen, work, broker, process, TypeOK, SetUpOK, Running
<1>13. ASSUME NEW e \in Event, Answered(e) PROVE SetUpOK'
    BY <1>13 DEF Answered, work, broker, process, TypeOK, SetUpOK, Running,
    Failed
<1>14. ASSUME NEW e \in Event, GiveUp(e) PROVE SetUpOK'
    BY <1>14 DEF GiveUp, work, broker, process, TypeOK, SetUpOK, Running,
    Failed
<1>15. CASE Hear
    BY <1>15 DEF Hear, work, broker, process, TypeOK, SetUpOK, Running
<1>16. CASE Jam
    BY <1>16 DEF Jam, work, broker, process, TypeOK, SetUpOK, Running
<1>17. CASE Shutdown
    BY <1>17 DEF Shutdown, work, broker, process, TypeOK, SetUpOK, Running
<1>18. CASE Close
    BY <1>18 DEF Close, work, broker, process, TypeOK, SetUpOK, Running
<1>19. CASE Exit
    BY <1>19 DEF Exit, work, broker, process, TypeOK, SetUpOK, Running, Cut
<1>20. CASE Restart
    BY <1>20 DEF Restart, work, broker, process, TypeOK, SetUpOK, Running
<1>21. CASE UNCHANGED vars
  BY <1>21 DEF vars, work, broker, process, TypeOK, SetUpOK, Running
<1>. QED
  BY <1>1, <1>2, <1>3, <1>4, <1>5, <1>6, <1>7, <1>8, <1>9, <1>10, <1>11, <1>12,
    <1>13, <1>14, <1>15, <1>16, <1>17, <1>18, <1>19, <1>20, <1>21 DEF Next,
    PublishStep

(* Every step keeps what the unsent events have reached.                   *)
LEMMA UnroutedStep ==
  TypeOK /\ UnroutedOK /\ [Next]_vars => UnroutedOK'
<1>. SUFFICES ASSUME TypeOK, UnroutedOK, [Next]_vars
             PROVE  UnroutedOK'
  OBVIOUS
<1>1. CASE SetUpQueue
    BY <1>1 DEF SetUpQueue, work, broker, process, TypeOK, UnroutedOK
<1>2. CASE SetUpFails
    BY <1>2 DEF SetUpFails, work, broker, process, TypeOK, UnroutedOK
<1>3. CASE Serve
    BY <1>3 DEF Serve, work, broker, process, TypeOK, UnroutedOK
<1>4. ASSUME NEW n \in Task, NEW kind \in Kinds, Begin(n, kind)
      PROVE  UnroutedOK'
    BY <1>4 DEF Begin, work, broker, process, TypeOK, UnroutedOK
<1>5. ASSUME NEW n \in Task, SecondDirection(n) PROVE UnroutedOK'
    BY <1>5 DEF SecondDirection, work, broker, process, TypeOK, UnroutedOK
<1>6. ASSUME NEW n \in Task, Cancel(n) PROVE UnroutedOK'
    BY <1>6 DEF Cancel, work, broker, process, TypeOK, UnroutedOK
<1>7. ASSUME NEW n \in Task, BatchReturns(n) PROVE UnroutedOK'
    BY <1>7 DEF BatchReturns, work, broker, process, TypeOK, UnroutedOK
<1>8. ASSUME NEW e \in Event, Retry(e) PROVE UnroutedOK'
    BY <1>8 DEF Retry, work, broker, process, TypeOK, UnroutedOK
<1>9. ASSUME NEW e \in Event, AbandonRetry(e) PROVE UnroutedOK'
    BY <1>9 DEF AbandonRetry, work, broker, process, TypeOK, UnroutedOK
<1>10. ASSUME NEW e \in Event, CannotSend(e) PROVE UnroutedOK'
    BY <1>10 DEF CannotSend, work, broker, process, TypeOK, UnroutedOK, Failed
<1>11. ASSUME NEW e \in Event, Send(e) PROVE UnroutedOK'
  <2>0. /\ copies \in [Event -> Nat] /\ reached \in [Event -> SUBSET Queues]
        /\ \/ /\ copies' = [copies EXCEPT ![e] = copies[e] + 1]
              /\ reached' = [reached EXCEPT ![e] = reached[e] \cap Routes(e)]
           \/ copies' = copies /\ reached' = reached
    <3>1. copies \in [Event -> Nat] /\ reached \in [Event -> SUBSET Queues]
      BY DEF TypeOK
    <3>. QED  BY <1>11, <3>1, SendEffect
  <2>1. ASSUME NEW f \in Event, copies'[f] = 0 PROVE copies[f] = 0 /\ reached'[f] = reached[f]
    BY <2>0, <2>1
  <2>. QED  BY <2>1 DEF UnroutedOK
<1>12. ASSUME NEW e \in Event, Listen(e) PROVE UnroutedOK'
    BY <1>12 DEF Listen, work, broker, process, TypeOK, UnroutedOK
<1>13. ASSUME NEW e \in Event, Answered(e) PROVE UnroutedOK'
    BY <1>13 DEF Answered, work, broker, process, TypeOK, UnroutedOK, Failed
<1>14. ASSUME NEW e \in Event, GiveUp(e) PROVE UnroutedOK'
    BY <1>14 DEF GiveUp, work, broker, process, TypeOK, UnroutedOK, Failed
<1>15. CASE Hear
    BY <1>15 DEF Hear, work, broker, process, TypeOK, UnroutedOK
<1>16. CASE Jam
    BY <1>16 DEF Jam, work, broker, process, TypeOK, UnroutedOK
<1>17. CASE Shutdown
    BY <1>17 DEF Shutdown, work, broker, process, TypeOK, UnroutedOK
<1>18. CASE Close
    BY <1>18 DEF Close, work, broker, process, TypeOK, UnroutedOK
<1>19. CASE Exit
    BY <1>19 DEF Exit, work, broker, process, TypeOK, UnroutedOK, Cut
<1>20. CASE Restart
    BY <1>20 DEF Restart, work, broker, process, TypeOK, UnroutedOK
<1>21. CASE UNCHANGED vars
  BY <1>21 DEF vars, work, broker, process, TypeOK, UnroutedOK
<1>. QED
  BY <1>1, <1>2, <1>3, <1>4, <1>5, <1>6, <1>7, <1>8, <1>9, <1>10, <1>11, <1>12,
    <1>13, <1>14, <1>15, <1>16, <1>17, <1>18, <1>19, <1>20, <1>21 DEF Next,
    PublishStep

(* No step makes the answer of a batch untrue.                             *)
LEMMA BatchStep ==
  TypeOK /\ StageOK /\ BatchTellsTheTruth /\ [Next]_vars => BatchTellsTheTruth'
<1>. SUFFICES ASSUME TypeOK, StageOK, BatchTellsTheTruth, [Next]_vars
             PROVE  BatchTellsTheTruth'
  OBVIOUS
<1>1. CASE SetUpQueue
    BY <1>1, EventOf DEF SetUpQueue, work, broker, process, TypeOK, StageOK,
    Ended, InCall, Stages, BatchTellsTheTruth
<1>2. CASE SetUpFails
    BY <1>2, EventOf DEF SetUpFails, work, broker, process, TypeOK, StageOK,
    Ended, InCall, Stages, BatchTellsTheTruth
<1>3. CASE Serve
    BY <1>3, EventOf DEF Serve, work, broker, process, TypeOK, StageOK, Ended,
    InCall, Stages, BatchTellsTheTruth
<1>4. ASSUME NEW n \in Task, NEW kind \in Kinds, Begin(n, kind)
      PROVE  BatchTellsTheTruth'
    BY <1>4, EventOf DEF Begin, work, broker, process, TypeOK, StageOK, Ended,
    InCall, Stages, BatchTellsTheTruth
<1>5. ASSUME NEW n \in Task, SecondDirection(n) PROVE BatchTellsTheTruth'
    BY <1>5, EventOf DEF SecondDirection, work, broker, process, TypeOK,
    StageOK, Ended, InCall, Stages, BatchTellsTheTruth
<1>6. ASSUME NEW n \in Task, Cancel(n) PROVE BatchTellsTheTruth'
    BY <1>6, EventOf DEF Cancel, work, broker, process, TypeOK, StageOK, Ended,
    InCall, Stages, BatchTellsTheTruth
<1>7. ASSUME NEW n \in Task, BatchReturns(n) PROVE BatchTellsTheTruth'
    BY <1>7, EventOf DEF BatchReturns, work, broker, process, TypeOK, StageOK,
    Ended, InCall, Stages, BatchTellsTheTruth
<1>8. ASSUME NEW e \in Event, Retry(e) PROVE BatchTellsTheTruth'
    BY <1>8, EventOf DEF Retry, work, broker, process, TypeOK, StageOK, Ended,
    InCall, Stages, BatchTellsTheTruth
<1>9. ASSUME NEW e \in Event, AbandonRetry(e) PROVE BatchTellsTheTruth'
    BY <1>9, EventOf DEF AbandonRetry, work, broker, process, TypeOK, StageOK,
    Ended, InCall, Stages, BatchTellsTheTruth
<1>10. ASSUME NEW e \in Event, CannotSend(e) PROVE BatchTellsTheTruth'
    BY <1>10, EventOf DEF CannotSend, work, broker, process, TypeOK, StageOK,
    Ended, InCall, Stages, BatchTellsTheTruth, Failed
<1>11. ASSUME NEW e \in Event, Send(e) PROVE BatchTellsTheTruth'
    BY <1>11, EventOf DEF Send, work, broker, process, TypeOK, StageOK, Ended,
    InCall, Stages, BatchTellsTheTruth, Taken
<1>12. ASSUME NEW e \in Event, Listen(e) PROVE BatchTellsTheTruth'
    BY <1>12, EventOf DEF Listen, work, broker, process, TypeOK, StageOK,
    Ended, InCall, Stages, BatchTellsTheTruth
<1>13. ASSUME NEW e \in Event, Answered(e) PROVE BatchTellsTheTruth'
    BY <1>13, EventOf DEF Answered, work, broker, process, TypeOK, StageOK,
    Ended, InCall, Stages, BatchTellsTheTruth, Failed
<1>14. ASSUME NEW e \in Event, GiveUp(e) PROVE BatchTellsTheTruth'
    BY <1>14, EventOf DEF GiveUp, work, broker, process, TypeOK, StageOK,
    Ended, InCall, Stages, BatchTellsTheTruth, Failed
<1>15. CASE Hear
    BY <1>15, EventOf DEF Hear, work, broker, process, TypeOK, StageOK, Ended,
    InCall, Stages, BatchTellsTheTruth
<1>16. CASE Jam
    BY <1>16, EventOf DEF Jam, work, broker, process, TypeOK, StageOK, Ended,
    InCall, Stages, BatchTellsTheTruth
<1>17. CASE Shutdown
    BY <1>17, EventOf DEF Shutdown, work, broker, process, TypeOK, StageOK,
    Ended, InCall, Stages, BatchTellsTheTruth
<1>18. CASE Close
    BY <1>18, EventOf DEF Close, work, broker, process, TypeOK, StageOK, Ended,
    InCall, Stages, BatchTellsTheTruth
<1>19. CASE Exit
    BY <1>19, EventOf DEF Exit, work, broker, process, TypeOK, StageOK, Ended,
    InCall, Stages, BatchTellsTheTruth, Cut
<1>20. CASE Restart
    BY <1>20, EventOf DEF Restart, work, broker, process, TypeOK, StageOK,
    Ended, InCall, Stages, BatchTellsTheTruth
<1>21. CASE UNCHANGED vars
  BY <1>21 DEF vars, work, broker, process, TypeOK, StageOK, Ended, InCall,
    Stages, BatchTellsTheTruth
<1>. QED
  BY <1>1, <1>2, <1>3, <1>4, <1>5, <1>6, <1>7, <1>8, <1>9, <1>10, <1>11, <1>12,
    <1>13, <1>14, <1>15, <1>16, <1>17, <1>18, <1>19, <1>20, <1>21 DEF Next,
    PublishStep

(* Every copy is routed over all bindings.                                 *)
LEMMA RoutedStep ==
  TypeOK /\ StageOK /\ SetUpOK /\ UnroutedOK /\ NothingUnrouted /\ [Next]_vars => NothingUnrouted'
<1>. SUFFICES ASSUME TypeOK, StageOK, SetUpOK, UnroutedOK, NothingUnrouted, [Next]_vars
             PROVE  NothingUnrouted'
  OBVIOUS
<1>1. CASE SetUpQueue
    BY <1>1, EventOf, Parts DEF SetUpQueue, work, broker, process, TypeOK,
    StageOK, SetUpOK, NothingUnrouted, Published, RoutingKey, Running
<1>2. CASE SetUpFails
    BY <1>2, EventOf, Parts DEF SetUpFails, work, broker, process, TypeOK,
    StageOK, SetUpOK, NothingUnrouted, Published, RoutingKey, Running
<1>3. CASE Serve
    BY <1>3, EventOf, Parts DEF Serve, work, broker, process, TypeOK, StageOK,
    SetUpOK, NothingUnrouted, Published, RoutingKey, Running
<1>4. ASSUME NEW n \in Task, NEW kind \in Kinds, Begin(n, kind)
      PROVE  NothingUnrouted'
  <2>1. ASSUME NEW f \in Published'
        PROVE  f \in Published /\ RoutingKey(f)' = RoutingKey(f) /\ reached'[f] = reached[f]
    <3>1. f \in Event /\ copies[f] > 0 /\ UNCHANGED <<copies, reached>>
      BY <1>4, BeginEffect DEF Published
    <3>2. stage[f] # "none" /\ f[1] \in Task
      BY <3>1, Parts DEF StageOK, TypeOK
    <3>3. tasks[f[1]] # "none"
      BY <3>1, <3>2, Parts DEF StageOK
    <3>4. tasks'[f[1]] = tasks[f[1]]
      BY <1>4, <3>2, <3>3, BeginEffect
    <3>. QED  BY <3>1, <3>4 DEF Published, RoutingKey
  <2>. QED  BY <2>1 DEF NothingUnrouted
<1>5. ASSUME NEW n \in Task, SecondDirection(n) PROVE NothingUnrouted'
    BY <1>5, EventOf, Parts DEF SecondDirection, work, broker, process, TypeOK,
    StageOK, SetUpOK, NothingUnrouted, Published, RoutingKey, Running
<1>6. ASSUME NEW n \in Task, Cancel(n) PROVE NothingUnrouted'
    BY <1>6, EventOf, Parts DEF Cancel, work, broker, process, TypeOK, StageOK,
    SetUpOK, NothingUnrouted, Published, RoutingKey, Running
<1>7. ASSUME NEW n \in Task, BatchReturns(n) PROVE NothingUnrouted'
    BY <1>7, EventOf, Parts DEF BatchReturns, work, broker, process, TypeOK,
    StageOK, SetUpOK, NothingUnrouted, Published, RoutingKey, Running
<1>8. ASSUME NEW e \in Event, Retry(e) PROVE NothingUnrouted'
    BY <1>8, EventOf, Parts DEF Retry, work, broker, process, TypeOK, StageOK,
    SetUpOK, NothingUnrouted, Published, RoutingKey, Running
<1>9. ASSUME NEW e \in Event, AbandonRetry(e) PROVE NothingUnrouted'
    BY <1>9, EventOf, Parts DEF AbandonRetry, work, broker, process, TypeOK,
    StageOK, SetUpOK, NothingUnrouted, Published, RoutingKey, Running
<1>10. ASSUME NEW e \in Event, CannotSend(e) PROVE NothingUnrouted'
    BY <1>10, EventOf, Parts DEF CannotSend, work, broker, process, TypeOK,
    StageOK, SetUpOK, NothingUnrouted, Published, RoutingKey, Running, Failed
<1>11. ASSUME NEW e \in Event, Send(e) PROVE NothingUnrouted'
  <2>0. /\ copies \in [Event -> Nat] /\ reached \in [Event -> SUBSET Queues]
        /\ \/ /\ copies' = [copies EXCEPT ![e] = copies[e] + 1]
              /\ reached' = [reached EXCEPT ![e] = reached[e] \cap Routes(e)]
           \/ copies' = copies /\ reached' = reached
        /\ stage[e] = "due"
    <3>1. copies \in [Event -> Nat] /\ reached \in [Event -> SUBSET Queues]
      BY DEF TypeOK
    <3>. QED  BY <1>11, <3>1, SendEffect
  <2>1. bound = Queues /\ UNCHANGED tasks
    BY <1>11 DEF Send, SetUpOK, Running
  <2>2. ASSUME NEW f \in Event PROVE RoutingKey(f)' = RoutingKey(f)
    BY <2>1 DEF RoutingKey
  <2>3. tasks[e[1]] \in {"added", "removed", "batch"}
    <3>1. e[1] \in Task /\ e[2] \in {1, 2} /\ e = <<e[1], e[2]>>
      BY Parts
    <3>2. tasks[e[1]] # "none"
      BY <2>0, <3>1 DEF StageOK
    <3>. QED  BY <3>1, <3>2, KindsAssumption DEF TypeOK
  <2>4. "analytics" \in Routes(e)
    BY <2>1 DEF Routes, Queues, Keys
  <2>5. RoutingKey(e) # "recommendation.generated" => "searchIndex" \in Routes(e)
    BY <2>1, <2>3, Parts DEF Routes, Queues, Keys, RoutingKey
  <2>6. "analytics" \in Queues /\ "searchIndex" \in Queues
    BY DEF Queues, Keys
  <2>7. ASSUME NEW f \in Published', f # e
        PROVE  f \in Published /\ reached'[f] = reached[f]
    BY <2>0, <2>7 DEF Published
  <2>8. ASSUME e \in Published'
        PROVE  /\ "analytics" \in reached'[e]
               /\ RoutingKey(e) # "recommendation.generated" => "searchIndex" \in reached'[e]
    <3>1. copies[e] = 0 => reached[e] = Queues
      BY DEF UnroutedOK
    <3>2. copies[e] > 0 => e \in Published
      BY DEF Published
    <3>3. CASE /\ copies' = [copies EXCEPT ![e] = copies[e] + 1]
               /\ reached' = [reached EXCEPT ![e] = reached[e] \cap Routes(e)]
      <4>1. reached'[e] = reached[e] \cap Routes(e)
        BY <2>0, <3>3
      <4>2. copies[e] = 0 \/ copies[e] > 0
        BY <2>0
      <4>3. CASE copies[e] = 0
        BY <2>4, <2>5, <2>6, <3>1, <4>1, <4>3
      <4>4. CASE copies[e] > 0
        BY <2>4, <2>5, <3>2, <4>1, <4>4 DEF NothingUnrouted
      <4>. QED  BY <4>2, <4>3, <4>4
    <3>4. CASE copies' = copies /\ reached' = reached
      BY <2>8, <3>4 DEF Published, NothingUnrouted
    <3>. QED  BY <2>0, <3>3, <3>4
  <2>. QED  BY <2>2, <2>7, <2>8 DEF NothingUnrouted, Published
<1>12. ASSUME NEW e \in Event, Listen(e) PROVE NothingUnrouted'
    BY <1>12, EventOf, Parts DEF Listen, work, broker, process, TypeOK,
    StageOK, SetUpOK, NothingUnrouted, Published, RoutingKey, Running
<1>13. ASSUME NEW e \in Event, Answered(e) PROVE NothingUnrouted'
    BY <1>13, EventOf, Parts DEF Answered, work, broker, process, TypeOK,
    StageOK, SetUpOK, NothingUnrouted, Published, RoutingKey, Running, Failed
<1>14. ASSUME NEW e \in Event, GiveUp(e) PROVE NothingUnrouted'
    BY <1>14, EventOf, Parts DEF GiveUp, work, broker, process, TypeOK,
    StageOK, SetUpOK, NothingUnrouted, Published, RoutingKey, Running, Failed
<1>15. CASE Hear
    BY <1>15, EventOf, Parts DEF Hear, work, broker, process, TypeOK, StageOK,
    SetUpOK, NothingUnrouted, Published, RoutingKey, Running
<1>16. CASE Jam
    BY <1>16, EventOf, Parts DEF Jam, work, broker, process, TypeOK, StageOK,
    SetUpOK, NothingUnrouted, Published, RoutingKey, Running
<1>17. CASE Shutdown
    BY <1>17, EventOf, Parts DEF Shutdown, work, broker, process, TypeOK,
    StageOK, SetUpOK, NothingUnrouted, Published, RoutingKey, Running
<1>18. CASE Close
    BY <1>18, EventOf, Parts DEF Close, work, broker, process, TypeOK, StageOK,
    SetUpOK, NothingUnrouted, Published, RoutingKey, Running
<1>19. CASE Exit
    BY <1>19, EventOf, Parts DEF Exit, work, broker, process, TypeOK, StageOK,
    SetUpOK, NothingUnrouted, Published, RoutingKey, Running, Cut
<1>20. CASE Restart
    BY <1>20, EventOf, Parts DEF Restart, work, broker, process, TypeOK,
    StageOK, SetUpOK, NothingUnrouted, Published, RoutingKey, Running
<1>21. CASE UNCHANGED vars
  BY <1>21 DEF vars, work, broker, process, TypeOK, StageOK, SetUpOK,
    NothingUnrouted, Published, RoutingKey, Running
<1>. QED
  BY <1>1, <1>2, <1>3, <1>4, <1>5, <1>6, <1>7, <1>8, <1>9, <1>10, <1>11, <1>12,
    <1>13, <1>14, <1>15, <1>16, <1>17, <1>18, <1>19, <1>20, <1>21 DEF Next,
    PublishStep

(* What is reported as published is, or has heard another's                *)
(* acknowledgement.                                                        *)
LEMMA OkStep ==
  TypeOK /\ StageOK /\ HeardOK /\ OkIsPublished /\ [Next]_vars => OkIsPublished'
<1>. SUFFICES ASSUME TypeOK, StageOK, HeardOK, OkIsPublished, [Next]_vars
             PROVE  OkIsPublished'
  OBVIOUS
<1>1. CASE SetUpQueue
    BY <1>1, EventOf DEF SetUpQueue, work, broker, process, TypeOK, StageOK,
    Ended, InCall, Stages, HeardOK, OkIsPublished, Published
<1>2. CASE SetUpFails
    BY <1>2, EventOf DEF SetUpFails, work, broker, process, TypeOK, StageOK,
    Ended, InCall, Stages, HeardOK, OkIsPublished, Published
<1>3. CASE Serve
    BY <1>3, EventOf DEF Serve, work, broker, process, TypeOK, StageOK, Ended,
    InCall, Stages, HeardOK, OkIsPublished, Published
<1>4. ASSUME NEW n \in Task, NEW kind \in Kinds, Begin(n, kind)
      PROVE  OkIsPublished'
  <2>1. \A f \in Event : stage'[f] = "ok" => stage[f] = "ok"
    <3>. SUFFICES ASSUME NEW f \in Event, stage'[f] = "ok" PROVE stage[f] = "ok"
      OBVIOUS
    <3>. QED  BY <1>4, BeginEffect
  <2>. QED  BY <1>4, <2>1, BeginEffect DEF OkIsPublished, Published
<1>5. ASSUME NEW n \in Task, SecondDirection(n) PROVE OkIsPublished'
    BY <1>5, EventOf DEF SecondDirection, work, broker, process, TypeOK,
    StageOK, Ended, InCall, Stages, HeardOK, OkIsPublished, Published
<1>6. ASSUME NEW n \in Task, Cancel(n) PROVE OkIsPublished'
    BY <1>6, EventOf DEF Cancel, work, broker, process, TypeOK, StageOK, Ended,
    InCall, Stages, HeardOK, OkIsPublished, Published
<1>7. ASSUME NEW n \in Task, BatchReturns(n) PROVE OkIsPublished'
    BY <1>7, EventOf DEF BatchReturns, work, broker, process, TypeOK, StageOK,
    Ended, InCall, Stages, HeardOK, OkIsPublished, Published
<1>8. ASSUME NEW e \in Event, Retry(e) PROVE OkIsPublished'
    BY <1>8, EventOf DEF Retry, work, broker, process, TypeOK, StageOK, Ended,
    InCall, Stages, HeardOK, OkIsPublished, Published
<1>9. ASSUME NEW e \in Event, AbandonRetry(e) PROVE OkIsPublished'
    BY <1>9, EventOf DEF AbandonRetry, work, broker, process, TypeOK, StageOK,
    Ended, InCall, Stages, HeardOK, OkIsPublished, Published
<1>10. ASSUME NEW e \in Event, CannotSend(e) PROVE OkIsPublished'
    BY <1>10, EventOf DEF CannotSend, work, broker, process, TypeOK, StageOK,
    Ended, InCall, Stages, HeardOK, OkIsPublished, Published, Failed
<1>11. ASSUME NEW e \in Event, Send(e) PROVE OkIsPublished'
    BY <1>11, EventOf DEF Send, work, broker, process, TypeOK, StageOK, Ended,
    InCall, Stages, HeardOK, OkIsPublished, Published, Taken
<1>12. ASSUME NEW e \in Event, Listen(e) PROVE OkIsPublished'
    BY <1>12, EventOf DEF Listen, work, broker, process, TypeOK, StageOK,
    Ended, InCall, Stages, HeardOK, OkIsPublished, Published
<1>13. ASSUME NEW e \in Event, Answered(e) PROVE OkIsPublished'
    BY <1>13, EventOf DEF Answered, work, broker, process, TypeOK, StageOK,
    Ended, InCall, Stages, HeardOK, OkIsPublished, Published, Failed
<1>14. ASSUME NEW e \in Event, GiveUp(e) PROVE OkIsPublished'
    BY <1>14, EventOf DEF GiveUp, work, broker, process, TypeOK, StageOK,
    Ended, InCall, Stages, HeardOK, OkIsPublished, Published, Failed
<1>15. CASE Hear
    BY <1>15, EventOf DEF Hear, work, broker, process, TypeOK, StageOK, Ended,
    InCall, Stages, HeardOK, OkIsPublished, Published
<1>16. CASE Jam
    BY <1>16, EventOf DEF Jam, work, broker, process, TypeOK, StageOK, Ended,
    InCall, Stages, HeardOK, OkIsPublished, Published
<1>17. CASE Shutdown
    BY <1>17, EventOf DEF Shutdown, work, broker, process, TypeOK, StageOK,
    Ended, InCall, Stages, HeardOK, OkIsPublished, Published
<1>18. CASE Close
    BY <1>18, EventOf DEF Close, work, broker, process, TypeOK, StageOK, Ended,
    InCall, Stages, HeardOK, OkIsPublished, Published
<1>19. CASE Exit
    BY <1>19, EventOf DEF Exit, work, broker, process, TypeOK, StageOK, Ended,
    InCall, Stages, HeardOK, OkIsPublished, Published, Cut
<1>20. CASE Restart
    BY <1>20, EventOf DEF Restart, work, broker, process, TypeOK, StageOK,
    Ended, InCall, Stages, HeardOK, OkIsPublished, Published
<1>21. CASE UNCHANGED vars
  BY <1>21 DEF vars, work, broker, process, TypeOK, StageOK, Ended, InCall,
    Stages, HeardOK, OkIsPublished, Published
<1>. QED
  BY <1>1, <1>2, <1>3, <1>4, <1>5, <1>6, <1>7, <1>8, <1>9, <1>10, <1>11, <1>12,
    <1>13, <1>14, <1>15, <1>16, <1>17, <1>18, <1>19, <1>20, <1>21 DEF Next,
    PublishStep

-----------------------------------------------------------------------------
(* The theorems.                                                           *)

(* The inductive invariant holds in every reachable state.                 *)
THEOREM InductiveInvariant == Spec => []IInv
<1>1. Init => IInv
  <2>. SUFFICES ASSUME Init PROVE IInv
    OBVIOUS
  <2>1. TypeOK
    <3>1. <<>> \in Seq([event : Event, ack : BOOLEAN])
      BY EmptySeq
    <3>2. 0 \in 0..RetryAttempts + 1 /\ 1 \in 1..MaxStarts
      BY BoundsAssumption
    <3>. QED  BY <3>1, <3>2 DEF Init, TypeOK, Stages, InCall
  <2>2. StageOK /\ CopiesAreAttempts
    BY EventOf, BoundsAssumption DEF Init, StageOK, CopiesAreAttempts, InCall
  <2>3. HeardOK /\ SetUpOK /\ UnroutedOK
    BY EmptySeq DEF Init, HeardOK, SetUpOK, Running, UnroutedOK
  <2>4. BatchTellsTheTruth /\ NothingUnrouted /\ OkIsPublished
    BY DEF Init, BatchTellsTheTruth, NothingUnrouted, OkIsPublished, Published
  <2>. QED  BY <2>1, <2>2, <2>3, <2>4 DEF IInv
<1>2. IInv /\ [Next]_vars => IInv'
  BY TypeStep, StageStep, CopiesStep, HeardStep, SetUpStep, UnroutedStep,
     BatchStep, RoutedStep, OkStep
  DEF IInv
<1>. QED  BY <1>1, <1>2, PTL DEF Spec

(* The values have their types; in particular an event that still has to   *)
(* be sent has never used more than its attempts (publisher.go:105-138).   *)
THEOREM TypeCorrect == Spec => []TypeOK
BY InductiveInvariant, PTL DEF IInv

(* The exchange never takes more copies of an event than there were failed *)
(* attempts and the last one, whatever the broker, the connection and the  *)
(* other goroutines do (publisher.go:105-138).                             *)
THEOREM CopiesCorrect == Spec => []CopiesAreAttempts
BY InductiveInvariant, PTL DEF IInv

(* The result of PublishBatch agrees with what became of every event of    *)
(* the batch (publisher.go:172-189).                                       *)
THEOREM BatchCorrect == Spec => []BatchTellsTheTruth
BY InductiveInvariant, PTL DEF IInv

(* No copy misses the search index or analytics, after any number of       *)
(* restarts and failed setups (publisher.go:54-60, cmd/server/main.go:49). *)
THEOREM RoutingCorrect == Spec => []NothingUnrouted
BY InductiveInvariant, PTL DEF IInv

(* An event is settled as published without being published only by        *)
(* another event's acknowledgement (rabbitmq/client.go:173-219).           *)
THEOREM SettledCorrect == Spec => []OkIsPublished
BY InductiveInvariant, PTL DEF IInv

(* The copies of an event fit what was told of it (publisher.go:101-141).  *)
THEOREM CopiesAndAnswersFit == Spec => []CopiesFitAnswers
BY CopiesCorrect, SettledCorrect, PTL DEF CopiesFitAnswers

-----------------------------------------------------------------------------
(* The channel.                                                            *)

OwedStages == {"turn", "due", "waiting"} \cup InCall
Owed == {e \in Event : stage[e] \in {"turn", "due", "waiting"} \cup InCall}
Settled == {e \in Event : stage[e] = "ok"}
Reported == {e \in Event : stage[e] = "failed"}
Lost == {e \in Event : stage[e] = "cut"}

(* A broker that refuses nothing and a connection that holds take every    *)
(* message that is sent.                                                   *)
TakenOK ==
  \/ Faults \cap {"refuse", "link"} # {}
  \/ \A e \in Event : stage[e] \in InCall => copies[e] > 0

LEMMA TakenStep ==
  TypeOK /\ StageOK /\ TakenOK /\ [Next]_vars => TakenOK'
<1>. SUFFICES ASSUME TypeOK, StageOK, TakenOK, [Next]_vars,
                     Faults \cap {"refuse", "link"} = {}
             PROVE  \A f \in Event : stage'[f] \in InCall => copies'[f] > 0
  BY DEF TakenOK
<1>0. \A f \in Event : stage[f] \in InCall => copies[f] > 0
  BY DEF TakenOK
<1>1. ASSUME NEW e \in Event, Send(e)
      PROVE  \A f \in Event : stage'[f] \in InCall => copies'[f] > 0
  <2>1. Taken(e) /\ stage' = [stage EXCEPT ![e] = "sent"]
    BY <1>1 DEF Send
  <2>2. copies \in [Event -> Nat] /\ stage \in [Event -> Stages]
    BY DEF TypeOK
  <2>. QED  BY <1>0, <2>1, <2>2 DEF Taken
<1>2. ASSUME NEW n \in Task, NEW kind \in Kinds, Begin(n, kind)
      PROVE  \A f \in Event : stage'[f] \in InCall => copies'[f] > 0
  <2>1. /\ \A f \in Event : f[1] # n => stage'[f] = stage[f]
        /\ \A f \in Event : f[1] = n => stage'[f] \in {"due", "turn"}
        /\ copies' = copies
    BY <1>2, BeginEffect
  <2>. QED  BY <1>0, <2>1 DEF InCall
<1>3. ASSUME ~ \E e \in Event : Send(e), ~ \E n \in Task, kind \in Kinds : Begin(n, kind)
      PROVE  \A f \in Event : stage'[f] \in InCall => copies'[f] > 0
  <2>1. copies' = copies
    BY <1>3 DEF Next, PublishStep, SetUpQueue, SetUpFails, Serve, SecondDirection, Cancel,
         BatchReturns, Retry, AbandonRetry, CannotSend, Listen, Answered, GiveUp, Hear, Jam,
         Shutdown, Close, Exit, Restart, work, broker, process, vars
  <2>2. \A f \in Event : stage'[f] \in InCall => stage[f] \in InCall
    BY <1>3 DEF Next, PublishStep, SetUpQueue, SetUpFails, Serve, SecondDirection, Cancel,
         BatchReturns, Retry, AbandonRetry, CannotSend, Listen, Answered, GiveUp, Failed, Hear,
         Jam, Shutdown, Close, Exit, Cut, Restart, work, process, vars, TypeOK, InCall
  <2>. QED  BY <1>0, <2>1, <2>2
<1>. QED  BY <1>1, <1>2, <1>3

(* A step that leaves every event in its part of the channel and publishes *)
(* none for the first time is none of the channel's.                       *)
LEMMA Quiet ==
  ASSUME Owed' = Owed, Settled' = Settled, Reported' = Reported, Lost' = Lost,
         Published' = Published
  PROVE  UNCHANGED Channel!chan
BY DEF Channel!chan, Owed, Settled, Reported, Lost

(* What becomes of the channel when one event that is owed moves on.       *)
LEMMA OneMoves ==
  ASSUME TypeOK, NEW e \in Event, NEW s \in Stages, stage[e] \in OwedStages,
         stage' = [stage EXCEPT ![e] = s]
  PROVE  /\ s \in OwedStages => UNCHANGED <<Owed, Settled, Reported, Lost>>
         /\ s = "ok" => /\ Owed' = Owed \ {e} /\ Settled' = Settled \cup {e}
                        /\ UNCHANGED <<Reported, Lost>>
         /\ s = "failed" => /\ Owed' = Owed \ {e} /\ Reported' = Reported \cup {e}
                            /\ UNCHANGED <<Settled, Lost>>
<1>1. \A f \in Event : stage'[f] = IF f = e THEN s ELSE stage[f]
  BY DEF TypeOK
<1>2. CASE s \in OwedStages
  BY <1>1, <1>2 DEF OwedStages, InCall, Owed, Settled, Reported, Lost
<1>3. CASE s = "ok"
  BY <1>1, <1>3 DEF OwedStages, InCall, Owed, Settled, Reported, Lost
<1>4. CASE s = "failed"
  BY <1>1, <1>4 DEF OwedStages, InCall, Owed, Settled, Reported, Lost
<1>. QED  BY <1>2, <1>3, <1>4 DEF OwedStages, InCall

(* A failed attempt leaves the event owed, or reports it.                  *)
LEMMA FailedStep ==
  ASSUME TypeOK, NEW e \in Event, stage[e] \in OwedStages, Failed(e), UNCHANGED copies
  PROVE  Channel!Report \/ UNCHANGED Channel!chan
<1>1. Published' = Published /\ "waiting" \in Stages /\ "failed" \in Stages
  BY DEF Published, Stages
<1>2. CASE stage' = [stage EXCEPT ![e] = "waiting"]
  BY <1>1, <1>2, OneMoves, Quiet DEF OwedStages
<1>3. CASE stage' = [stage EXCEPT ![e] = "failed"]
  <2>1. /\ Owed' = Owed \ {e} /\ Reported' = Reported \cup {e}
        /\ UNCHANGED <<Settled, Lost>>
    BY <1>1, <1>3, OneMoves
  <2>2. e \in Owed
    BY DEF Owed, OwedStages
  <2>. QED  BY <1>1, <2>1, <2>2 DEF Channel!Report, Owed, Settled, Reported, Lost
<1>. QED  BY <1>2, <1>3 DEF Failed

(* A new task hands over its two events.                                   *)
LEMMA BeginAccepts ==
  ASSUME TypeOK, StageOK, NEW n \in Task, NEW kind \in Kinds, Begin(n, kind)
  PROVE  Channel!Accept
<1>. DEFINE S == {<<n, 1>>, <<n, 2>>}
<1>1. /\ tasks[n] = "none"
      /\ \A f \in Event : f[1] # n => stage'[f] = stage[f]
      /\ \A f \in Event : f[1] = n => stage'[f] \in {"due", "turn"}
      /\ UNCHANGED copies
  BY BeginEffect
<1>2. \A f \in Event : f \in S <=> f[1] = n
  BY Parts
<1>3. \A f \in S : f \in Event /\ stage[f] = "none"
  <2>1. <<n, 1>> \in Event /\ <<n, 2>> \in Event
    BY EventOf
  <2>2. stage[<<n, 1>>] = "none" /\ stage[<<n, 2>>] = "none"
    BY <1>1 DEF StageOK
  <2>. QED  BY <2>1, <2>2
<1>4. S \in SUBSET (Event \ (Owed \cup Settled \cup Reported \cup Lost))
  BY <1>3 DEF Owed, Settled, Reported, Lost, InCall
<1>5. Owed' = Owed \cup S
  BY <1>1, <1>2, <1>3 DEF Owed, InCall
<1>6. UNCHANGED <<Settled, Reported, Lost, Published>>
  BY <1>1, <1>2, <1>3 DEF Settled, Reported, Lost, Published
<1>. QED  BY <1>4, <1>5, <1>6
          DEF Channel!Accept, Channel!Known, Owed, Settled, Reported, Lost

(* What is sent is published, once more, or not.                           *)
LEMMA SendPublishes ==
  ASSUME TypeOK, NEW e \in Event, Send(e)
  PROVE  Channel!PublishOne \/ UNCHANGED Channel!chan
<1>1. /\ \/ copies' = [copies EXCEPT ![e] = copies[e] + 1]
         \/ copies' = copies
      /\ stage' = [stage EXCEPT ![e] = "sent"] /\ stage[e] = "due"
  BY SendEffect
<1>2. copies \in [Event -> Nat]
  BY DEF TypeOK
<1>3. UNCHANGED <<Owed, Settled, Reported, Lost>> /\ e \in Owed
  BY <1>1, OneMoves DEF OwedStages, InCall, Stages, Owed
<1>4. CASE copies' = copies
  BY <1>3, <1>4, Quiet DEF Published
<1>5. CASE copies' = [copies EXCEPT ![e] = copies[e] + 1]
  <2>1. Published' = Published \cup {e}
    BY <1>2, <1>5 DEF Published
  <2>. QED  BY <1>3, <2>1 DEF Channel!PublishOne, Owed, Settled, Reported, Lost
<1>. QED  BY <1>1, <1>4, <1>5

(* A call that returns settles its event, or is a failed attempt.          *)
LEMMA AnsweredSettles ==
  ASSUME TypeOK, TakenOK, NEW e \in Event, Answered(e)
  PROVE  Channel!Settle \/ Channel!Report \/ UNCHANGED Channel!chan
<1>1. CASE stage[e] = "acked" /\ stage' = [stage EXCEPT ![e] = "ok"]
  <2>1. UNCHANGED copies
    BY DEF Answered, broker
  <2>2. e \in Owed /\ stage[e] \in InCall
    BY <1>1 DEF Owed, InCall
  <2>3. /\ Owed' = Owed \ {e} /\ Settled' = Settled \cup {e}
        /\ UNCHANGED <<Reported, Lost>>
    BY <1>1, OneMoves DEF OwedStages, InCall, Stages
  <2>4. e \in Published \/ Faults \cap {"refuse", "link"} # {}
    BY <2>2 DEF TakenOK, Published
  <2>5. Published' = Published
    BY <2>1 DEF Published
  <2>. QED  BY <2>2, <2>3, <2>4, <2>5 DEF Channel!Settle, Owed, Settled, Reported, Lost
<1>2. CASE stage[e] = "nacked" /\ Failed(e)
  BY <1>2, FailedStep DEF Answered, broker, OwedStages, InCall
<1>. QED  BY <1>1, <1>2 DEF Answered

(* When the process is gone, what was owed is lost.                        *)
LEMMA ExitEnds ==
  ASSUME TypeOK, Exit
  PROVE  Channel!End
<1>1. \A f \in Event :
        stage'[f] = IF stage[f] \in {"ok", "failed", "none"} THEN stage[f] ELSE "cut"
  BY DEF Exit, Cut, Ended, Known
<1>2. \A f \in Event : stage[f] \in {"ok", "failed", "none", "cut"} \/ f \in Owed
  BY DEF TypeOK, Stages, Owed
<1>3. Owed' = {} /\ Lost' = Lost \cup Owed
  BY <1>1, <1>2 DEF Owed, Lost, InCall
<1>4. UNCHANGED <<Settled, Reported, Published>>
  BY <1>1 DEF Exit, broker, Settled, Reported, Published
<1>. QED  BY <1>3, <1>4 DEF Channel!End, Owed, Settled, Reported, Lost

(* Every step is one of the channel's, or none.                            *)
LEMMA StepMaps ==
  TypeOK /\ StageOK /\ TakenOK /\ [Next]_vars
    => [Channel!Accept \/ Channel!PublishOne \/ Channel!Settle \/ Channel!Report
        \/ Channel!End]_(Channel!chan)
<1>. SUFFICES ASSUME TypeOK, StageOK, TakenOK, [Next]_vars
              PROVE  \/ Channel!Accept \/ Channel!PublishOne \/ Channel!Settle
                     \/ Channel!Report \/ Channel!End \/ UNCHANGED Channel!chan
  OBVIOUS
<1>1. ASSUME NEW n \in Task, NEW kind \in Kinds, Begin(n, kind) PROVE Channel!Accept
  BY <1>1, BeginAccepts
<1>2. ASSUME NEW e \in Event, Send(e) PROVE Channel!PublishOne \/ UNCHANGED Channel!chan
  BY <1>2, SendPublishes
<1>3. ASSUME NEW e \in Event, Answered(e)
      PROVE  Channel!Settle \/ Channel!Report \/ UNCHANGED Channel!chan
  BY <1>3, AnsweredSettles
<1>4. ASSUME NEW e \in Event, CannotSend(e) \/ GiveUp(e)
      PROVE  Channel!Report \/ UNCHANGED Channel!chan
  <2>1. stage[e] \in OwedStages /\ Failed(e) /\ UNCHANGED copies
    BY <1>4 DEF CannotSend, GiveUp, broker, OwedStages, InCall
  <2>. QED  BY <2>1, FailedStep
<1>5. ASSUME NEW e \in Event, AbandonRetry(e) PROVE Channel!Report
  <2>1. /\ stage[e] \in OwedStages /\ e \in Owed /\ UNCHANGED copies
        /\ stage' = [stage EXCEPT ![e] = "failed"] /\ "failed" \in Stages
    BY <1>5 DEF AbandonRetry, broker, OwedStages, Owed, Stages
  <2>2. /\ Owed' = Owed \ {e} /\ Reported' = Reported \cup {e}
        /\ UNCHANGED <<Settled, Lost>>
    BY <2>1, OneMoves
  <2>3. Published' = Published
    BY <2>1 DEF Published
  <2>. QED  BY <2>1, <2>2, <2>3 DEF Channel!Report, Owed, Settled, Reported, Lost
<1>6. ASSUME NEW e \in Event, Retry(e) \/ Listen(e) PROVE UNCHANGED Channel!chan
  <2>1. stage[e] \in OwedStages /\ UNCHANGED copies
    BY <1>6 DEF Retry, Listen, broker, OwedStages, InCall
  <2>2. PICK s \in {"due", "listening"} : stage' = [stage EXCEPT ![e] = s]
    BY <1>6 DEF Retry, Listen
  <2>3. s \in OwedStages /\ s \in Stages
    BY DEF OwedStages, InCall, Stages
  <2>. QED  BY <2>1, <2>2, <2>3, OneMoves, Quiet DEF Published
<1>7. ASSUME NEW n \in Task, SecondDirection(n) PROVE UNCHANGED Channel!chan
  <2>1. /\ <<n, 2>> \in Event /\ stage[<<n, 2>>] \in OwedStages /\ UNCHANGED copies
        /\ stage' = [stage EXCEPT ![<<n, 2>>] = "due"]
    BY <1>7, EventOf DEF SecondDirection, broker, OwedStages
  <2>2. "due" \in OwedStages /\ "due" \in Stages
    BY DEF OwedStages, Stages
  <2>. QED  BY <2>1, <2>2, OneMoves, Quiet DEF Published
<1>8. ASSUME Hear PROVE UNCHANGED Channel!chan
  <2>1. \A f \in Event :
          \/ stage'[f] = stage[f]
          \/ stage[f] \in OwedStages /\ stage'[f] \in OwedStages
    BY <1>8 DEF Hear, OwedStages, InCall
  <2>2. UNCHANGED <<Owed, Settled, Reported, Lost>>
    BY <2>1 DEF OwedStages, InCall, Owed, Settled, Reported, Lost
  <2>. QED  BY <1>8, <2>2, Quiet DEF Hear, Published
<1>9. ASSUME Exit PROVE Channel!End
  BY <1>9, ExitEnds
<1>10. ASSUME UNCHANGED <<stage, copies>> PROVE UNCHANGED Channel!chan
  BY <1>10, Quiet DEF Owed, Settled, Reported, Lost, Published
<1>11. ASSUME NEW n \in Task, Cancel(n) \/ BatchReturns(n) PROVE UNCHANGED <<stage, copies>>
  BY <1>11 DEF Cancel, BatchReturns, broker
<1>12. ASSUME \/ SetUpQueue \/ SetUpFails \/ Serve \/ Jam \/ Shutdown \/ Close \/ Restart
              \/ UNCHANGED vars
       PROVE  UNCHANGED <<stage, copies>>
  BY <1>12 DEF SetUpQueue, SetUpFails, Serve, Jam, Shutdown, Close, Restart, work, broker, vars
<1>. QED  BY <1>1, <1>2, <1>3, <1>4, <1>5, <1>6, <1>7, <1>8, <1>9, <1>10, <1>11, <1>12
          DEF Next, PublishStep

(* The publisher, with its retries, its restarts and everything that can   *)
(* go wrong at the broker, is a channel: an event is published only after  *)
(* it was handed over and before its fate is told, is never dropped while  *)
(* the process lives, and what is told of it is never taken back           *)
(* (publisher.go:100-189, friend_service.go:63-71, 98-106).                *)
THEOREM PublisherImplementsChannel == Spec => ImplementsChannel
<1>1. Init => Channel!ChannelInit /\ TakenOK
  BY DEF Init, Channel!ChannelInit, TakenOK, InCall, Published
<1>2. Spec => []TakenOK
  <2>1. IInv /\ TakenOK /\ [Next]_vars => TakenOK'
    BY TakenStep DEF IInv
  <2>. QED  BY <1>1, <2>1, InductiveInvariant, PTL DEF Spec
<1>3. IInv /\ TakenOK /\ [Next]_vars
        => [Channel!Accept \/ Channel!PublishOne \/ Channel!Settle \/ Channel!Report
            \/ Channel!End]_(Channel!chan)
  BY StepMaps DEF IInv
<1>. QED  BY <1>1, <1>2, <1>3, InductiveInvariant, PTL
          DEF Spec, ImplementsChannel, Channel!ChannelSpec
=============================================================================
