-------------------------- MODULE SearchIndexerProofs --------------------------
(***************************************************************************)
(* Theorems about SearchIndexer for any users, any events and any number   *)
(* of them, any bound on the attempts, any restarts and any faults.        *)
(***************************************************************************)
EXTENDS SearchIndexer, SequenceTheorems, TLAPS

-----------------------------------------------------------------------------
(* The inductive invariant.                                                *)

(* The consumer has an event in hand exactly while it works on one, an     *)
(* attempt is left while it does, and only Cancel ends its context.        *)
WorkOK ==
  /\ hand = 0 <=> pc \in {"select", "stopped"}
  /\ pc \in {"work", "wait"} => tries[hand] < MaxAttempts
  /\ cancelled => stops > 0

(* About to acknowledge a creation, it has put the document there; about   *)
(* to refuse a readable event, it has used up its attempts or taken the    *)
(* last error for that of an unreadable one.                               *)
HandOK ==
  /\ pc = "ack" /\ Indexes(Current)
       => docs[Current.user] # None /\ docs[Current.user].from >= hand
  /\ pc = "nack" /\ stops = 0 /\ Current.type # "garbled"
       => tries[hand] = MaxAttempts \/ hand \in misread

IInv ==
  TypeOK /\ WorkOK /\ HandOK /\ AckedIsIndexed /\ RefusedWithReason

-----------------------------------------------------------------------------
(* Lemmas about the operators.                                             *)

(* The event in hand is the first that is not settled.                     *)
LEMMA InHand ==
  ASSUME TypeOK, hand # 0
  PROVE  /\ hand = Len(outcome) + 1 /\ Len(outcome) \in Nat
         /\ hand \in 1..Len(events) /\ hand \in 1..Len(tries)
         /\ hand \in 1..MaxEvents
         /\ Current \in Event
         /\ tries[hand] \in 0..MaxAttempts
<1>1. Len(outcome) \in Nat /\ Len(events) \in Nat
  BY DEF TypeOK
<1>2. hand = Len(outcome) + 1 /\ hand \in 1..Len(events) /\ hand \in 1..Len(tries)
  BY <1>1 DEF TypeOK
<1>3. events \in Seq(Events) /\ tries \in Seq(0..MaxAttempts)
  BY DEF TypeOK
<1>4. events[hand] \in Events /\ tries[hand] \in 0..MaxAttempts
  BY <1>2, <1>3, ElementOfSeq
<1>5. hand \in 1..MaxEvents
  BY <1>1, <1>2, BoundsAssumption DEF TypeOK
<1>. QED  BY <1>1, <1>2, <1>4, <1>5, EventsAssumption DEF Current

(* A failed attempt is counted, and there is another while some are left.  *)
LEMMA FailedCounts ==
  ASSUME TypeOK, WorkOK, pc = "work", Failed
  PROVE  /\ tries' \in Seq(0..MaxAttempts) /\ Len(tries') = Len(tries)
         /\ \A i \in 1..Len(tries) : i # hand => tries'[i] = tries[i]
         /\ misread' \subseteq 1..Len(events)
         /\ \A i \in 1..Len(tries) : i # hand => (i \in misread' <=> i \in misread)
         /\ \/ pc' = "wait" /\ tries'[hand] < MaxAttempts
            \/ pc' = "nack" /\ (tries'[hand] = MaxAttempts \/ hand \in misread')
         /\ pos' = 1
<1>1. hand \in 1..Len(tries) /\ tries[hand] \in 0..MaxAttempts /\ tries[hand] < MaxAttempts
  BY InHand DEF WorkOK
<1>2. tries[hand] + 1 \in 0..MaxAttempts
  BY <1>1, BoundsAssumption
<1>3. tries' = [tries EXCEPT ![hand] = tries[hand] + 1]
  BY DEF Failed
<1>4. tries \in Seq(0..MaxAttempts)
  BY DEF TypeOK
<1>5. /\ tries' \in Seq(0..MaxAttempts) /\ Len(tries') = Len(tries)
      /\ \A i \in 1..Len(tries) : tries'[i] = IF i = hand THEN tries[hand] + 1 ELSE tries[i]
  BY <1>1, <1>2, <1>3, <1>4, ExceptSeq
<1>6. tries'[hand] = tries[hand] + 1
  BY <1>1, <1>5
<1>7. \/ pc' = "wait" /\ tries'[hand] < MaxAttempts
      \/ pc' = "nack" /\ (tries'[hand] = MaxAttempts \/ hand \in misread')
  <2>1. tries[hand] \in Nat /\ MaxAttempts \in Nat
    BY <1>1, BoundsAssumption
  <2>2. \/ pc' = IF tries[hand] + 1 < MaxAttempts THEN "wait" ELSE "nack"
        \/ pc' = "nack" /\ hand \in misread'
    BY DEF Failed
  <2>. QED  BY <1>1, <1>6, <2>1, <2>2
<1>8. \A i \in 1..Len(tries) : i # hand => tries'[i] = tries[i]
  BY <1>5
<1>9. /\ misread' \subseteq 1..Len(events)
      /\ \A i \in 1..Len(tries) : i # hand => (i \in misread' <=> i \in misread)
  <2>1. hand \in 1..Len(events) /\ misread \subseteq 1..Len(events)
    BY InHand DEF WorkOK, TypeOK
  <2>. QED  BY <2>1 DEF Failed
<1>. QED  BY <1>5, <1>7, <1>8, <1>9 DEF Failed

(* A new document shows the names of the event in hand.                    *)
LEMMA IndexedDocument ==
  ASSUME TypeOK, hand # 0
  PROVE  /\ Indexed \in [Users -> Document \cup {None}]
         /\ Indexed[Current.user].from = hand /\ Indexed[Current.user] # None
         /\ \A u \in Users : u # Current.user => Indexed[u] = docs[u]
<1>1. hand \in 1..MaxEvents /\ Current.user \in Users
  BY InHand DEF Event
<1>2. [from |-> hand, count |-> 0, stray |-> {}] \in Document
  BY <1>1 DEF Document
<1>. QED  BY <1>1, <1>2, NoneAssumption DEF TypeOK, Indexed

(* An update changes no names and makes no document.                       *)
LEMMA MergedDocument ==
  ASSUME TypeOK, NEW u \in Users, NEW field \in {"script", "doc"}
  PROVE  /\ Merged(u, field) \in [Users -> Document \cup {None}]
         /\ \A v \in Users :
              docs[v] # None => /\ Merged(u, field)[v] # None
                                /\ Merged(u, field)[v].from = docs[v].from
<1>1. CASE docs[u] = None
  BY <1>1 DEF TypeOK, Merged
<1>2. CASE docs[u] # None
  <2>1. docs[u] \in Document
    BY <1>2 DEF TypeOK
  <2>2. [docs[u] EXCEPT !.stray = @ \cup {field}] \in Document
    BY <2>1 DEF Document
  <2>3. [docs[u] EXCEPT !.stray = @ \cup {field}].from = docs[u].from
    BY <2>1 DEF Document
  <2>4. Merged(u, field) = [docs EXCEPT ![u] = [docs[u] EXCEPT !.stray = @ \cup {field}]]
    BY <1>2 DEF Merged, TypeOK
  <2>. QED  BY <2>2, <2>3, <2>4, NoneAssumption DEF TypeOK
<1>. QED  BY <1>1, <1>2

(* Work on an event leaves the broker alone, and keeps every document or   *)
(* replaces it by one with the names of that event.                        *)
LEMMA WorkOnDocuments ==
  ASSUME TypeOK, WorkOK, IndexNewUser \/ UpdateUser \/ UpdateCount
  PROVE  /\ docs' \in [Users -> Document \cup {None}]
         /\ \A u \in Users : docs[u] # None =>
              /\ docs'[u] # None
              /\ docs'[u].from = docs[u].from \/ docs'[u].from = hand
         /\ pc = "work" /\ hand # 0 /\ hand' = hand
         /\ UNCHANGED <<events, outcome, cancelled, lost, stops, restarts>>
<1>1. pc = "work" /\ hand # 0 /\ hand' = hand
      /\ UNCHANGED <<events, outcome, cancelled, lost, stops, restarts>>
  BY DEF IndexNewUser, UpdateUser, UpdateCount, Working, WorkOK, broker, signals, attempts
<1>2. Current.user \in Users /\ Current.friend \in Users
  BY <1>1, InHand DEF Event
<1>3. CASE IndexNewUser
  <2>1. docs' \in {docs, Indexed}
    BY <1>3 DEF IndexNewUser
  <2>. QED  BY <1>1, <1>2, <2>1, IndexedDocument DEF TypeOK
<1>4. CASE UpdateUser
  <2>1. docs' \in {docs, Merged(Current.user, "doc")}
    BY <1>4 DEF UpdateUser
  <2>. QED  BY <1>1, <1>2, <2>1, MergedDocument DEF TypeOK
<1>5. CASE UpdateCount
  <2>1. PICK u \in Users : docs' \in {docs, Merged(u, "script")}
    BY <1>2, <1>5 DEF UpdateCount
  <2>. QED  BY <1>1, <2>1, MergedDocument DEF TypeOK
<1>. QED  BY <1>3, <1>4, <1>5

-----------------------------------------------------------------------------
(* The types, and what the consumer has in hand.                           *)

(* Every step keeps the types.                                             *)
LEMMA TypeStep ==
  TypeOK /\ WorkOK /\ [Next]_vars => TypeOK'
<1>. SUFFICES ASSUME TypeOK, WorkOK, [Next]_vars
             PROVE  TypeOK'
  OBVIOUS
<1>1. CASE Publish
  <2>1. PICK e \in Events : events' = Append(events, e)
    BY <1>1 DEF Publish
  <2>2. events' \in Seq(Events) /\ Len(events') = Len(events) + 1 /\ Len(events) \in Nat
    BY <2>1, AppendProperties DEF TypeOK
  <2>3. 0 \in 0..MaxAttempts /\ tries' = Append(tries, 0)
    BY <1>1, BoundsAssumption DEF Publish
  <2>4. tries' \in Seq(0..MaxAttempts) /\ Len(tries') = Len(tries) + 1
    BY <2>3, AppendProperties DEF TypeOK
  <2>5. Len(events') <= MaxEvents /\ Len(outcome) \in Nat /\ hand \in Nat
    BY <1>1, <2>2, BoundsAssumption DEF Publish, TypeOK
  <2>. QED  BY <1>1, <2>2, <2>4, <2>5 DEF Publish, TypeOK, signals, attempts
<1>2. CASE LinkLost
  BY <1>2 DEF LinkLost, broker, attempts, TypeOK, WorkOK
<1>3. CASE Cancel
  BY <1>3 DEF Cancel, broker, attempts, TypeOK, WorkOK
<1>4. CASE Restart
  <2>1. restarts' \in 0..MaxRestarts
    BY <1>4, BoundsAssumption DEF Restart, TypeOK
  <2>2. hand' = 0 /\ pos' = 1 /\ pc' = "select" /\ cancelled' = FALSE /\ lost' = FALSE
        /\ UNCHANGED <<events, outcome, tries, misread, docs, stops>>
    BY <1>4 DEF Restart, broker, attempts
  <2>3. hand' \in {0, Len(outcome') + 1} /\ hand' <= Len(events') /\ pos' \in 1..4
    BY <2>2 DEF TypeOK
  <2>. QED  BY <2>1, <2>2, <2>3 DEF TypeOK
<1>5. CASE Take
  <2>1. Len(outcome) \in Nat /\ Len(events) \in Nat /\ hand' = Len(outcome) + 1
    BY <1>5 DEF Take, TypeOK
  <2>2. hand' \in 1..Len(tries) /\ hand' <= Len(events)
    BY <1>5, <2>1 DEF Take, TypeOK
  <2>3. tries' = [tries EXCEPT ![hand'] = 0] /\ 0 \in 0..MaxAttempts
    BY <1>5, BoundsAssumption DEF Take
  <2>4. tries' \in Seq(0..MaxAttempts) /\ Len(tries') = Len(tries)
    BY <2>2, <2>3, ExceptSeq DEF TypeOK
  <2>5. misread' \subseteq 1..Len(events)
    BY <1>5 DEF Take, TypeOK
  <2>. QED  BY <1>5, <2>1, <2>2, <2>4, <2>5 DEF Take, broker, signals, attempts, TypeOK
<1>6. CASE Stopped
  BY <1>6 DEF Stopped, broker, signals, attempts, TypeOK, WorkOK
<1>7. CASE Settle
  BY <1>7 DEF Settle, signals, attempts, TypeOK, WorkOK
<1>8. CASE Retry
  BY <1>8 DEF Retry, broker, signals, attempts, TypeOK, WorkOK
<1>9. CASE AbandonRetry
  BY <1>9 DEF AbandonRetry, broker, signals, attempts, TypeOK, WorkOK
<1>10. CASE Ignore
  BY <1>10 DEF Ignore, broker, signals, attempts, Working, Done, Current, TypeOK, WorkOK
<1>11. CASE Unreadable
  <2>1. hand \in 1..Len(tries) /\ tries[hand] + 1 \in 0..MaxAttempts
    BY <1>11, InHand, BoundsAssumption DEF Unreadable, Working, WorkOK
  <2>2. tries' \in Seq(0..MaxAttempts) /\ Len(tries') = Len(tries)
    BY <1>11, <2>1, ExceptSeq DEF Unreadable, TypeOK
  <2>. QED  BY <1>11, <2>2 DEF Unreadable, broker, signals, attempts, TypeOK
<1>12. CASE IndexNewUser
  <2>1. Done("ack") \/ Failed
    BY <1>12 DEF IndexNewUser
  <2>2. /\ tries' \in Seq(0..MaxAttempts) /\ Len(tries') = Len(tries)
        /\ misread' \subseteq 1..Len(events)
        /\ pc' \in {"ack", "wait", "nack"} /\ pos' = 1
    BY <1>12, <2>1, FailedCounts, WorkOnDocuments DEF Done, attempts, TypeOK
  <2>. QED  BY <1>12, <2>2, WorkOnDocuments DEF TypeOK
<1>13. CASE UpdateUser
  <2>1. Done("ack") \/ Failed
    BY <1>13 DEF UpdateUser
  <2>2. /\ tries' \in Seq(0..MaxAttempts) /\ Len(tries') = Len(tries)
        /\ misread' \subseteq 1..Len(events)
        /\ pc' \in {"ack", "wait", "nack"} /\ pos' = 1
    BY <1>13, <2>1, FailedCounts, WorkOnDocuments DEF Done, attempts, TypeOK
  <2>. QED  BY <1>13, <2>2, WorkOnDocuments DEF TypeOK
<1>14. CASE UpdateCount
  <2>1. tries' = tries /\ misread' = misread /\ pc' \in {"work", "ack"} /\ pos' \in 1..4
    BY <1>14 DEF UpdateCount, Done, TypeOK, Working, attempts
  <2>. QED  BY <1>14, <2>1, WorkOnDocuments DEF TypeOK
<1>15. CASE UNCHANGED vars
  BY <1>15 DEF vars, broker, signals, attempts, TypeOK, WorkOK, Current
<1>. QED
  BY <1>1, <1>2, <1>3, <1>4, <1>5, <1>6, <1>7, <1>8, <1>9, <1>10, <1>11, <1>12, <1>13,
     <1>14, <1>15
  DEF Next, Consume

(* Every step keeps the event in hand and its attempts together.           *)
LEMMA WorkStep ==
  TypeOK /\ WorkOK /\ [Next]_vars => WorkOK'
<1>. SUFFICES ASSUME TypeOK, WorkOK, [Next]_vars
             PROVE  WorkOK'
  OBVIOUS
<1>1. CASE Publish
  BY <1>1 DEF Publish, broker, signals, attempts, TypeOK, WorkOK
<1>2. CASE LinkLost
  BY <1>2 DEF LinkLost, broker, attempts, TypeOK, WorkOK
<1>3. CASE Cancel
  BY <1>3 DEF Cancel, broker, attempts, TypeOK, WorkOK
<1>4. CASE Restart
  BY <1>4 DEF Restart, broker, attempts, TypeOK, WorkOK
<1>5. CASE Take
  <2>1. Len(outcome) \in Nat /\ Len(events) \in Nat /\ hand' = Len(outcome) + 1
    BY <1>5 DEF Take, TypeOK
  <2>2. hand' \in 1..Len(tries)
    BY <1>5, <2>1 DEF Take, TypeOK
  <2>3. tries' = [tries EXCEPT ![hand'] = 0] /\ 0 \in 0..MaxAttempts
    BY <1>5, BoundsAssumption DEF Take
  <2>4. tries'[hand'] = 0
    BY <2>2, <2>3, ExceptSeq DEF TypeOK
  <2>. QED  BY <1>5, <2>1, <2>4, BoundsAssumption DEF Take, broker, signals, attempts, WorkOK
<1>6. CASE Stopped
  BY <1>6 DEF Stopped, broker, signals, attempts, TypeOK, WorkOK
<1>7. CASE Settle
  BY <1>7 DEF Settle, signals, attempts, TypeOK, WorkOK
<1>8. CASE Retry
  BY <1>8 DEF Retry, broker, signals, attempts, TypeOK, WorkOK
<1>9. CASE AbandonRetry
  BY <1>9 DEF AbandonRetry, broker, signals, attempts, TypeOK, WorkOK
<1>10. CASE Ignore
  BY <1>10 DEF Ignore, broker, signals, attempts, Working, Done, Current, TypeOK, WorkOK
<1>11. CASE Unreadable
  BY <1>11 DEF Unreadable, broker, signals, attempts, Working, Current, TypeOK, WorkOK
<1>12. CASE IndexNewUser
  BY <1>12
    DEF IndexNewUser, broker, signals, attempts, Working, Done, Failed, Current,
    Indexed, MayFail, TypeOK, WorkOK
<1>13. CASE UpdateUser
  BY <1>13
    DEF UpdateUser, broker, signals, attempts, Working, Done, Failed, Current, Merged,
    MayFail, TypeOK, WorkOK
<1>14. CASE UpdateCount
  BY <1>14
    DEF UpdateCount, broker, signals, attempts, Working, Done, Current, Merged,
    MayFail, TypeOK, WorkOK
<1>15. CASE UNCHANGED vars
  BY <1>15 DEF vars, broker, signals, attempts, TypeOK, WorkOK, Current
<1>. QED
  BY <1>1, <1>2, <1>3, <1>4, <1>5, <1>6, <1>7, <1>8, <1>9, <1>10, <1>11, <1>12, <1>13,
     <1>14, <1>15
  DEF Next, Consume

(* Every step that leads to Ack or Nack has a reason.                      *)
LEMMA HandStep ==
  TypeOK /\ WorkOK /\ HandOK /\ [Next]_vars => HandOK'
<1>. SUFFICES ASSUME TypeOK, WorkOK, HandOK, [Next]_vars
             PROVE  HandOK'
  OBVIOUS
<1>1. CASE Publish
  <2>1. PICK e \in Events : events' = Append(events, e)
    BY <1>1 DEF Publish
  <2>2. hand # 0 => events'[hand] = events[hand] /\ tries'[hand] = tries[hand]
    <3>1. \A i \in 1..Len(events) : events'[i] = events[i]
      BY <2>1, AppendProperties DEF TypeOK
    <3>2. 0 \in 0..MaxAttempts /\ tries' = Append(tries, 0)
      BY <1>1, BoundsAssumption DEF Publish
    <3>3. \A i \in 1..Len(tries) : tries'[i] = tries[i]
      BY <3>2, AppendProperties DEF TypeOK
    <3>. QED  BY <3>1, <3>3, InHand
  <2>3. pc \in {"ack", "nack"} => hand # 0
    BY DEF WorkOK
  <2>. QED
    BY <1>1, <2>2, <2>3 DEF Publish, HandOK, Indexes, Current, signals, attempts
<1>2. CASE LinkLost
  BY <1>2 DEF LinkLost, broker, attempts, HandOK, Indexes, Current
<1>3. CASE Cancel
  BY <1>3 DEF Cancel, broker, attempts, HandOK, Indexes, Current, TypeOK
<1>4. CASE Restart
  BY <1>4 DEF Restart, broker, attempts, TypeOK, WorkOK, HandOK, Indexes, Document
<1>5. CASE Take
  BY <1>5 DEF Take, broker, signals, attempts, TypeOK, WorkOK, HandOK, Indexes, Document
<1>6. CASE Stopped
  BY <1>6
    DEF Stopped, broker, signals, attempts, TypeOK, WorkOK, HandOK, Indexes, Document
<1>7. CASE Settle
  BY <1>7 DEF Settle, signals, attempts, TypeOK, WorkOK, HandOK, Indexes, Document
<1>8. CASE Retry
  BY <1>8 DEF Retry, broker, signals, attempts, TypeOK, WorkOK, HandOK, Indexes, Document
<1>9. CASE AbandonRetry
  BY <1>9
    DEF AbandonRetry, broker, signals, attempts, TypeOK, WorkOK, HandOK, Indexes,
    Document
<1>10. CASE Ignore
  BY <1>10
    DEF Ignore, broker, signals, attempts, Working, Done, Current, TypeOK, WorkOK,
    HandOK, Indexes, Document
<1>11. CASE Unreadable
  BY <1>11
    DEF Unreadable, broker, signals, attempts, Working, Current, TypeOK, WorkOK,
    HandOK, Indexes, Document
<1>12. CASE IndexNewUser
  <2>1. CASE Failed
    BY <1>12, <2>1, FailedCounts, WorkOnDocuments DEF HandOK, Current
  <2>2. CASE Done("ack") /\ docs' = Indexed
    <3>1. /\ docs'[Current.user].from = hand /\ docs'[Current.user] # None
          /\ hand \in Nat
      BY <1>12, <2>2, InHand, IndexedDocument, WorkOnDocuments
    <3>. QED
      BY <1>12, <2>2, <3>1, WorkOnDocuments DEF Done, HandOK, Current
  <2>. QED  BY <1>12, <2>1, <2>2 DEF IndexNewUser
<1>13. CASE UpdateUser
  <2>1. CASE Failed
    BY <1>13, <2>1, FailedCounts, WorkOnDocuments DEF HandOK, Current
  <2>2. CASE Done("ack")
    BY <1>13, <2>2, WorkOnDocuments
    DEF UpdateUser, Working, Done, HandOK, Indexes, Current
  <2>. QED  BY <1>13, <2>1, <2>2 DEF UpdateUser
<1>14. CASE UpdateCount
  BY <1>14
    DEF UpdateCount, broker, signals, attempts, Working, Done, Current, Merged,
    MayFail, TypeOK, WorkOK, HandOK, Indexes, Document
<1>15. CASE UNCHANGED vars
  BY <1>15
    DEF vars, broker, signals, attempts, TypeOK, WorkOK, HandOK, Indexes, Document,
    Current
<1>. QED
  BY <1>1, <1>2, <1>3, <1>4, <1>5, <1>6, <1>7, <1>8, <1>9, <1>10, <1>11, <1>12, <1>13,
     <1>14, <1>15
  DEF Next, Consume

-----------------------------------------------------------------------------
(* What is settled.                                                        *)

(* A document is only replaced for an event after all the settled ones.    *)
LEMMA AckedStep ==
  TypeOK /\ WorkOK /\ HandOK /\ AckedIsIndexed /\ [Next]_vars => AckedIsIndexed'
<1>. SUFFICES ASSUME TypeOK, WorkOK, HandOK, AckedIsIndexed, [Next]_vars
             PROVE  AckedIsIndexed'
  OBVIOUS
<1>1. CASE Publish
  BY <1>1
    DEF Publish, broker, signals, attempts, TypeOK, WorkOK, HandOK, AckedIsIndexed,
    Indexes, Document
<1>2. CASE LinkLost
  BY <1>2
    DEF LinkLost, broker, attempts, TypeOK, WorkOK, HandOK, AckedIsIndexed, Indexes,
    Document
<1>3. CASE Cancel
  BY <1>3
    DEF Cancel, broker, attempts, TypeOK, WorkOK, HandOK, AckedIsIndexed, Indexes,
    Document
<1>4. CASE Restart
  BY <1>4
    DEF Restart, broker, attempts, TypeOK, WorkOK, HandOK, AckedIsIndexed, Indexes,
    Document
<1>5. CASE Take
  BY <1>5
    DEF Take, broker, signals, attempts, TypeOK, WorkOK, HandOK, AckedIsIndexed,
    Indexes, Document
<1>6. CASE Stopped
  BY <1>6
    DEF Stopped, broker, signals, attempts, TypeOK, WorkOK, HandOK, AckedIsIndexed,
    Indexes, Document
<1>7. CASE Settle
  <2>1. CASE lost
    BY <1>7, <2>1 DEF Settle, AckedIsIndexed, signals, attempts
  <2>2. CASE ~ lost
    <3>. DEFINE end == IF pc = "ack" THEN "acked" ELSE "dropped"
    <3>1. hand = Len(outcome) + 1 /\ Len(outcome) \in Nat
      BY <1>7, InHand DEF Settle, WorkOK
    <3>2. end \in {"acked", "dropped"} /\ outcome' = Append(outcome, end)
      BY <1>7, <2>2 DEF Settle
    <3>3. /\ Len(outcome') = Len(outcome) + 1 /\ outcome'[hand] = end
          /\ \A i \in 1..Len(outcome) : outcome'[i] = outcome[i]
      BY <3>1, <3>2, AppendProperties DEF TypeOK
    <3>. QED
      BY <1>7, <3>1, <3>3 DEF Settle, signals, attempts, HandOK, AckedIsIndexed, Indexes, Current
  <2>. QED  BY <2>1, <2>2
<1>8. CASE Retry
  BY <1>8
    DEF Retry, broker, signals, attempts, TypeOK, WorkOK, HandOK, AckedIsIndexed,
    Indexes, Document
<1>9. CASE AbandonRetry
  BY <1>9
    DEF AbandonRetry, broker, signals, attempts, TypeOK, WorkOK, HandOK,
    AckedIsIndexed, Indexes, Document
<1>10. CASE Ignore
  BY <1>10
    DEF Ignore, broker, signals, attempts, Working, Done, Current, TypeOK, WorkOK,
    HandOK, AckedIsIndexed, Indexes, Document
<1>11. CASE Unreadable
  BY <1>11
    DEF Unreadable, broker, signals, attempts, Working, Current, TypeOK, WorkOK,
    HandOK, AckedIsIndexed, Indexes, Document
<1>12. CASE IndexNewUser
  <2>1. /\ UNCHANGED <<events, outcome>> /\ hand = Len(outcome) + 1
        /\ Len(outcome) \in Nat
    BY <1>12, InHand, WorkOnDocuments
  <2>2. \A i \in 1..Len(outcome) : events[i].user \in Users
    BY EventsAssumption DEF TypeOK, Event
  <2>. QED
    BY <1>12, <2>1, <2>2, WorkOnDocuments DEF AckedIsIndexed, Indexes
<1>13. CASE UpdateUser
  <2>1. /\ UNCHANGED <<events, outcome>> /\ hand = Len(outcome) + 1
        /\ Len(outcome) \in Nat
    BY <1>13, InHand, WorkOnDocuments
  <2>2. \A i \in 1..Len(outcome) : events[i].user \in Users
    BY EventsAssumption DEF TypeOK, Event
  <2>. QED
    BY <1>13, <2>1, <2>2, WorkOnDocuments DEF AckedIsIndexed, Indexes
<1>14. CASE UpdateCount
  <2>1. /\ UNCHANGED <<events, outcome>> /\ hand = Len(outcome) + 1
        /\ Len(outcome) \in Nat
    BY <1>14, InHand, WorkOnDocuments
  <2>2. \A i \in 1..Len(outcome) : events[i].user \in Users
    BY EventsAssumption DEF TypeOK, Event
  <2>. QED
    BY <1>14, <2>1, <2>2, WorkOnDocuments DEF AckedIsIndexed, Indexes
<1>15. CASE UNCHANGED vars
  BY <1>15
    DEF vars, broker, signals, attempts, TypeOK, WorkOK, HandOK, AckedIsIndexed,
    Indexes, Document, Current
<1>. QED
  BY <1>1, <1>2, <1>3, <1>4, <1>5, <1>6, <1>7, <1>8, <1>9, <1>10, <1>11, <1>12, <1>13,
     <1>14, <1>15
  DEF Next, Consume

(* The attempts of a settled event are not counted again.                  *)
LEMMA RefusedStep ==
  TypeOK /\ WorkOK /\ HandOK /\ RefusedWithReason /\ [Next]_vars
    => RefusedWithReason'
<1>. SUFFICES ASSUME TypeOK, WorkOK, HandOK, RefusedWithReason, [Next]_vars
             PROVE  RefusedWithReason'
  OBVIOUS
<1>1. CASE Publish
  BY <1>1
    DEF Publish, broker, signals, attempts, TypeOK, WorkOK, HandOK,
    RefusedWithReason, Refused
<1>2. CASE LinkLost
  BY <1>2
    DEF LinkLost, broker, attempts, TypeOK, WorkOK, HandOK,
    RefusedWithReason, Refused
<1>3. CASE Cancel
  BY <1>3
    DEF Cancel, broker, attempts, TypeOK, WorkOK, HandOK,
    RefusedWithReason, Refused
<1>4. CASE Restart
  BY <1>4
    DEF Restart, broker, attempts, TypeOK, WorkOK, HandOK,
    RefusedWithReason, Refused
<1>5. CASE Take
  BY <1>5
    DEF Take, broker, signals, attempts, TypeOK, WorkOK, HandOK,
    RefusedWithReason, Refused
<1>6. CASE Stopped
  BY <1>6
    DEF Stopped, broker, signals, attempts, TypeOK, WorkOK, HandOK,
    RefusedWithReason, Refused
<1>7. CASE Settle
  <2>1. CASE lost
    BY <1>7, <2>1 DEF Settle, RefusedWithReason, Refused, signals, attempts
  <2>2. CASE ~ lost
    <3>. DEFINE end == IF pc = "ack" THEN "acked" ELSE "dropped"
    <3>1. hand = Len(outcome) + 1 /\ Len(outcome) \in Nat
      BY <1>7, InHand DEF Settle, WorkOK
    <3>2. end \in {"acked", "dropped"} /\ outcome' = Append(outcome, end)
      BY <1>7, <2>2 DEF Settle
    <3>3. /\ Len(outcome') = Len(outcome) + 1 /\ outcome'[hand] = end
          /\ \A i \in 1..Len(outcome) : outcome'[i] = outcome[i]
      BY <3>1, <3>2, AppendProperties DEF TypeOK
    <3>. QED
      BY <1>7, <3>1, <3>3 DEF Settle, signals, attempts, HandOK, RefusedWithReason,
         Refused, Current
  <2>. QED  BY <2>1, <2>2
<1>8. CASE Retry
  BY <1>8
    DEF Retry, broker, signals, attempts, TypeOK, WorkOK, HandOK,
    RefusedWithReason, Refused
<1>9. CASE AbandonRetry
  BY <1>9
    DEF AbandonRetry, broker, signals, attempts, TypeOK, WorkOK, HandOK,
    RefusedWithReason, Refused
<1>10. CASE Ignore
  BY <1>10
    DEF Ignore, broker, signals, attempts, Working, Done, Current, TypeOK, WorkOK,
    HandOK, RefusedWithReason, Refused
<1>11. CASE Unreadable
  BY <1>11
    DEF Unreadable, broker, signals, attempts, Working, Current, TypeOK, WorkOK,
    HandOK, RefusedWithReason, Refused
<1>12. CASE IndexNewUser
  BY <1>12
    DEF IndexNewUser, broker, signals, attempts, Working, Done, Failed, Current,
    Indexed, MayFail, TypeOK, WorkOK, HandOK,
    RefusedWithReason, Refused
<1>13. CASE UpdateUser
  BY <1>13
    DEF UpdateUser, broker, signals, attempts, Working, Done, Failed, Current, Merged,
    MayFail, TypeOK, WorkOK, HandOK, RefusedWithReason,
    Refused
<1>14. CASE UpdateCount
  BY <1>14
    DEF UpdateCount, broker, signals, attempts, Working, Done, Current, Merged,
    MayFail, TypeOK, WorkOK, HandOK, RefusedWithReason,
    Refused
<1>15. CASE UNCHANGED vars
  BY <1>15
    DEF vars, broker, signals, attempts, TypeOK, WorkOK, HandOK,
    RefusedWithReason, Refused, Current
<1>. QED
  BY <1>1, <1>2, <1>3, <1>4, <1>5, <1>6, <1>7, <1>8, <1>9, <1>10, <1>11, <1>12, <1>13,
     <1>14, <1>15
  DEF Next, Consume

-----------------------------------------------------------------------------
(* The theorems.                                                           *)

(* The inductive invariant holds in every reachable state.                 *)
THEOREM InductiveInvariant == Spec => []IInv
<1>1. Init => IInv
  <2>. SUFFICES ASSUME Init PROVE IInv
    OBVIOUS
  <2>1. TypeOK
    <3>1. events \in Seq(Events) /\ Len(events) = 0
      BY EmptySeq DEF Init
    <3>2. outcome \in Seq({"acked", "dropped"}) /\ Len(outcome) = 0
      BY EmptySeq DEF Init
    <3>3. tries \in Seq(0..MaxAttempts) /\ Len(tries) = 0
      BY EmptySeq DEF Init
    <3>4. docs \in [Users -> Document \cup {None}] /\ pos \in 1..4 /\ restarts \in 0..MaxRestarts
      BY BoundsAssumption DEF Init
    <3>5. Len(events) <= MaxEvents /\ Len(outcome) <= Len(events) /\ Len(tries) = Len(events)
          /\ hand \in {0, Len(outcome) + 1} /\ hand <= Len(events) /\ stops \in Nat
          /\ misread \subseteq 1..Len(events)
      BY <3>1, <3>2, <3>3, BoundsAssumption DEF Init
    <3>6. pc = "select" /\ cancelled = FALSE /\ lost = FALSE
      BY DEF Init
    <3>. QED  BY <3>1, <3>2, <3>3, <3>4, <3>5, <3>6 DEF TypeOK
  <2>2. WorkOK /\ HandOK
    BY DEF Init, WorkOK, HandOK
  <2>3. AckedIsIndexed /\ RefusedWithReason
    BY EmptySeq
    DEF Init, AckedIsIndexed, RefusedWithReason,
        Refused
  <2>. QED  BY <2>1, <2>2, <2>3 DEF IInv
<1>2. IInv /\ [Next]_vars => IInv'
  BY TypeStep, WorkStep, HandStep, AckedStep, RefusedStep DEF IInv
<1>. QED  BY <1>1, <1>2, PTL DEF Spec

(* Every variable keeps its type: the event in hand always is the first    *)
(* that is not settled (event_consumer.go:98-119).                         *)
THEOREM TypeCorrect == Spec => []TypeOK
  BY InductiveInvariant, PTL DEF IInv

(* A creation that was acknowledged is in the index, or a later one is:    *)
(* errors, restarts, shutdown and lost channels never lose it and never    *)
(* bring an older one back (event_consumer.go:107-117, 300-302).           *)
THEOREM AckedStaysIndexed == Spec => []AckedIsIndexed
  BY InductiveInvariant, PTL DEF IInv

(* Until the consumer is asked to stop, an event that can be read is only  *)
(* refused after MaxAttempts failures, or after one whose text passes for  *)
(* that of an unreadable event (event_consumer.go:113, 123-184).           *)
THEOREM RefusedForAReason == Spec => []RefusedWithReason
  BY InductiveInvariant, PTL DEF IInv
=============================================================================
