--------------------------- MODULE FriendServerProofs ---------------------------
(***************************************************************************)
(* What a client is sent is true, and the event service outlives the       *)
(* handlers, for any clients, requests, lists, windows and faults.         *)
(***************************************************************************)
EXTENDS FriendServer, FiniteSetTheorems, SequenceTheorems, TLAPS

-----------------------------------------------------------------------------
(* The rows of a list: every friend once, in the order of the keys.        *)

LEMMA RowsFacts ==
  ASSUME NEW S \in SUBSET Ids
  PROVE  /\ IsFiniteSet(S) /\ Cardinality(S) \in 0..Cardinality(Ids)
         /\ Rows(S) \in Seq(Ids) /\ Len(Rows(S)) = Cardinality(S)
         /\ \A i \in 1..Cardinality(S) : Rows(S)[i] \in S
         /\ \A i, j \in 1..Cardinality(S) : i < j => Rows(S)[i] < Rows(S)[j]
<1> DEFINE n == Cardinality(S)
           UpTo(x) == {y \in S : y <= x}
           rank == [x \in S |-> Cardinality(UpTo(x))]
<1>1. IsFiniteSet(S) /\ n \in Nat /\ n <= Cardinality(Ids) /\ Cardinality(Ids) \in Nat
  BY IdsAssumption, FS_Subset, FS_CardinalityType
<1>2. S \subseteq Nat
  BY IdsAssumption
<1>3. ASSUME NEW x \in S
      PROVE  /\ IsFiniteSet(UpTo(x)) /\ Cardinality(UpTo(x)) \in Nat
             /\ Cardinality(UpTo(x)) <= n /\ Cardinality(UpTo(x)) # 0
  <2>1. UpTo(x) \in SUBSET S /\ x \in UpTo(x)
    BY <1>2
  <2>2. IsFiniteSet(UpTo(x)) /\ Cardinality(UpTo(x)) <= n
    BY <1>1, <2>1, FS_Subset
  <2>3. Cardinality(UpTo(x)) \in Nat /\ (Cardinality(UpTo(x)) = 0 <=> UpTo(x) = {})
    BY <2>2, FS_CardinalityType, FS_EmptySet
  <2> HIDE DEF UpTo
  <2>4. QED
    BY <2>1, <2>2, <2>3
<1>4. ASSUME NEW x \in S, NEW y \in S, x < y
      PROVE  Cardinality(UpTo(x)) < Cardinality(UpTo(y))
  <2>1. UpTo(x) \in SUBSET UpTo(y) /\ y \in UpTo(y) /\ y \notin UpTo(x)
    <3>1. x \in Nat /\ y \in Nat /\ ~ (y <= x) /\ y <= y
      BY <1>2, <1>4
    <3>2. \A z \in S : z <= x => z <= y
      BY <1>2, <1>4
    <3>3. QED
      BY <3>1, <3>2
  <2>2. Cardinality(UpTo(x)) <= Cardinality(UpTo(y))
    BY <1>3, <2>1, FS_Subset
  <2>3. Cardinality(UpTo(x)) # Cardinality(UpTo(y))
    BY <1>3, <2>1, FS_Subset
  <2>4. QED
    BY <1>3, <2>2, <2>3
<1> HIDE DEF UpTo
<1>5. rank \in [S -> 1..n]
  BY <1>1, <1>3
<1>6. \A x, y \in S : rank[x] = rank[y] => x = y
  <2>1. SUFFICES ASSUME NEW x \in S, NEW y \in S, rank[x] = rank[y], x # y
                 PROVE  FALSE
    OBVIOUS
  <2>2. x < y \/ y < x
    BY <1>2, <2>1
  <2>3. rank[x] # rank[y]
    BY <1>3, <1>4, <2>2
  <2>4. QED
    BY <2>1, <2>3
<1>7. IsFiniteSet(1..n) /\ Cardinality(1..n) = n
  BY <1>1, FS_Interval
<1>8. rank \in Injection(S, 1..n)
  BY <1>5, <1>6 DEF Injection, IsInjective
<1>9. rank \in Surjection(S, 1..n)
  BY <1>7, <1>8, FS_Injection
<1>10. \A i \in 1..n : \E x \in S : rank[x] = i
  BY <1>9 DEF Surjection
<1>11. \A x, y \in S : x < y => rank[x] < rank[y]
  BY <1>4
<1> HIDE DEF rank
<1> DEFINE r == [i \in 1..n |-> CHOOSE x \in S : rank[x] = i]
<1>12. r \in [1..n -> S] /\ \A i \in 1..n : rank[r[i]] = i
  BY <1>10
<1> HIDE DEF r
<1>13. ASSUME NEW i \in 1..n, NEW j \in 1..n, i < j
       PROVE  r[i] < r[j]
  <2>1. r[i] \in S /\ r[j] \in S /\ rank[r[i]] = i /\ rank[r[j]] = j
    BY <1>12
  <2>2. i # j /\ ~ (j < i)
    BY <1>1, <1>13
  <2>3. r[i] # r[j] /\ ~ (r[j] < r[i])
    BY <1>11, <2>1, <2>2
  <2>4. r[i] \in Nat /\ r[j] \in Nat
    BY <1>2, <2>1
  <2>5. QED
    BY <2>3, <2>4
<1>14. Rows(S) \in [1..n -> S] /\ \A i, j \in 1..n : i < j => Rows(S)[i] < Rows(S)[j]
  <2>1. \E q \in [1..n -> S] : \A i, j \in DOMAIN q : i < j => q[i] < q[j]
    BY <1>12, <1>13
  <2>2. /\ Rows(S) \in [1..n -> S]
        /\ \A i, j \in DOMAIN Rows(S) : i < j => Rows(S)[i] < Rows(S)[j]
    BY <2>1 DEF Rows
  <2>3. QED
    BY <2>2
<1>15. Rows(S) \in Seq(Ids) /\ Len(Rows(S)) = n
  BY <1>1, <1>14
<1>16. QED
  BY <1>1, <1>14, <1>15

(* The size of a page is positive.                                         *)
LEMMA LimitPositive ==
  ASSUME NEW r \in Request
  PROVE  LimitOf(r) \in Nat \ {0}
<1>1. r.limit \in Int
  BY DEF Request
<1>2. QED
  BY <1>1, LimitsAssumption DEF LimitOf

(* A page holds the first rows of the list S, and says whether it may lack *)
(* any: then it holds one at least.                                        *)
FirstOf(p, S) ==
  /\ Len(p.rows) <= Cardinality(S)
  /\ \A i \in 1..Len(p.rows) : p.rows[i] = Rows(S)[i]
  /\ IF p.more THEN p.rows # <<>> ELSE Len(p.rows) = Cardinality(S)

LEMMA PageFacts ==
  ASSUME NEW S \in SUBSET Ids, NEW limit \in Nat \ {0}
  PROVE  Page(S, limit) \in PageType /\ FirstOf(Page(S, limit), S)
<1> DEFINE rows == Rows(S)
<1>1. rows \in Seq(Ids) /\ Len(rows) = Cardinality(S) /\ Cardinality(S) \in Nat
  BY RowsFacts
<1> HIDE DEF rows
<1>2. CASE Len(rows) >= limit
  <2>1. \A i \in 1..limit : rows[i] \in Ids
    BY <1>1, <1>2
  <2>2. /\ SubSeq(rows, 1, limit) \in Seq(Ids)
        /\ Len(SubSeq(rows, 1, limit)) = limit
        /\ \A i \in 1..limit : SubSeq(rows, 1, limit)[i] = rows[i]
    BY <1>1, <2>1, SubSeqProperties
  <2>3. Page(S, limit) = [rows |-> SubSeq(rows, 1, limit), more |-> TRUE]
    BY <1>2 DEF Page, rows
  <2>4. QED
    BY <1>1, <1>2, <2>2, <2>3 DEF FirstOf, PageType, rows
<1>3. CASE ~ Len(rows) >= limit
  <2>1. Page(S, limit) = [rows |-> rows, more |-> FALSE]
    BY <1>3 DEF Page, rows
  <2>2. QED
    BY <1>1, <2>1 DEF FirstOf, PageType, rows
<1>4. QED
  BY <1>2, <1>3

(* All the rows, as one page.                                              *)
LEMMA WholePageFacts ==
  ASSUME NEW S \in SUBSET Ids
  PROVE  LET p == [rows |-> Rows(S), more |-> FALSE] IN p \in PageType /\ FirstOf(p, S)
  BY RowsFacts DEF FirstOf, PageType

-----------------------------------------------------------------------------
(* Types.                                                                  *)

SharedType ==
  /\ friends \subseteq Ids /\ past \subseteq SUBSET Ids /\ changes \in 0..MaxChanges
  /\ listed = None \/ listed \in PageType
  /\ counted = None \/ counted \in 0..Cardinality(Ids)
  /\ phase \in {"serving", "signalled", "stopping", "stopped", "down"}
  /\ events \in {"open", "jammed", "closed"}

HandlerType ==
  /\ pc \in [Clients -> {"idle", "ask", "count", "stream", "ended"}]
  /\ req \in [Clients -> Request \cup {NoRequest}]
  /\ page \in [Clients -> PageType]
  /\ total \in [Clients -> 0..Cardinality(Ids)]
  /\ sent \in [Clients -> Seq(ResponseType)]
  /\ read \in [Clients -> Nat]
  /\ gone \in [Clients -> BOOLEAN]
  /\ code \in [Clients -> Codes \cup {None}]
  /\ \A c \in Clients :
       /\ read[c] <= Len(sent[c])
       /\ (pc[c] = "ended") <=> (code[c] # None)

LEMMA TypeParts == TypeOK <=> SharedType /\ HandlerType
  BY DEF TypeOK, SharedType, HandlerType

LEMMA TypePartsNext == TypeOK' <=> SharedType' /\ HandlerType'
  BY DEF TypeOK, SharedType, HandlerType

LEMMA Basics ==
  /\ NoPage \in PageType /\ 0 \in 0..Cardinality(Ids)
  /\ None \notin Codes /\ NoRequest \notin Request
  BY NoneAssumption, RowsFacts, IdsAssumption, FS_CardinalityType
  DEF NoPage, PageType, Codes, NoRequest, Request

LEMMA InitType == Init => TypeOK
<1> SUFFICES ASSUME Init PROVE TypeOK
  OBVIOUS
<1>1. friends \subseteq Ids /\ past \subseteq SUBSET Ids
  BY IdsAssumption DEF Init
<1>2. <<>> \in Seq(ResponseType) /\ Len(<<>>) = 0
  OBVIOUS
<1>3. SharedType
  BY <1>1, LimitsAssumption DEF Init, SharedType
<1>4. HandlerType
  BY <1>2, Basics DEF Init, HandlerType
<1>5. QED
  BY <1>3, <1>4, TypeParts

LEMMA EndType ==
  ASSUME HandlerType, NEW c \in Clients, NEW status \in Codes, End(c, status),
         UNCHANGED <<sent, read, gone>>, req' \in [Clients -> Request \cup {NoRequest}]
  PROVE  HandlerType'
  BY Basics DEF HandlerType, End

LEMMA CallType ==
  ASSUME TypeOK, NEW c \in Clients, Call(c)
  PROVE  TypeOK'
<1>1. PICK r \in Requests[c] :
        /\ IF Changes(r) THEN changes < MaxChanges /\ changes' = changes + 1
                         ELSE UNCHANGED changes
        /\ req' = [req EXCEPT ![c] = r]
        /\ IF Valid(r) THEN pc' = [pc EXCEPT ![c] = "ask"] /\ UNCHANGED <<code, page, total>>
                       ELSE End(c, "InvalidArgument")
  BY DEF Call
<1>2. SharedType /\ HandlerType /\ r \in Request /\ pc[c] = "idle"
  BY TypeParts, RequestsAssumption DEF Call
<1>3. SharedType'
  BY <1>1, <1>2, LimitsAssumption DEF Call, SharedType, service
<1>4. req' \in [Clients -> Request \cup {NoRequest}]
  BY <1>1, <1>2 DEF HandlerType
<1>5. ASSUME Valid(r) PROVE HandlerType'
  <2>1. pc' = [pc EXCEPT ![c] = "ask"] /\ UNCHANGED <<code, page, total, stream, gone>>
    BY <1>1, <1>5 DEF Call, Valid
  <2>2. QED
    BY <1>2, <1>4, <2>1 DEF HandlerType, stream
<1>6. ASSUME ~ Valid(r) PROVE HandlerType'
  <2>1. UNCHANGED <<sent, read, gone>> /\ "InvalidArgument" \in Codes
    BY DEF Call, stream, Codes
  <2>2. QED
    <3>1. End(c, "InvalidArgument")
      BY <1>1, <1>6 DEF Valid
    <3>2. QED
      BY <1>2, <1>4, <2>1, <3>1, EndType
<1>7. HandlerType'
  BY <1>5, <1>6 DEF Valid
<1>8. QED
  BY <1>3, <1>7, TypePartsNext

LEMMA HandleType ==
  ASSUME TypeOK, NEW c \in Clients, Handle(c)
  PROVE  TypeOK'
<1>1. SharedType /\ HandlerType
  BY TypeParts
<1>2. ASSUME NEW entry, NEW e2 \in Stays(entry)
      PROVE  e2 \in {None, entry}
  BY <1>2 DEF Stays
<1>3. ASSUME NEW entry, NEW value, NEW e2 \in Filled(entry, value)
      PROVE  e2 \in {entry, value}
  BY <1>3 DEF Filled
<1>4. Cardinality(friends) \in 0..Cardinality(Ids)
  BY <1>1, RowsFacts DEF SharedType
<1>5. req[c] \in Request \/ req[c] = NoRequest
  BY <1>1 DEF HandlerType
<1>6. "OK" \in Codes /\ "SERVING" \in Codes /\ "NOT_SERVING" \in Codes /\ "Internal" \in Codes
      /\ \A text : toGRPCError(text) \in Codes
  BY DEF Codes, toGRPCError
<1>7. UNCHANGED req
  BY DEF Handle, GetFriends, CountFriends, GetMutualFriends, GetFriendCount, AddFriend,
    RemoveFriend, AreFriends, ChangeUnanswered, Refused, HealthCheck, Send, SendFails, SentAll, asked
<1>8. req' \in [Clients -> Request \cup {NoRequest}]
  BY <1>1, <1>7 DEF HandlerType
<1>10. CASE GetFriends(c)
  <2>1. req[c] \in Request
    BY <1>5, <1>10 DEF GetFriends, NoRequest
  <2>2. Page(friends, LimitOf(req[c])) \in PageType
    BY <1>1, <2>1, LimitPositive, PageFacts DEF SharedType
  <2>3. PICK p \in PageType : page' = [page EXCEPT ![c] = p] /\ listed' \in {listed, p}
    BY <1>1, <1>3, <1>10, <2>2 DEF GetFriends, SharedType, HandlerType
  <2>4. SharedType'
    BY <1>1, <1>10, <2>3 DEF GetFriends, SharedType, asked
  <2>5. HandlerType'
    BY <1>1, <1>10, <2>3 DEF GetFriends, HandlerType, asked, stream
  <2>6. QED
    BY <2>4, <2>5, TypePartsNext
<1>11. CASE CountFriends(c)
  <2>1. PICK n \in 0..Cardinality(Ids) :
          total' = [total EXCEPT ![c] = n] /\ counted' \in {counted, Cardinality(friends)}
    <3>1. total = [total EXCEPT ![c] = total[c]] /\ total[c] \in 0..Cardinality(Ids)
      BY <1>1 DEF HandlerType
    <3>2. QED
      BY <1>1, <1>3, <1>4, <1>11, <3>1 DEF CountFriends, SharedType
  <2>2. SharedType'
    BY <1>1, <1>4, <1>11, <2>1 DEF CountFriends, SharedType, asked
  <2>3. HandlerType'
    BY <1>1, <1>11, <2>1 DEF CountFriends, HandlerType, asked, stream
  <2>4. QED
    BY <2>2, <2>3, TypePartsNext
<1>12. CASE GetMutualFriends(c)
  <2>1. PICK S \in past \cup {friends} :
          /\ page' = [page EXCEPT ![c] = [rows |-> Rows(S), more |-> FALSE]]
          /\ total' = [total EXCEPT ![c] = Cardinality(S)]
    BY <1>12 DEF GetMutualFriends
  <2>2. [rows |-> Rows(S), more |-> FALSE] \in PageType /\ Cardinality(S) \in 0..Cardinality(Ids)
    BY <1>1, WholePageFacts, RowsFacts DEF SharedType
  <2>3. SharedType'
    BY <1>1, <1>12 DEF GetMutualFriends, SharedType, service, asked
  <2>4. HandlerType'
    BY <1>1, <1>12, <2>1, <2>2 DEF GetMutualFriends, HandlerType, asked, stream
  <2>5. QED
    BY <2>3, <2>4, TypePartsNext
<1>13. CASE GetFriendCount(c)
  <2>1. counted' \in {counted, Cardinality(friends)}
    BY <1>3, <1>13 DEF GetFriendCount
  <2>2. SharedType'
    BY <1>1, <1>4, <1>13, <2>1 DEF GetFriendCount, SharedType, asked
  <2>3. HandlerType'
    BY <1>1, <1>6, <1>8, <1>13, EndType DEF GetFriendCount, asked, stream
  <2>4. QED
    BY <2>2, <2>3, TypePartsNext
<1>14. ASSUME NEW S \in SUBSET Ids, Becomes(S), End(c, "OK"), UNCHANGED <<changes, asked>>
       PROVE  TypeOK'
  <2>1. listed' \in {None, listed} /\ counted' \in {None, counted}
    BY <1>2, <1>14 DEF Becomes
  <2>2. SharedType'
    BY <1>1, <1>14, <2>1 DEF Becomes, SharedType, asked
  <2>3. HandlerType'
    BY <1>1, <1>6, <1>8, <1>14, EndType DEF asked, stream
  <2>4. QED
    BY <2>2, <2>3, TypePartsNext
<1>15. CASE AddFriend(c)
  <2>1. req[c] \in Request
    BY <1>5, <1>15 DEF AddFriend, NoRequest
  <2>2. friends \cup {req[c].x} \in SUBSET Ids
    BY <1>1, <2>1 DEF SharedType, Request
  <2>3. QED
    BY <1>14, <1>15, <2>2 DEF AddFriend
<1>16. CASE RemoveFriend(c)
  <2>1. friends \ {req[c].x} \in SUBSET Ids
    BY <1>1 DEF SharedType
  <2>2. QED
    BY <1>14, <1>16, <2>1 DEF RemoveFriend
<1>17. ASSUME NEW status \in Codes, End(c, status), UNCHANGED <<service, asked>>
       PROVE  TypeOK'
  <2>1. SharedType'
    BY <1>1, <1>17 DEF SharedType, service, asked
  <2>2. HandlerType'
    BY <1>1, <1>8, <1>17, EndType DEF asked, stream
  <2>3. QED
    BY <2>1, <2>2, TypePartsNext
<1>25. CASE ChangeUnanswered(c)
  <2>1. req[c] \in Request
    BY <1>5, <1>25 DEF ChangeUnanswered, NoRequest
  <2>2. /\ friends' \in SUBSET Ids
        /\ past' = past \cup {friends'}
        /\ UNCHANGED <<listed, counted, changes, asked>>
    BY <1>1, <1>25, <2>1 DEF ChangeUnanswered, SharedType, Request
  <2>3. SharedType'
    BY <1>1, <2>2 DEF SharedType, asked
  <2>4. PICK status \in Codes : End(c, status)
    BY <1>6, <1>25 DEF ChangeUnanswered
  <2>5. HandlerType'
    BY <1>1, <1>8, <2>2, <2>4, EndType DEF asked, stream
  <2>6. QED
    BY <2>3, <2>5, TypePartsNext
<1>18. CASE AreFriends(c)
  BY <1>6, <1>17, <1>18 DEF AreFriends
<1>19. CASE Refused(c)
  BY <1>6, <1>17, <1>19 DEF Refused
<1>20. CASE HealthCheck(c)
  BY <1>6, <1>17, <1>20 DEF HealthCheck
<1>21. CASE Send(c)
  <2>1. page[c].rows \in Seq(Ids) /\ sent[c] \in Seq(ResponseType) /\ read[c] \in Nat
    BY <1>1 DEF HandlerType, PageType
  <2>2. Position(c) \in 1..Len(page[c].rows)
    BY <1>21, <2>1 DEF Send, Position
  <2>3. Response(c) \in ResponseType
    <3>1. page[c].rows[Position(c)] \in Ids
      BY <2>1, <2>2
    <3>2. total[c] \in 0..Cardinality(Ids) /\ page[c].more \in BOOLEAN
      BY <1>1 DEF HandlerType, PageType
    <3>3. QED
      BY <3>1, <3>2, Basics DEF Response, ResponseType
  <2>4. /\ Append(sent[c], Response(c)) \in Seq(ResponseType)
        /\ Len(Append(sent[c], Response(c))) = Len(sent[c]) + 1
    BY <2>1, <2>3, AppendProperties
  <2>5. SharedType'
    BY <1>1, <1>21 DEF Send, SharedType, service
  <2>6. HandlerType'
    <3>1. sent' = [sent EXCEPT ![c] = Append(sent[c], Response(c))]
      BY <1>21 DEF Send
    <3>2. sent' \in [Clients -> Seq(ResponseType)]
      BY <1>1, <2>4, <3>1 DEF HandlerType
    <3>3. ASSUME NEW d \in Clients PROVE read[d] <= Len(sent'[d])
      <4>1. CASE d = c
        BY <1>1, <2>1, <2>4, <3>1, <4>1 DEF HandlerType
      <4>2. CASE d # c
        BY <1>1, <3>1, <4>2 DEF HandlerType
      <4>3. QED
        BY <4>1, <4>2
    <3>4. QED
      BY <1>1, <1>21, <3>2, <3>3 DEF Send, HandlerType
  <2>7. QED
    BY <2>5, <2>6, TypePartsNext
<1>22. CASE SendFails(c)
  BY <1>6, <1>17, <1>22 DEF SendFails
<1>23. CASE SentAll(c)
  BY <1>6, <1>17, <1>23 DEF SentAll
<1>24. QED
  BY <1>10, <1>11, <1>12, <1>13, <1>15, <1>16, <1>18, <1>19, <1>20, <1>21, <1>22, <1>23,
    <1>25 DEF Handle

LEMMA TypeStep == TypeOK /\ [Next]_vars => TypeOK'
<1> SUFFICES ASSUME TypeOK, [Next]_vars PROVE TypeOK'
  OBVIOUS
<1>0. SharedType /\ HandlerType
  BY TypeParts
<1>1. ASSUME NEW c \in Clients, Receive(c) PROVE TypeOK'
  <2>1. sent[c] \in Seq(ResponseType) /\ Len(sent[c]) \in Nat /\ read[c] \in Nat
    BY <1>0 DEF HandlerType
  <2>2. HandlerType'
    BY <1>0, <1>1, <2>1 DEF Receive, HandlerType
  <2>3. SharedType'
    BY <1>0, <1>1 DEF Receive, SharedType, service
  <2>4. QED
    BY <2>2, <2>3, TypePartsNext
<1>2. ASSUME NEW c \in Clients, Cancel(c) PROVE TypeOK'
  BY <1>0, <1>2, TypePartsNext DEF Cancel, SharedType, HandlerType, service, stream
<1>3. ASSUME NEW c \in Clients, Leave(c) PROVE TypeOK'
  <2>1. <<>> \in Seq(ResponseType) /\ Len(<<>>) = 0
    OBVIOUS
  <2>2. HandlerType'
    BY <1>0, <1>3, <2>1 DEF Leave, HandlerType
  <2>3. SharedType'
    BY <1>0, <1>3 DEF Leave, SharedType, service
  <2>4. QED
    BY <2>2, <2>3, TypePartsNext
<1>4. CASE Main \/ Signal \/ Jam
  <2>1. UNCHANGED <<service, handler>>
    BY <1>4 DEF Main, Stop, Stopped, CloseEvents, Signal, Jam
  <2>2. HandlerType'
    BY <1>0, <2>1 DEF HandlerType, handler
  <2>3. SharedType'
    BY <1>0, <1>4, <2>1 DEF Main, Stop, Stopped, CloseEvents, Signal, Jam, SharedType, service
  <2>4. QED
    BY <2>2, <2>3, TypePartsNext
<1>5. CASE Expire
  <2>1. HandlerType'
    BY <1>0, <1>5 DEF Expire, HandlerType, handler
  <2>2. SharedType'
    BY <1>0, <1>5 DEF Expire, SharedType
  <2>3. QED
    BY <2>1, <2>2, TypePartsNext
<1>6. CASE UNCHANGED vars
  BY <1>6 DEF vars, TypeOK
<1>7. QED
  BY <1>1, <1>2, <1>3, <1>4, <1>5, <1>6, CallType, HandleType DEF Next

(* Every variable keeps its type, whatever is asked, fails or changes.     *)
THEOREM TypeCorrect == Spec => []TypeOK
  BY InitType, TypeStep, PTL DEF Spec

-----------------------------------------------------------------------------
(* What is sent.                                                           *)

Announced(n) == n = 0 \/ \E S \in past : n = Cardinality(S)

(* The cache holds pages and counts of lists the user has had.             *)
CacheTrue ==
  /\ friends \in past
  /\ listed # None => \E S \in past : FirstOf(listed, S)
  /\ counted # None => Announced(counted)

(* So does a handler, and what it has sent is the beginning of its page,   *)
(* with the total first and the token last.                                *)
HeldTrue(c) ==
  /\ pc[c] \in {"count", "stream"} => \E S \in past : FirstOf(page[c], S)
  /\ Announced(total[c])
  /\ pc[c] \in {"idle", "ask", "count"} => sent[c] = <<>>
  /\ pc[c] = "stream" =>
       /\ Len(sent[c]) <= Len(page[c].rows)
       /\ \A i \in 1..Len(sent[c]) :
            sent[c][i] = [friend |-> page[c].rows[i],
                          total |-> IF i = 1 THEN total[c] ELSE 0,
                          token |-> i = Len(page[c].rows) /\ page[c].more]

(* SentWasTrue and NoTokenMeansAll of one client, which outlive the page.  *)
SentTrue(c) ==
  sent[c] # <<>> =>
    /\ \E S \in past : IsPrefix(Names(c), Rows(S))
    /\ sent[c][1].total \in {0} \cup {Cardinality(S) : S \in past}
    /\ \A i \in 2..Len(sent[c]) : sent[c][i].total = 0

WholeSent(c) ==
  \/ \E i \in DOMAIN sent[c] : sent[c][i].token
  \/ \E S \in past : Names(c) = Rows(S)

WholeTrue(c) == code[c] = "OK" /\ req[c].op = "GetFriends" => WholeSent(c)

ClientTrue(c) == HeldTrue(c) /\ SentTrue(c) /\ WholeTrue(c)

TInv == TypeOK /\ CacheTrue /\ \A c \in Clients : ClientTrue(c)

LEMMA NamesPrefix ==
  ASSUME NEW s \in Seq(ResponseType), NEW t \in Seq(Ids), Len(s) <= Len(t),
         \A i \in 1..Len(s) : s[i].friend = t[i]
  PROVE  LET names == [i \in DOMAIN s |-> s[i].friend]
         IN  IsPrefix(names, t) /\ (Len(s) = Len(t) => names = t)
<1> DEFINE names == [i \in DOMAIN s |-> s[i].friend]
           n == Len(s)
<1>1. n \in Nat /\ DOMAIN s = 1..n /\ Len(t) \in Nat /\ \A i \in 1..Len(t) : t[i] \in Ids
  BY LenProperties, ElementOfSeq
<1>2. \A i \in 1..n : names[i] = t[i] /\ names[i] \in Ids
  BY <1>1
<1>3. names \in Seq(Ids) /\ Len(names) = n
  BY <1>1, <1>2
<1> HIDE DEF names
<1>4. SubSeq(names, 1, n) = SubSeq(t, 1, n)
  <2>1. /\ SubSeq(names, 1, n) \in Seq(Ids) /\ Len(SubSeq(names, 1, n)) = n
        /\ \A i \in 1..n : SubSeq(names, 1, n)[i] = names[i]
    BY <1>1, <1>2, SubSeqProperties
  <2>2. /\ SubSeq(t, 1, n) \in Seq(Ids) /\ Len(SubSeq(t, 1, n)) = n
        /\ \A i \in 1..n : SubSeq(t, 1, n)[i] = t[i]
    BY <1>1, SubSeqProperties
  <2>3. QED
    BY <1>2, <2>1, <2>2, SeqEqual
<1>5. n = Len(t) => names = t
  BY <1>2, <1>3, SeqEqual
<1>6. QED
  BY <1>3, <1>4, <1>5 DEF IsPrefix, names

LEMMA InitTrue == Init => TInv
<1> SUFFICES ASSUME Init PROVE TInv
  OBVIOUS
<1>1. CacheTrue
  BY DEF Init, CacheTrue
<1>2. ASSUME NEW c \in Clients PROVE ClientTrue(c)
  BY NoneAssumption DEF Init, ClientTrue, HeldTrue, Announced, SentTrue, WholeTrue, Codes
<1>3. QED
  BY <1>1, <1>2, InitType DEF TInv

(* The lists the user has had stay so; a handler that does nothing keeps   *)
(* what is true of it.                                                     *)
LEMMA OthersStayTrue ==
  ASSUME NEW d \in Clients, ClientTrue(d), past \subseteq past',
         pc'[d] = pc[d], page'[d] = page[d], total'[d] = total[d],
         sent'[d] = sent[d], code'[d] = code[d], req'[d] = req[d]
  PROVE  ClientTrue(d)'
<1>1. Announced(total[d]) => Announced(total[d])'
  BY DEF Announced
<1>2. Names(d)' = Names(d)
  BY DEF Names
<1>3. HeldTrue(d)'
  BY <1>1 DEF ClientTrue, HeldTrue, FirstOf
<1>4. SentTrue(d)'
  BY <1>2 DEF ClientTrue, SentTrue
<1>5. WholeTrue(d)'
  BY <1>2 DEF ClientTrue, WholeTrue, WholeSent
<1>6. QED
  BY <1>3, <1>4, <1>5 DEF ClientTrue

(* A handler that returns leaves what was sent.                            *)
LEMMA EndStaysTrue ==
  ASSUME TypeOK, NEW c \in Clients, ClientTrue(c), past \subseteq past',
         NEW status, End(c, status), UNCHANGED <<sent, req>>,
         status = "OK" /\ req[c].op = "GetFriends" => WholeSent(c)
  PROVE  ClientTrue(c)'
<1>1. pc'[c] = "ended" /\ total'[c] = 0 /\ code'[c] = status
  BY DEF End, TypeOK
<1>2. Names(c)' = Names(c)
  BY DEF Names
<1>3. HeldTrue(c)'
  BY <1>1 DEF HeldTrue, Announced
<1>4. SentTrue(c)'
  BY <1>2 DEF ClientTrue, SentTrue
<1>5. WholeTrue(c)'
  BY <1>1, <1>2 DEF WholeTrue, WholeSent
<1>6. QED
  BY <1>3, <1>4, <1>5 DEF ClientTrue

LEMMA CallTrue ==
  ASSUME TInv, NEW c \in Clients, Call(c)
  PROVE  CacheTrue' /\ \A d \in Clients : ClientTrue(d)'
<1>1. PICK r \in Requests[c] :
        /\ req' = [req EXCEPT ![c] = r]
        /\ IF Valid(r) THEN pc' = [pc EXCEPT ![c] = "ask"] /\ UNCHANGED <<code, page, total>>
                       ELSE End(c, "InvalidArgument")
  BY DEF Call
<1>2. UNCHANGED <<friends, listed, counted, past, sent>> /\ pc[c] = "idle"
  BY DEF Call, stream
<1>3. CacheTrue'
  BY <1>2 DEF TInv, CacheTrue, Announced
<1>4. TypeOK /\ ClientTrue(c) /\ sent[c] = <<>>
  BY <1>2 DEF TInv, ClientTrue, HeldTrue
<1>5. ASSUME NEW d \in Clients, d # c PROVE ClientTrue(d)'
  <2>1. /\ pc'[d] = pc[d] /\ page'[d] = page[d] /\ total'[d] = total[d]
        /\ code'[d] = code[d] /\ req'[d] = req[d]
    BY <1>1, <1>4, <1>5 DEF End, TypeOK
  <2>2. QED
    BY <1>2, <1>5, <2>1, OthersStayTrue DEF TInv
<1>6. ClientTrue(c)'
  <2>1. total'[c] \in {0, total[c]} /\ pc'[c] \in {"ask", "ended"} /\ code'[c] # "OK"
    <3>1. code[c] = None /\ None # "OK"
      BY <1>2, <1>4, Basics DEF TypeOK, Codes
    <3>2. QED
      BY <1>1, <1>4, <3>1 DEF End, TypeOK
  <2>2. sent'[c] = <<>>
    BY <1>2, <1>4
  <2>3. HeldTrue(c)'
    BY <1>2, <1>4, <2>1, <2>2 DEF ClientTrue, HeldTrue, Announced
  <2>4. QED
    BY <2>1, <2>2, <2>3 DEF ClientTrue, SentTrue, WholeTrue
<1>7. QED
  BY <1>3, <1>5, <1>6

LEMMA HandleIsLocal ==
  ASSUME TypeOK, NEW c \in Clients, Handle(c)
  PROVE  /\ past \subseteq past' /\ UNCHANGED req
         /\ \A d \in Clients \ {c} :
              /\ pc'[d] = pc[d] /\ page'[d] = page[d] /\ total'[d] = total[d]
              /\ sent'[d] = sent[d] /\ code'[d] = code[d]
<1>1. CASE GetFriends(c) \/ CountFriends(c) \/ GetMutualFriends(c)
  BY <1>1 DEF GetFriends, CountFriends, GetMutualFriends, asked, stream, service, TypeOK
<1>2. CASE GetFriendCount(c) \/ AreFriends(c) \/ Refused(c) \/ HealthCheck(c)
  BY <1>2 DEF GetFriendCount, AreFriends, ChangeUnanswered, Refused, HealthCheck, End, asked, stream, service, TypeOK
<1>3. CASE AddFriend(c) \/ RemoveFriend(c)
  BY <1>3 DEF AddFriend, RemoveFriend, Becomes, End, asked, stream, TypeOK
<1>4. CASE Send(c) \/ SendFails(c) \/ SentAll(c)
  BY <1>4 DEF Send, SendFails, SentAll, End, asked, stream, service, TypeOK
<1>5. CASE ChangeUnanswered(c)
  BY <1>5 DEF ChangeUnanswered, End, asked, stream, TypeOK
<1>6. QED
  BY <1>1, <1>2, <1>3, <1>4, <1>5 DEF Handle

(* The rows that come first in a list are those that are sent first.       *)
LEMMA HeldIsSent ==
  ASSUME TypeOK, NEW c \in Clients, HeldTrue(c), pc[c] = "stream"
  PROVE  /\ \E S \in past : IsPrefix(Names(c), Rows(S))
         /\ Len(sent[c]) = Len(page[c].rows) => WholeSent(c)
<1>0. ASSUME NEW i \in 1..Len(sent[c])
      PROVE  /\ sent[c][i].friend = page[c].rows[i]
             /\ sent[c][i].token = (i = Len(page[c].rows) /\ page[c].more)
  <2> DEFINE t == IF i = 1 THEN total[c] ELSE 0
             k == i = Len(page[c].rows) /\ page[c].more
  <2>1. sent[c][i] = [friend |-> page[c].rows[i], total |-> t, token |-> k]
    BY DEF HeldTrue
  <2> HIDE DEF t, k
  <2>2. sent[c][i].friend = page[c].rows[i] /\ sent[c][i].token = k
    BY <2>1
  <2>3. QED
    BY <2>2, Zenon DEF k
<1>1. PICK S \in past : FirstOf(page[c], S)
  BY DEF HeldTrue
<1>2. /\ S \in SUBSET Ids /\ page[c].rows \in Seq(Ids)
      /\ sent[c] \in Seq(ResponseType)
  BY DEF TypeOK, PageType
<1>3. Rows(S) \in Seq(Ids) /\ Len(Rows(S)) = Cardinality(S) /\ Cardinality(S) \in Nat
  BY <1>2, RowsFacts
<1>4. Len(sent[c]) \in Nat /\ Len(page[c].rows) \in Nat /\ DOMAIN sent[c] = 1..Len(sent[c])
  BY <1>2
<1>5. /\ Len(sent[c]) <= Len(Rows(S))
      /\ \A i \in 1..Len(sent[c]) : sent[c][i].friend = Rows(S)[i]
  <2>1. Len(sent[c]) <= Len(page[c].rows) /\ Len(page[c].rows) <= Cardinality(S)
    BY <1>1 DEF HeldTrue, FirstOf
  <2>2. ASSUME NEW i \in 1..Len(sent[c]) PROVE sent[c][i].friend = Rows(S)[i]
    <3>1. i \in 1..Len(page[c].rows)
      BY <1>4, <2>1
    <3>2. sent[c][i].friend = page[c].rows[i]
      BY <1>0
    <3>3. QED
      BY <1>1, <3>1, <3>2 DEF FirstOf
  <2>3. QED
    BY <1>3, <1>4, <2>1, <2>2
<1>6. /\ IsPrefix(Names(c), Rows(S))
      /\ Len(sent[c]) = Len(Rows(S)) => Names(c) = Rows(S)
  BY <1>2, <1>3, <1>5, NamesPrefix DEF Names
<1>7. ASSUME Len(sent[c]) = Len(page[c].rows) PROVE WholeSent(c)
  <2>1. CASE page[c].more
    <3>1. page[c].rows # <<>>
      BY <1>1, <2>1 DEF FirstOf
    <3>2. Len(sent[c]) \in 1..Len(sent[c]) /\ Len(sent[c]) \in DOMAIN sent[c]
      BY <1>2, <1>4, <1>7, <3>1, EmptySeq
    <3>3. sent[c][Len(sent[c])].token
      BY <1>0, <1>7, <2>1, <3>2
    <3>4. QED
      BY <3>2, <3>3 DEF WholeSent
  <2>2. CASE ~ page[c].more
    <3>1. Len(page[c].rows) = Cardinality(S)
      BY <1>1, <2>2 DEF FirstOf
    <3>2. Names(c) = Rows(S)
      BY <1>3, <1>6, <1>7, <3>1
    <3>3. QED
      BY <3>2 DEF WholeSent
  <2>3. QED
    BY <2>1, <2>2
<1>8. QED
  BY <1>6, <1>7

HeldGivesSent ==
  \A c \in Clients : TypeOK /\ HeldTrue(c) /\ pc[c] = "stream" =>
    /\ \E S \in past : IsPrefix(Names(c), Rows(S))
    /\ Len(sent[c]) = Len(page[c].rows) => WholeSent(c)

LEMMA HeldIsSentAlways == HeldGivesSent
  BY HeldIsSent DEF HeldGivesSent

LEMMA HeldIsSentNext == HeldGivesSent'
  BY HeldIsSentAlways, PTL

LEMMA SendTrue ==
  ASSUME TInv, NEW c \in Clients, Send(c), TypeOK'
  PROVE  ClientTrue(c)'
<1> DEFINE n == Len(sent[c])
           new == [friend |-> page[c].rows[n + 1],
                   total |-> IF n + 1 = 1 THEN total[c] ELSE 0,
                   token |-> n + 1 = Len(page[c].rows) /\ page[c].more]
<1>1. /\ TypeOK /\ HeldTrue(c) /\ WholeTrue(c)
      /\ sent[c] \in Seq(ResponseType) /\ n \in Nat
      /\ page[c].rows \in Seq(Ids) /\ Len(page[c].rows) \in Nat
  BY DEF TInv, ClientTrue, TypeOK, PageType
<1>2. /\ pc[c] = "stream" /\ n + 1 <= Len(page[c].rows)
      /\ sent'[c] = Append(sent[c], new)
      /\ UNCHANGED <<pc, page, total, code, req, past>>
  BY <1>1 DEF Send, Position, Response, TypeOK, service
<1> HIDE DEF new
<1>3. Len(sent'[c]) = n + 1 /\ sent'[c] \in Seq(ResponseType)
  BY <1>1, <1>2 DEF TypeOK
<1>4. /\ \A i \in 1..n : sent'[c][i] = sent[c][i]
      /\ sent'[c][n + 1] = new
  BY <1>1, <1>2
<1>5. HeldTrue(c)'
  <2>1. ASSUME NEW i \in 1..Len(sent'[c])
        PROVE  sent'[c][i] = [friend |-> page[c].rows[i],
                              total |-> IF i = 1 THEN total[c] ELSE 0,
                              token |-> i = Len(page[c].rows) /\ page[c].more]
    <3>1. CASE i \in 1..n
      BY <1>1, <1>2, <1>4, <3>1 DEF HeldTrue
    <3>2. CASE i = n + 1
      BY <1>4, <3>2 DEF new
    <3>3. QED
      BY <1>1, <1>3, <3>1, <3>2
  <2>2. Announced(total[c])'
    BY <1>1, <1>2 DEF HeldTrue, Announced
  <2>3. \E S \in past' : FirstOf(page[c], S)'
    BY <1>1, <1>2 DEF HeldTrue, FirstOf
  <2>4. QED
    BY <1>2, <1>3, <2>1, <2>2, <2>3 DEF HeldTrue
<1>6. SentTrue(c)'
  <2>1. \E S \in past' : IsPrefix(Names(c)', Rows(S))
    BY <1>2, <1>5, HeldIsSentNext DEF HeldGivesSent
  <2>2. \A i \in 1..Len(sent'[c]) : sent'[c][i].total = IF i = 1 THEN total[c] ELSE 0
    <3>1. SUFFICES ASSUME NEW i \in 1..Len(sent'[c])
                   PROVE  sent'[c][i].total = IF i = 1 THEN total[c] ELSE 0
      OBVIOUS
    <3> DEFINE t == IF i = 1 THEN total[c] ELSE 0
               k == i = Len(page[c].rows) /\ page[c].more
    <3>2. sent'[c][i] = [friend |-> page[c].rows[i], total |-> t, token |-> k]
      BY <1>2, <1>5 DEF HeldTrue
    <3> HIDE DEF t, k
    <3>3. sent'[c][i].total = t
      BY <3>2
    <3>4. QED
      BY <3>3 DEF t
  <2>3. 1 \in 1..Len(sent'[c]) /\ \A i \in 2..Len(sent'[c]) : i \in 1..Len(sent'[c]) /\ i # 1
    BY <1>1, <1>3
  <2>4. total[c] \in {0} \cup {Cardinality(S) : S \in past'}
    BY <1>1, <1>2 DEF HeldTrue, Announced
  <2>5. QED
    BY <2>1, <2>2, <2>3, <2>4 DEF SentTrue
<1>7. WholeTrue(c)'
  <2>1. code'[c] # "OK"
    BY <1>1, <1>2, Basics DEF TypeOK, Codes
  <2>2. QED
    BY <2>1 DEF WholeTrue
<1>8. QED
  BY <1>5, <1>6, <1>7 DEF ClientTrue

LEMMA HandleTrue ==
  ASSUME TInv, NEW c \in Clients, Handle(c), TypeOK'
  PROVE  CacheTrue' /\ ClientTrue(c)'
<1>0. TypeOK /\ CacheTrue /\ ClientTrue(c) /\ past \subseteq past' /\ UNCHANGED req
  BY HandleIsLocal DEF TInv
<1>1. /\ friends \in past /\ friends \in SUBSET Ids /\ past \subseteq SUBSET Ids
      /\ (req[c] \in Request \/ req[c] = NoRequest)
  BY <1>0 DEF TypeOK, CacheTrue
<1>2. ASSUME UNCHANGED service PROVE CacheTrue'
  BY <1>0, <1>2 DEF CacheTrue, Announced, service
<1>3. ASSUME NEW status, End(c, status), UNCHANGED <<sent, req>>,
             status = "OK" /\ req[c].op = "GetFriends" => WholeSent(c)
      PROVE  ClientTrue(c)'
  BY <1>0, <1>3, EndStaysTrue
<1>4. ASSUME pc[c] \in {"ask", "count"}, UNCHANGED <<sent, code>>,
             pc'[c] \in {"count", "stream"},
             \E S \in past' : FirstOf(page[c], S)', Announced(total[c])'
      PROVE  ClientTrue(c)'
  <2>1. sent[c] = <<>> /\ Len(<<>>) = 0
    BY <1>0, <1>4 DEF ClientTrue, HeldTrue
  <2>2. code[c] # "OK"
    BY <1>0, <1>4, Basics DEF TypeOK, Codes
  <2>3. page'[c].rows \in Seq(Ids)
    BY DEF TypeOK, PageType
  <2>4. Len(sent'[c]) = 0 /\ Len(page'[c].rows) \in Nat
    BY <1>4, <2>1, <2>3
  <2>5. HeldTrue(c)'
    BY <1>4, <2>1, <2>4 DEF HeldTrue
  <2>6. SentTrue(c)' /\ WholeTrue(c)'
    BY <1>4, <2>1, <2>2 DEF SentTrue, WholeTrue
  <2>7. QED
    BY <2>5, <2>6 DEF ClientTrue
<1>10. CASE GetFriends(c)
  <2>1. req[c] \in Request
    BY <1>1, <1>10 DEF GetFriends, NoRequest
  <2>2. FirstOf(Page(friends, LimitOf(req[c])), friends)
    BY <1>1, <2>1, LimitPositive, PageFacts
  <2>3. PICK p : /\ page' = [page EXCEPT ![c] = p]
                 /\ \E S \in past : FirstOf(p, S)
                 /\ listed' \in {listed, p}
    <3>1. CASE listed # None /\ page' = [page EXCEPT ![c] = listed] /\ UNCHANGED listed
      BY <1>0, <3>1 DEF CacheTrue
    <3>2. CASE /\ page' = [page EXCEPT ![c] = Page(friends, LimitOf(req[c]))]
               /\ listed' \in Filled(listed, page'[c])
      BY <1>0, <1>1, <2>2, <3>2 DEF Filled, TypeOK
    <3>3. QED
      BY <1>10, <3>1, <3>2 DEF GetFriends
  <2>4. CacheTrue'
    BY <1>0, <1>10, <2>3 DEF GetFriends, CacheTrue, Announced, FirstOf
  <2>5. page'[c] = p /\ pc[c] = "ask" /\ pc'[c] = "count" /\ UNCHANGED <<past, total, sent, code>>
    BY <1>0, <1>10, <2>3 DEF GetFriends, TypeOK, asked, stream
  <2>6. \E S \in past' : FirstOf(page[c], S)'
    BY <2>3, <2>5 DEF FirstOf
  <2>7. Announced(total[c])'
    BY <1>0, <2>5 DEF ClientTrue, HeldTrue, Announced
  <2>8. QED
    BY <1>4, <2>4, <2>5, <2>6, <2>7
<1>11. CASE CountFriends(c)
  <2>1. PICK n : total' = [total EXCEPT ![c] = n] /\ Announced(n)
    <3>1. total = [total EXCEPT ![c] = total[c]] /\ Announced(total[c])
      BY <1>0 DEF TypeOK, ClientTrue, HeldTrue
    <3>2. Announced(Cardinality(friends)) /\ (counted # None => Announced(counted))
      BY <1>0, <1>1 DEF CacheTrue, Announced
    <3>3. QED
      BY <1>11, <3>1, <3>2 DEF CountFriends
  <2>2. counted' \in {counted, Cardinality(friends)}
    BY <1>11 DEF CountFriends, Filled
  <2>3. CacheTrue'
    BY <1>0, <1>11, <2>2 DEF CountFriends, CacheTrue, Announced
  <2>4. pc[c] = "count" /\ pc'[c] = "stream" /\ UNCHANGED <<past, page, sent, code>>
    BY <1>0, <1>11 DEF CountFriends, TypeOK, asked, stream
  <2>5. \E S \in past' : FirstOf(page[c], S)'
    BY <1>0, <2>4 DEF ClientTrue, HeldTrue, FirstOf
  <2>6. Announced(total[c])'
    BY <1>0, <2>1, <2>4 DEF Announced, TypeOK
  <2>7. QED
    BY <1>4, <2>3, <2>4, <2>5, <2>6
<1>12. CASE GetMutualFriends(c)
  <2>1. PICK S \in past :
          /\ page' = [page EXCEPT ![c] = [rows |-> Rows(S), more |-> FALSE]]
          /\ total' = [total EXCEPT ![c] = Cardinality(S)]
    BY <1>1, <1>12 DEF GetMutualFriends
  <2>2. FirstOf([rows |-> Rows(S), more |-> FALSE], S)
    BY <1>1, WholePageFacts
  <2>3. UNCHANGED <<service, sent, code>> /\ pc[c] = "ask" /\ pc'[c] = "stream"
    BY <1>0, <1>12 DEF GetMutualFriends, asked, stream, TypeOK
  <2>4. \E T \in past' : FirstOf(page[c], T)'
    BY <1>0, <2>1, <2>2, <2>3 DEF TypeOK, FirstOf, service
  <2>5. Announced(total[c])'
    BY <1>0, <2>1, <2>3 DEF TypeOK, Announced, service
  <2>6. QED
    BY <1>2, <1>4, <2>3, <2>4, <2>5
<1>13. CASE GetFriendCount(c)
  <2>1. counted' \in {counted, Cardinality(friends)}
    BY <1>13 DEF GetFriendCount, Filled
  <2>2. CacheTrue'
    BY <1>0, <1>13, <2>1 DEF GetFriendCount, CacheTrue, Announced
  <2>3. QED
    BY <1>3, <1>13, <2>2 DEF GetFriendCount, asked, stream
<1>14. CASE AddFriend(c) \/ RemoveFriend(c)
  <2>1. PICK S : Becomes(S)
    BY <1>14 DEF AddFriend, RemoveFriend
  <2>2. CacheTrue'
    BY <1>0, <2>1 DEF Becomes, Stays, CacheTrue, Announced, FirstOf
  <2>3. QED
    BY <1>3, <1>14, <2>2 DEF AddFriend, RemoveFriend, asked, stream
<1>22. CASE ChangeUnanswered(c)
  <2>1. CacheTrue'
    BY <1>0, <1>22 DEF ChangeUnanswered, CacheTrue, Announced, FirstOf
  <2>2. UNCHANGED <<sent, req>> /\ \E text \in Texts : End(c, toGRPCError(text))
    BY <1>22 DEF ChangeUnanswered, asked, stream
  <2>3. \A text : toGRPCError(text) # "OK"
    BY DEF toGRPCError
  <2>4. QED
    BY <1>3, <2>1, <2>2, <2>3
<1>15. CASE AreFriends(c)
  BY <1>2, <1>3, <1>15 DEF AreFriends, asked, stream
<1>16. CASE Refused(c)
  BY <1>2, <1>3, <1>16 DEF Refused, asked, stream, toGRPCError
<1>17. CASE HealthCheck(c)
  BY <1>2, <1>3, <1>17 DEF HealthCheck, asked, stream
<1>18. CASE Send(c)
  BY <1>2, <1>18, SendTrue DEF Send
<1>19. CASE SendFails(c)
  BY <1>2, <1>3, <1>19 DEF SendFails, asked, stream
<1>20. CASE SentAll(c)
  <2>1. /\ HeldTrue(c) /\ pc[c] = "stream" /\ Len(sent[c]) \in Nat
        /\ Len(page[c].rows) \in Nat /\ Len(sent[c]) + 1 > Len(page[c].rows)
    <3>1. sent[c] \in Seq(ResponseType) /\ page[c].rows \in Seq(Ids)
      BY <1>0 DEF TypeOK, PageType
    <3>2. QED
      BY <1>0, <1>20, <3>1 DEF SentAll, Position, ClientTrue
  <2>2. Len(sent[c]) = Len(page[c].rows)
    BY <2>1 DEF HeldTrue
  <2>3. WholeSent(c)
    BY <1>0, <2>1, <2>2, HeldIsSent
  <2>4. QED
    BY <1>2, <1>3, <1>20, <2>3 DEF SentAll, asked, stream
<1>21. QED
  BY <1>10, <1>11, <1>12, <1>13, <1>14, <1>15, <1>16, <1>17, <1>18, <1>19, <1>20, <1>22
  DEF Handle

LEMMA StepTrue == TInv /\ [Next]_vars => TInv'
<1> SUFFICES ASSUME TInv, [Next]_vars PROVE TInv'
  OBVIOUS
<1>0. TypeOK' /\ TypeOK
  BY TypeStep DEF TInv
<1>1. ASSUME NEW c \in Clients, Call(c) PROVE TInv'
  BY <1>0, <1>1, CallTrue DEF TInv
<1>2. ASSUME NEW c \in Clients, Handle(c) PROVE TInv'
  <2>1. CacheTrue' /\ ClientTrue(c)'
    BY <1>0, <1>2, HandleTrue
  <2>2. ASSUME NEW d \in Clients \ {c} PROVE ClientTrue(d)'
    BY <1>0, <1>2, HandleIsLocal, OthersStayTrue DEF TInv
  <2>3. QED
    BY <1>0, <2>1, <2>2 DEF TInv
<1>3. ASSUME UNCHANGED <<service, pc, req, page, total, sent, code>> PROVE TInv'
  <2>1. ASSUME NEW d \in Clients PROVE ClientTrue(d)'
    BY <1>3, OthersStayTrue DEF TInv, service
  <2>2. CacheTrue'
    BY <1>3 DEF TInv, CacheTrue, Announced, service
  <2>3. QED
    BY <1>0, <2>1, <2>2 DEF TInv
<1>4. ASSUME NEW c \in Clients, Receive(c) \/ Cancel(c) PROVE TInv'
  BY <1>3, <1>4 DEF Receive, Cancel, stream
<1>5. ASSUME NEW c \in Clients, Leave(c) PROVE TInv'
  <2>1. ASSUME NEW d \in Clients \ {c} PROVE ClientTrue(d)'
    BY <1>0, <1>5, OthersStayTrue DEF TInv, TypeOK, Leave, service
  <2>2. ClientTrue(c)'
    <3>1. /\ pc'[c] = "idle" /\ sent'[c] = <<>> /\ code'[c] = None
          /\ UNCHANGED <<page, total, past>>
      BY <1>0, <1>5 DEF TypeOK, Leave, service
    <3>2. None # "OK"
      BY Basics DEF Codes
    <3>3. Announced(total[c])'
      BY <3>1 DEF TInv, ClientTrue, HeldTrue, Announced
    <3>4. QED
      BY <3>1, <3>2, <3>3 DEF ClientTrue, HeldTrue, SentTrue, WholeTrue
  <2>3. CacheTrue'
    BY <1>5 DEF Leave, TInv, CacheTrue, Announced, service
  <2>4. QED
    BY <1>0, <2>1, <2>2, <2>3 DEF TInv
<1>6. CASE Main \/ Signal \/ Jam
  BY <1>3, <1>6 DEF Main, Stop, Stopped, CloseEvents, Signal, Jam, handler
<1>7. CASE Expire
  <2>1. ASSUME NEW d \in Clients PROVE ClientTrue(d)'
    BY <1>7, OthersStayTrue DEF TInv, Expire, handler
  <2>2. CacheTrue'
    BY <1>7 DEF TInv, Expire, CacheTrue, Announced
  <2>3. QED
    BY <1>0, <2>1, <2>2 DEF TInv
<1>8. CASE UNCHANGED vars
  BY <1>3, <1>8 DEF vars, service
<1>9. QED
  BY <1>1, <1>2, <1>4, <1>5, <1>6, <1>7, <1>8 DEF Next

(* The cache, what handlers hold and what they have sent are all parts of  *)
(* lists that the user has had.                                            *)
LEMMA TruthInvariant == Spec => []TInv
  BY InitTrue, StepTrue, PTL DEF Spec

(* What a client is sent is the beginning of a list that the user has had, *)
(* and the total is that of such a list or 0 (friend_handlers.go:103-153). *)
THEOREM SentIsTrue == Spec => []SentWasTrue
<1>1. TInv => SentWasTrue
  BY DEF TInv, ClientTrue, SentTrue, SentWasTrue
<1>2. QED
  BY <1>1, TruthInvariant, PTL

(* A stream that ends well without a token was the whole of a list that    *)
(* the user has had (friend_handlers.go:146-148).                          *)
THEOREM NoTokenIsTheEnd == Spec => []NoTokenMeansAll
<1>1. TInv => NoTokenMeansAll
  BY DEF TInv, ClientTrue, WholeTrue, WholeSent, NoTokenMeansAll
<1>2. QED
  BY <1>1, TruthInvariant, PTL

-----------------------------------------------------------------------------
(* Shutdown.                                                               *)

(* Once GracefulStop has returned no handler runs, and none begins; the    *)
(* event service is closed after that only.                                *)
Quiet == \A c \in Clients : ~ Running(c)

Stages == {"idle", "ask", "count", "stream", "ended"}

IInv ==
  /\ pc \in [Clients -> Stages]
  /\ phase \in {"stopped", "down"} => Quiet
  /\ events = "closed" => phase = "down"

LEMMA InitQuiet == Init => IInv
  BY DEF Init, IInv, Stages

LEMMA HandleQuiet ==
  ASSUME NEW c \in Clients, Handle(c), Quiet
  PROVE  FALSE
  BY DEF Handle, GetFriends, CountFriends, GetMutualFriends, GetFriendCount,
    AddFriend, RemoveFriend, AreFriends, ChangeUnanswered, Refused, HealthCheck, Send, SendFails,
    SentAll, Quiet, Running

LEMMA HandleKeepsMain ==
  ASSUME IInv, NEW c \in Clients, Handle(c)
  PROVE  /\ UNCHANGED <<phase, events>>
         /\ \E s \in Stages : pc' = [pc EXCEPT ![c] = s]
  BY DEF Handle, IInv, Stages, End, GetFriends, CountFriends, GetMutualFriends, GetFriendCount,
    AddFriend, RemoveFriend, AreFriends, ChangeUnanswered, Refused, HealthCheck, Send, SendFails,
    SentAll, asked, handler

LEMMA StepKeepsQuiet == IInv /\ [Next]_vars => IInv'
<1> SUFFICES ASSUME IInv, [Next]_vars PROVE IInv'
  OBVIOUS
<1>1. ASSUME NEW c \in Clients, Call(c) PROVE IInv'
  BY <1>1 DEF Call, IInv, End, Stages
<1>2. ASSUME NEW c \in Clients, Handle(c) PROVE IInv'
  <2>1. ~ Quiet /\ UNCHANGED <<phase, events>>
    BY <1>2, HandleQuiet, HandleKeepsMain
  <2>2. pc' \in [Clients -> Stages]
    BY <1>2, HandleKeepsMain DEF IInv
  <2>3. QED
    BY <2>1, <2>2 DEF IInv
<1>3. ASSUME NEW c \in Clients, Receive(c) PROVE IInv'
  BY <1>3 DEF Receive, IInv, Quiet, Running
<1>4. ASSUME NEW c \in Clients, Cancel(c) PROVE IInv'
  BY <1>4 DEF Cancel, IInv, Quiet, Running
<1>5. ASSUME NEW c \in Clients, Leave(c) PROVE IInv'
  BY <1>5 DEF Leave, IInv, Quiet, Running, Stages
<1>6. ASSUME Main PROVE IInv'
  <2>1. CASE Stop
    BY <2>1 DEF Stop, IInv, Quiet, Running, handler
  <2>2. CASE Stopped
    BY <2>2 DEF Stopped, IInv, Quiet, Running, handler
  <2>3. CASE CloseEvents
    BY <2>3 DEF CloseEvents, IInv, Quiet, Running, handler
  <2>4. QED
    BY <1>6, <2>1, <2>2, <2>3 DEF Main
<1>7. CASE Signal
  BY <1>7 DEF Signal, IInv, handler
<1>8. CASE Expire
  BY <1>8 DEF Expire, IInv, Quiet, Running, handler
<1>9. CASE Jam
  BY <1>9 DEF Jam, IInv, Quiet, Running, handler
<1>10. CASE UNCHANGED vars
  BY <1>10 DEF vars, IInv, Quiet, Running
<1>11. QED
  BY <1>1, <1>2, <1>3, <1>4, <1>5, <1>6, <1>7, <1>8, <1>9, <1>10 DEF Next

(* Shutdown closes the event service when no handler is left that could    *)
(* ask it for its health or change a friendship (main.go:78-84).           *)
THEOREM StopIsGraceful == Spec => []StopWaits
<1>1. IInv => StopWaits
  BY DEF IInv, StopWaits, Quiet
<1>2. QED
  BY InitQuiet, StepKeepsQuiet, <1>1, PTL DEF Spec
=============================================================================
