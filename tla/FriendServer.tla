------------------------------ MODULE FriendServer ------------------------------
(***************************************************************************)
(* The gRPC server: handlers that validate a request, ask the friend       *)
(* service and stream its answer one response at a time; and main, which   *)
(* on a signal stops the server gracefully and then closes the event       *)
(* service.                                                                *)
(*                                                                         *)
(* The friend service is taken at the grain of its calls (FriendService    *)
(* has the steps inside them): one user's friends, and the cached first    *)
(* page and count of that user, each of which may outlive a change.        *)
(*                                                                         *)
(* internal/api/friend_handlers.go, internal/api/grpc_server.go,           *)
(* cmd/server/main.go.                                                     *)
(***************************************************************************)
EXTENDS Integers, FiniteSets, Sequences, SequencesExt

CONSTANTS Clients,      \* one call at a time each
          Ids,          \* the friends the user can have
          Starts,       \* the lists the user may have when the server starts
          Requests,     \* what each client may ask
          DefaultLimit, \* 50
          MaxLimit,     \* 100
          Window,       \* responses a client's connection holds unread
          MaxChanges,   \* how often a change is asked for (bound)
          Texts,        \* what errors of the store say
          Faults,       \* "store", "cache", "cancel", "jam"
          None          \* no cache entry, no code

ASSUME IdsAssumption ==
  Ids \subseteq Nat /\ IsFiniteSet(Ids) /\ Starts \subseteq SUBSET Ids
ASSUME LimitsAssumption ==
  /\ MaxLimit \in Nat /\ DefaultLimit \in 1..MaxLimit
  /\ Window \in Nat \ {0} /\ MaxChanges \in Nat

(* The statuses that a call ends with.                                     *)
Codes == {"OK", "NotFound", "AlreadyExists", "InvalidArgument", "Unauthenticated",
          "PermissionDenied", "Internal", "SERVING", "NOT_SERVING"}
ASSUME NoneAssumption == None \notin Nat \cup Codes

VARIABLES
  friends,  \* the rows of the user asked about
  listed,   \* the cached first page, or None
  counted,  \* the cached count, or None
  past,     \* history: every list of friends the user has had
  changes,  \* how often a change was asked for
  phase,    \* of main: serving, signalled, stopping, stopped, down
  events,   \* the event service: open, closed, or jammed: a publishing goroutine
            \* holds its client's lock for ever
  pc,       \* where each handler is
  req,      \* what it was asked
  page,     \* the rows it has to stream, and whether there are more
  total,    \* the count it has to announce
  sent,     \* the responses it has sent
  read,     \* how many of them the client has read
  gone,     \* the client has cancelled
  code      \* the status the call ended with

service == <<friends, listed, counted, past, changes>>
stream == <<sent, read>>
handler == <<pc, req, page, total, sent, read, gone, code>>
vars == <<friends, listed, counted, past, changes, phase, events,
          pc, req, page, total, sent, read, gone, code>>

Streams == {"GetFriends", "GetMutualFriends"}
Unaries == {"AddFriend", "RemoveFriend", "GetFriendCount", "AreFriends", "HealthCheck"}

(* ids says whether a request names its users and not one of them twice,   *)
(* known whether its user exists; x is the friend an AddFriend or          *)
(* RemoveFriend is about.                                                  *)
Request == [op : Streams \cup Unaries, limit : Int, ids : {"given", "missing", "same"},
            known : BOOLEAN, x : Ids]
ASSUME RequestsAssumption ==
  \A c \in Clients : \A r \in Requests[c] : r \in Request
NoRequest == [op |-> "none"]

(* What a query returns: the friends by their sort key.                    *)
Rows(S) ==
  CHOOSE r \in [1..Cardinality(S) -> S] : \A i, j \in DOMAIN r : i < j => r[i] < r[j]
NoPage == [rows |-> <<>>, more |-> FALSE]

(* The query stops at the limit and then names a key to go on from.       *)
Page(S, limit) ==
  LET rows == Rows(S)
  IN  IF Len(rows) >= limit THEN [rows |-> SubSeq(rows, 1, limit), more |-> TRUE]
                            ELSE [rows |-> rows, more |-> FALSE]

(* The server starts on a table that is already in use.                    *)
Init ==
  /\ friends \in Starts /\ past = {friends} /\ changes = 0
  /\ listed = None /\ counted = None
  /\ phase = "serving" /\ events = "open"
  /\ pc = [c \in Clients |-> "idle"]
  /\ req = [c \in Clients |-> NoRequest]
  /\ page = [c \in Clients |-> NoPage]
  /\ total = [c \in Clients |-> 0]
  /\ sent = [c \in Clients |-> <<>>]
  /\ read = [c \in Clients |-> 0]
  /\ gone = [c \in Clients |-> FALSE]
  /\ code = [c \in Clients |-> None]

Running(c) == pc[c] \in {"ask", "count", "stream"}

(* The handler returns; what it held is gone.                              *)
End(c, status) ==
  /\ pc' = [pc EXCEPT ![c] = "ended"]
  /\ code' = [code EXCEPT ![c] = status]
  /\ page' = [page EXCEPT ![c] = NoPage]
  /\ total' = [total EXCEPT ![c] = 0]

(* The text of an error decides, by the first of these that it contains.   *)
(* The friend service itself says "not found" only; what the store says is *)
(* wrapped, and may be anything.                                           *)
toGRPCError(text) ==
  CASE text = "not found" -> "NotFound"
    [] text = "already exists" -> "AlreadyExists"
    [] text = "invalid" -> "InvalidArgument"
    [] text = "unauthorized" -> "Unauthenticated"
    [] text = "forbidden" -> "PermissionDenied"
    [] OTHER -> "Internal"

(* A call of the service can fail when the store does, or its context     *)
(* has ended.                                                              *)
CanFail(c) == "store" \in Faults \/ gone[c]

-----------------------------------------------------------------------------
(* A request arrives.                                                      *)

Valid(r) ==
  /\ r.op # "HealthCheck" => r.ids # "missing"
  /\ r.op \in {"AddFriend", "RemoveFriend", "GetMutualFriends"} => r.ids # "same"
  /\ r.op \in Streams => r.limit \in 0..MaxLimit

(* The limit of a GetMutualFriends is validated and then not used.        *)
LimitOf(r) ==
  IF r.limit <= 0 THEN DefaultLimit
  ELSE IF r.limit > MaxLimit THEN MaxLimit ELSE r.limit

Changes(r) == r.op \in {"AddFriend", "RemoveFriend"}

(* GracefulStop lets no new request in.                                    *)
Call(c) ==
  /\ phase \in {"serving", "signalled"}
  /\ pc[c] = "idle"
  /\ \E r \in Requests[c] :
       /\ IF Changes(r) THEN changes < MaxChanges /\ changes' = changes + 1
                        ELSE UNCHANGED changes
       /\ req' = [req EXCEPT ![c] = r]
       /\ IF Valid(r) THEN pc' = [pc EXCEPT ![c] = "ask"] /\ UNCHANGED <<code, page, total>>
                      ELSE End(c, "InvalidArgument")
  /\ UNCHANGED <<friends, listed, counted, past, phase, events, stream, gone>>

Cancel(c) ==
  /\ "cancel" \in Faults
  /\ Running(c) /\ ~ gone[c]
  /\ gone' = [gone EXCEPT ![c] = TRUE]
  /\ UNCHANGED <<service, phase, events, pc, req, page, total, stream, code>>

(* Mutant: the status of a call is left to the next one.                   *)
LeaveKeepingStatus(c) ==
  /\ pc[c] = "ended"
  /\ pc' = [pc EXCEPT ![c] = "idle"]
  /\ req' = [req EXCEPT ![c] = NoRequest]
  /\ sent' = [sent EXCEPT ![c] = <<>>]
  /\ read' = [read EXCEPT ![c] = 0]
  /\ gone' = [gone EXCEPT ![c] = FALSE]
  /\ UNCHANGED <<service, phase, events, page, total, code>>

(* The client has its answer and is ready for another call.               *)
Leave(c) ==
  /\ pc[c] = "ended"
  /\ pc' = [pc EXCEPT ![c] = "idle"]
  /\ req' = [req EXCEPT ![c] = NoRequest]
  /\ sent' = [sent EXCEPT ![c] = <<>>]
  /\ read' = [read EXCEPT ![c] = 0]
  /\ gone' = [gone EXCEPT ![c] = FALSE]
  /\ code' = [code EXCEPT ![c] = None]
  /\ UNCHANGED <<service, phase, events, page, total>>

-----------------------------------------------------------------------------
(* The friend service, one call at a time.                                 *)

asked == <<phase, events, req, stream, gone>>

(* What stays in the cache when it should go: a deletion can fail.        *)
Stays(entry) == IF "cache" \in Faults THEN {None, entry} ELSE {None}
(* What is there after a read of the store: filling can fail too.         *)
Filled(entry, value) == IF "cache" \in Faults THEN {entry, value} ELSE {value}

Misses(entry) == entry = None \/ "cache" \in Faults

(* Mutant: the cached page forgets that there are more.                    *)
GetFriendsForgets(c) ==
  /\ pc[c] = "ask" /\ req[c].op = "GetFriends" /\ req[c].known
  /\ \/ /\ listed # None
        /\ page' = [page EXCEPT ![c] = [listed EXCEPT !.more = FALSE]]
        /\ UNCHANGED listed
     \/ /\ Misses(listed)
        /\ page' = [page EXCEPT ![c] = Page(friends, LimitOf(req[c]))]
        /\ listed' \in Filled(listed, page'[c])
  /\ pc' = [pc EXCEPT ![c] = "count"]
  /\ UNCHANGED <<friends, counted, past, changes, asked, total, code>>

(* The cached page is served whatever limit it was read with.             *)
GetFriends(c) ==
  /\ pc[c] = "ask" /\ req[c].op = "GetFriends" /\ req[c].known
  /\ \/ /\ listed # None
        /\ page' = [page EXCEPT ![c] = listed]
        /\ UNCHANGED listed
     \/ /\ Misses(listed)
        /\ page' = [page EXCEPT ![c] = Page(friends, LimitOf(req[c]))]
        /\ listed' \in Filled(listed, page'[c])
  /\ pc' = [pc EXCEPT ![c] = "count"]
  /\ UNCHANGED <<friends, counted, past, changes, asked, total, code>>

(* Mutant: the total announced is the length of the page.                  *)
CountThePage(c) ==
  /\ pc[c] = "count"
  /\ total' = [total EXCEPT ![c] = Len(page[c].rows)]
  /\ pc' = [pc EXCEPT ![c] = "stream"]
  /\ UNCHANGED <<service, asked, page, code>>

(* A second call, with a cache entry of its own; its failure is a total   *)
(* of 0.                                                                   *)
CountFriends(c) ==
  /\ pc[c] = "count"
  /\ \/ /\ counted # None
        /\ total' = [total EXCEPT ![c] = counted]
        /\ UNCHANGED counted
     \/ /\ Misses(counted)
        /\ total' = [total EXCEPT ![c] = Cardinality(friends)]
        /\ counted' \in Filled(counted, Cardinality(friends))
     \/ CanFail(c) /\ UNCHANGED <<total, counted>>
  /\ pc' = [pc EXCEPT ![c] = "stream"]
  /\ UNCHANGED <<friends, listed, past, changes, asked, page, code>>

(* No limit and no token: all the mutual friends, here those of a user    *)
(* with the same friends, possibly as they once were.                     *)
GetMutualFriends(c) ==
  /\ pc[c] = "ask" /\ req[c].op = "GetMutualFriends" /\ req[c].known
  /\ \E S \in IF "cache" \in Faults THEN past ELSE {friends} :
       /\ page' = [page EXCEPT ![c] = [rows |-> Rows(S), more |-> FALSE]]
       /\ total' = [total EXCEPT ![c] = Cardinality(S)]
  /\ pc' = [pc EXCEPT ![c] = "stream"]
  /\ UNCHANGED <<service, asked, code>>

GetFriendCount(c) ==
  /\ pc[c] = "ask" /\ req[c].op = "GetFriendCount" /\ req[c].known
  /\ \/ counted # None /\ UNCHANGED counted
     \/ Misses(counted) /\ counted' \in Filled(counted, Cardinality(friends))
  /\ End(c, "OK")
  /\ UNCHANGED <<friends, listed, past, changes, asked>>

Becomes(S) ==
  /\ friends' = S
  /\ past' = past \cup {S}
  /\ listed' \in Stays(listed)
  /\ counted' \in Stays(counted)

AddFriend(c) ==
  /\ pc[c] = "ask" /\ req[c].op = "AddFriend" /\ req[c].known
  /\ req[c].x \notin friends /\ Becomes(friends \cup {req[c].x})
  /\ End(c, "OK")
  /\ UNCHANGED <<changes, asked>>

RemoveFriend(c) ==
  /\ pc[c] = "ask" /\ req[c].op = "RemoveFriend"
  /\ req[c].x \in friends /\ Becomes(friends \ {req[c].x})
  /\ End(c, "OK")
  /\ UNCHANGED <<changes, asked>>

AreFriends(c) ==
  /\ pc[c] = "ask" /\ req[c].op = "AreFriends"
  /\ End(c, "OK")
  /\ UNCHANGED <<service, asked>>

(* The store has made the change, and its answer is lost.                  *)
ChangeUnanswered(c) ==
  /\ pc[c] = "ask" /\ CanFail(c)
  /\ \/ /\ req[c].op = "AddFriend" /\ req[c].known /\ req[c].x \notin friends
        /\ friends' = friends \cup {req[c].x}
     \/ /\ req[c].op = "RemoveFriend" /\ req[c].x \in friends
        /\ friends' = friends \ {req[c].x}
  /\ past' = past \cup {friends'}
  /\ \E text \in Texts : End(c, toGRPCError(text))
  /\ UNCHANGED <<listed, counted, changes, asked>>

(* The service refuses or cannot answer.  A user who is not there and one  *)
(* who cannot be read are both "not found"; RemoveFriend and AreFriends do *)
(* not look users up.                                                      *)
Refused(c) ==
  /\ pc[c] = "ask" /\ req[c].op # "HealthCheck"
  /\ \/ /\ req[c].op \notin {"RemoveFriend", "AreFriends"}
        /\ ~ req[c].known \/ CanFail(c)
        /\ End(c, toGRPCError("not found"))
     \/ /\ CanFail(c) /\ (req[c].known \/ req[c].op \in {"RemoveFriend", "AreFriends"})
        /\ \E text \in Texts : End(c, toGRPCError(text))
     \/ /\ \/ req[c].op = "AddFriend" /\ req[c].known /\ req[c].x \in friends
           \/ req[c].op = "RemoveFriend" /\ req[c].x \notin friends
        /\ End(c, toGRPCError("other"))
  /\ UNCHANGED <<service, asked>>

(* IsHealthy: not closed, and connected, which only the broker decides.   *)
HealthCheck(c) ==
  /\ pc[c] = "ask" /\ req[c].op = "HealthCheck"
  /\ \E connected \in BOOLEAN :
       End(c, IF events # "closed" /\ connected THEN "SERVING" ELSE "NOT_SERVING")
  /\ UNCHANGED <<service, asked>>

(* Time to live.                                                           *)
Expire ==
  /\ \/ listed # None /\ listed' = None /\ UNCHANGED counted
     \/ counted # None /\ counted' = None /\ UNCHANGED listed
  /\ UNCHANGED <<friends, past, changes, phase, events, handler>>

-----------------------------------------------------------------------------
(* Streaming.                                                              *)

Position(c) == Len(sent[c]) + 1

(* The total goes with the first response, the token with the last.       *)
Response(c) ==
  [friend |-> page[c].rows[Position(c)],
   total |-> IF Position(c) = 1 THEN total[c] ELSE 0,
   token |-> Position(c) = Len(page[c].rows) /\ page[c].more]

HasRoom(c) == Len(sent[c]) - read[c] < Window

Send(c) ==
  /\ pc[c] = "stream" /\ Position(c) <= Len(page[c].rows)
  /\ HasRoom(c)
  /\ sent' = [sent EXCEPT ![c] = Append(@, Response(c))]
  /\ UNCHANGED <<service, phase, events, pc, req, page, total, read, gone, code>>

SendFails(c) ==
  /\ pc[c] = "stream" /\ Position(c) <= Len(page[c].rows)
  /\ gone[c]
  /\ End(c, "Internal")
  /\ UNCHANGED <<service, asked>>

SentAll(c) ==
  /\ pc[c] = "stream" /\ Position(c) > Len(page[c].rows)
  /\ End(c, "OK")
  /\ UNCHANGED <<service, asked>>

Receive(c) ==
  /\ read[c] < Len(sent[c])
  /\ read' = [read EXCEPT ![c] = @ + 1]
  /\ UNCHANGED <<service, phase, events, pc, req, page, total, sent, gone, code>>

-----------------------------------------------------------------------------
(* main.                                                                   *)

Signal ==
  /\ phase = "serving" /\ phase' = "signalled"
  /\ UNCHANGED <<service, events, handler>>

Stop ==
  /\ phase = "signalled" /\ phase' = "stopping"
  /\ UNCHANGED <<service, events, handler>>

(* Mutants: the server is stopped without waiting; it waits for a client   *)
(* that has its answer to go, too.                                         *)
StoppedAtOnce ==
  /\ phase = "stopping" /\ phase' = "stopped"
  /\ UNCHANGED <<service, events, handler>>

StoppedWhenEmpty ==
  /\ phase = "stopping" /\ \A c \in Clients : pc[c] = "idle"
  /\ phase' = "stopped"
  /\ UNCHANGED <<service, events, handler>>

(* GracefulStop returns when the last handler has.                         *)
Stopped ==
  /\ phase = "stopping" /\ \A c \in Clients : ~ Running(c)
  /\ phase' = "stopped"
  /\ UNCHANGED <<service, events, handler>>

(* Close finds that a goroutine which publishes the event of some change   *)
(* is stuck in the library, and with it the read lock of the client        *)
(* (RabbitClient: Wedged).  Since when does not matter: no handler waits   *)
(* for this lock.                                                          *)
Jam ==
  /\ "jam" \in Faults
  /\ phase = "stopped" /\ events = "open"
  /\ events' = "jammed"
  /\ UNCHANGED <<service, phase, handler>>

(* Close takes the client's write lock.                                    *)
CloseEvents ==
  /\ phase = "stopped" /\ events = "open"
  /\ phase' = "down" /\ events' = "closed"
  /\ UNCHANGED <<service, handler>>

-----------------------------------------------------------------------------
Handle(c) ==
  \/ GetFriends(c) \/ CountFriends(c) \/ GetMutualFriends(c)
  \/ GetFriendCount(c) \/ AddFriend(c) \/ RemoveFriend(c) \/ AreFriends(c)
  \/ ChangeUnanswered(c) \/ Refused(c) \/ HealthCheck(c)
  \/ Send(c) \/ SendFails(c) \/ SentAll(c)

Main == Stop \/ Stopped \/ CloseEvents

Next ==
  \/ \E c \in Clients : Call(c) \/ Handle(c) \/ Receive(c) \/ Cancel(c) \/ Leave(c)
  \/ Main \/ Signal \/ Jam \/ Expire

Spec == Init /\ [][Next]_vars

(* Handlers run and calls of the service return; main goes on as far as it *)
(* is not made to wait. Nobody makes a client read or leave.               *)
FairSpec ==
  /\ Spec
  /\ \A c \in Clients : WF_vars(Handle(c))
  /\ WF_vars(Main)

-----------------------------------------------------------------------------
(* Properties.                                                             *)

ResponseType == [friend : Ids, total : 0..Cardinality(Ids), token : BOOLEAN]
PageType == [rows : Seq(Ids), more : BOOLEAN]

(* Every variable has its type; no client has read what was not sent, and *)
(* a call has a status once it has ended.                                  *)
TypeOK ==
  /\ friends \subseteq Ids /\ past \subseteq SUBSET Ids /\ changes \in 0..MaxChanges
  /\ listed = None \/ listed \in PageType
  /\ counted = None \/ counted \in 0..Cardinality(Ids)
  /\ phase \in {"serving", "signalled", "stopping", "stopped", "down"}
  /\ events \in {"open", "jammed", "closed"}
  /\ pc \in [Clients -> {"idle", "ask", "count", "stream", "ended"}]
  /\ req \in [Clients -> Request \cup {NoRequest}]
  /\ page \in [Clients -> PageType]
  /\ total \in [Clients -> 0..Cardinality(Ids)]
  /\ sent \in [Clients -> Seq(ResponseType)]
  /\ read \in [Clients -> Nat]
  /\ gone \in [Clients -> BOOLEAN]
  /\ code \in [Clients -> Codes \cup {None}]
  /\ \A c \in Clients :
       /\ read[c] <= Len(sent[c])
       /\ (pc[c] = "ended") <=> (code[c] # None)

Names(c) == [i \in DOMAIN sent[c] |-> sent[c][i].friend]

(* Whatever changes while a handler reads the list, reads the count and   *)
(* sends, and whoever filled the two cache entries with whatever limit:   *)
(* the friends a client has been sent are the first ones of a list the    *)
(* user has had, and the total with the first of them is the length of    *)
(* such a list, or the 0 of a count that failed (friend_handlers.go:      *)
(* 103-153).                                                               *)
SentWasTrue ==
  \A c \in Clients : sent[c] # <<>> =>
    /\ \E S \in past : IsPrefix(Names(c), Rows(S))
    /\ sent[c][1].total \in {0} \cup {Cardinality(S) : S \in past}
    /\ \A i \in 2..Len(sent[c]) : sent[c][i].total = 0

(* A stream that ends well and carries no token was the whole of a list   *)
(* the user has had: the client need not ask again (friend_handlers.go:   *)
(* 146-148, friend_service.proto:107).                                     *)
NoTokenMeansAll ==
  \A c \in Clients :
    code[c] = "OK" /\ req[c].op = "GetFriends" =>
      \/ \E i \in DOMAIN sent[c] : sent[c][i].token
      \/ \E S \in past : Names(c) = Rows(S)

(* The event service is closed under no handler: HealthCheck never        *)
(* reports a shutdown as a failure, and no change loses its events to a   *)
(* publisher that was closed before the change (main.go:78-84,            *)
(* grpc_server.go:118-121).                                                *)
StopWaits == events = "closed" => \A c \in Clients : ~ Running(c)

Stalled(c) == pc[c] = "stream" /\ ~ HasRoom(c) /\ ~ gone[c]

(* A signal ends the server, whatever runs, but for the two things that    *)
(* keep the process alive: a client that stops reading, since a stream has *)
(* no deadline (grpc_server.go:120), and a publisher that never gives the  *)
(* client's lock back, for which Close waits (main.go:82).                 *)
StopEnds ==
  (\A c \in Clients : []<> ~ Stalled(c)) =>
    (phase = "signalled" ~> phase = "down" \/ events = "jammed")
=============================================================================
