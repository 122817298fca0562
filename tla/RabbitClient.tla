----------------------------- MODULE RabbitClient -----------------------------
(***************************************************************************)
(* The RabbitMQ client: one connection and one channel behind a RWMutex,   *)
(* shared by the goroutines that publish, and the AMQP library below it.   *)
(*                                                                         *)
(* Every call takes the lock and keeps it until it returns: Publish, and   *)
(* the wait for its confirmation, under the read lock; Close, Reconnect    *)
(* and connect under the write lock.  Publish registers a listener for     *)
(* confirmations after it has sent its message.  The library hands every   *)
(* confirmation to every listener that was ever registered, in the         *)
(* goroutine that reads the connection, and never forgets a listener.      *)
(*                                                                         *)
(* pkg/rabbitmq/client.go; the library is modelled from its use there.     *)
(***************************************************************************)
EXTENDS Naturals, Sequences

CONSTANTS Procs,      \* goroutines that use the client
          Ops,        \* the operations that they call
          MaxCalls,   \* bound: how often Publish is called
          Faults,     \* what can go wrong: "nack", "link", "refuse"
          None        \* nobody

ASSUME CallsAssumption == MaxCalls \in Nat
ASSUME NoneAssumption == None \notin Procs

VARIABLES
  readers,     \* who holds the read lock
  announced,   \* the writer that waits for them to leave, or None
  writer,      \* who holds the write lock, or None
  closed,      \* Client.closed
  declared,    \* Client.exchanges, queues: what was declared of each
  link,        \* "none" (no client yet), "up", "down", or "half": the
               \* connection is up, and the broker has closed the channel
  sent,        \* how many messages this channel has published
  verdict,     \* the broker's answers so far, TRUE for ack, in order of tags
  heard,       \* how many of them the library has read
  delivering,  \* the listener it hands the last one to next, or 0
  listeners,   \* what is in the channel of each listener, of capacity 1
  pc,          \* where each goroutine is
  op,          \* what it was called for
  own,         \* its listener, 0 when the library gave it a closed channel
  tag,         \* the delivery tag of its message
  calls        \* how often Publish has been called

lock == <<readers, announced, writer>>
state == <<closed, declared, link>>
channel == <<sent, verdict, heard, delivering, listeners>>
local == <<op, own, tag, calls>>
vars == <<lock, state, channel, pc, local>>

-----------------------------------------------------------------------------
DeclareOps == {"DeclareExchange", "DeclareQueue"}
RpcOps == DeclareOps \cup {"BindQueue", "Consume"}
ReadOps == {"Publish", "BindQueue", "Consume", "IsConnected"}
WriteOps == DeclareOps \cup {"connect", "Close", "Reconnect"}

ASSUME OpsAssumption == Ops \subseteq ReadOps \cup WriteOps

Stages == {"idle", "rlock", "lock", "announced", "check", "dial", "send",
           "listen", "await", "rpc", "shut", "ok", "failed"}

Init ==
  /\ readers = {} /\ announced = None /\ writer = None
  /\ closed = FALSE /\ declared = {} /\ link = "none"
  /\ sent = 0 /\ verdict = <<>> /\ heard = 0
  /\ delivering = 0 /\ listeners = <<>>
  /\ pc = [p \in Procs |-> "idle"]
  /\ op = [p \in Procs |-> "none"]
  /\ own = [p \in Procs |-> 0]
  /\ tag = [p \in Procs |-> 0]
  /\ calls = 0

Goto(p, s) == pc' = [pc EXCEPT ![p] = s]

(* The deferred unlock, and the answer.                                    *)
Finish(p, s) ==
  /\ Goto(p, s)
  /\ readers' = readers \ {p}
  /\ writer' = IF writer = p THEN None ELSE writer
  /\ UNCHANGED announced

(* NewClient is connect on a client that nobody else has yet.              *)
Begin(p) ==
  /\ pc[p] = "idle"
  /\ \E o \in Ops :
       /\ IF link = "none" THEN o = "connect" /\ \A q \in Procs : pc[q] = "idle"
                           ELSE o # "connect"
       /\ o = "Publish" => calls < MaxCalls
       /\ calls' = IF o = "Publish" THEN calls + 1 ELSE calls
       /\ op' = [op EXCEPT ![p] = o]
       /\ Goto(p, IF o \in ReadOps THEN "rlock" ELSE "lock")
  /\ UNCHANGED <<lock, state, channel, own, tag>>

Return(p) ==
  /\ pc[p] \in {"ok", "failed"}
  /\ Goto(p, "idle")
  /\ op' = [op EXCEPT ![p] = "none"]
  /\ own' = [own EXCEPT ![p] = 0]
  /\ tag' = [tag EXCEPT ![p] = 0]
  /\ UNCHANGED <<lock, state, channel, calls>>

-----------------------------------------------------------------------------
(* sync.RWMutex: a writer announces itself, which keeps new readers out,   *)
(* and enters when the last reader has left.                               *)

RLock(p) ==
  /\ pc[p] = "rlock"
  /\ announced = None /\ writer = None
  /\ readers' = readers \cup {p}
  /\ Goto(p, "check")
  /\ UNCHANGED <<announced, writer, state, channel, local>>

Announce(p) ==
  /\ pc[p] = "lock"
  /\ announced = None /\ writer = None
  /\ announced' = p
  /\ Goto(p, "announced")
  /\ UNCHANGED <<readers, writer, state, channel, local>>

(* Mutant: a writer does not wait for the readers.                         *)
LockAtOnce(p) ==
  /\ pc[p] = "announced"
  /\ announced' = None /\ writer' = p
  /\ Goto(p, IF op[p] = "connect" THEN "dial" ELSE "check")
  /\ UNCHANGED <<readers, state, channel, local>>

Lock(p) ==
  /\ pc[p] = "announced"
  /\ readers = {}
  /\ announced' = None /\ writer' = p
  /\ Goto(p, IF op[p] = "connect" THEN "dial" ELSE "check")
  /\ UNCHANGED <<readers, state, channel, local>>

-----------------------------------------------------------------------------
(* connect, Close, Reconnect.                                              *)

Dial(p) ==
  /\ pc[p] = "dial"
  /\ \/ /\ link' = "up" /\ closed' = FALSE
        /\ sent' = 0 /\ verdict' = <<>> /\ heard' = 0
        /\ delivering' = 0 /\ listeners' = <<>>
        /\ Finish(p, "ok")
     \/ /\ "link" \in Faults
        /\ Finish(p, "failed")
        /\ UNCHANGED <<link, closed, channel>>
  /\ UNCHANGED <<declared, local>>

(* A closed client is not closed again.                                    *)
CheckClose(p) ==
  /\ pc[p] = "check" /\ op[p] = "Close"
  /\ \/ closed /\ Finish(p, "ok")
     \/ ~ closed /\ Goto(p, "shut") /\ UNCHANGED lock
  /\ closed' = TRUE
  /\ UNCHANGED <<declared, link, channel, local>>

(* conn.IsClosed knows of the connection only, not of the channel.         *)
Connected == link \in {"up", "half"}

CheckReconnect(p) ==
  /\ pc[p] = "check" /\ op[p] = "Reconnect"
  /\ \/ ~ closed /\ Connected /\ Finish(p, "ok")
     \/ /\ closed \/ ~ Connected
        /\ Goto(p, "shut") /\ UNCHANGED lock
  /\ UNCHANGED <<state, channel, local>>

(* Closing is a question to the broker, and the library's reader has to be *)
(* free to read the answer.                                                *)
Answerable == link = "up" /\ delivering = 0

(* Close is done; Reconnect goes on to connect, which locks the mutex.     *)
Shut(p) ==
  /\ pc[p] = "shut"
  /\ link # "up" \/ Answerable
  /\ link' = "down"
  /\ \/ /\ op[p] = "Close"
        /\ Finish(p, "ok")
        /\ UNCHANGED <<declared, op>>
     \/ /\ op[p] = "Reconnect"
        /\ declared' = {}
        /\ op' = [op EXCEPT ![p] = "connect"]
        /\ Goto(p, "lock")
        /\ UNCHANGED lock
  /\ UNCHANGED <<closed, channel, own, tag, calls>>

-----------------------------------------------------------------------------
(* DeclareExchange, DeclareQueue, BindQueue, Consume, IsConnected.         *)

CheckConnected(p) ==
  /\ pc[p] = "check" /\ op[p] = "IsConnected"
  /\ Finish(p, IF ~ closed /\ Connected THEN "ok" ELSE "failed")
  /\ UNCHANGED <<state, channel, local>>

CheckRpc(p) ==
  /\ pc[p] = "check" /\ op[p] \in RpcOps
  /\ \/ closed /\ Finish(p, "failed")
     \/ ~ closed /\ op[p] \in declared /\ Finish(p, "ok")
     \/ ~ closed /\ op[p] \notin declared /\ Goto(p, "rpc") /\ UNCHANGED lock
  /\ UNCHANGED <<state, channel, local>>

(* The broker answers a question that it refuses by closing the channel.   *)
Rpc(p) ==
  /\ pc[p] = "rpc"
  /\ \/ link # "up" /\ Finish(p, "failed") /\ UNCHANGED <<declared, link>>
     \/ /\ Answerable
        /\ Finish(p, "ok")
        /\ declared' = declared \cup ({op[p]} \cap DeclareOps)
        /\ UNCHANGED link
     \/ /\ "refuse" \in Faults /\ Answerable
        /\ link' = "half"
        /\ Finish(p, "failed")
        /\ UNCHANGED declared
  /\ UNCHANGED <<closed, channel, local>>

-----------------------------------------------------------------------------
(* Publish.                                                                *)

(* Mutant: the early return forgets the deferred unlock.                   *)
CheckPublishKeepsLock(p) ==
  /\ pc[p] = "check" /\ op[p] = "Publish"
  /\ Goto(p, IF closed THEN "failed" ELSE "send")
  /\ UNCHANGED <<lock, state, channel, local>>

CheckPublish(p) ==
  /\ pc[p] = "check" /\ op[p] = "Publish"
  /\ \/ closed /\ Finish(p, "failed")
     \/ ~ closed /\ Goto(p, "send") /\ UNCHANGED lock
  /\ UNCHANGED <<state, channel, local>>

Send(p) ==
  /\ pc[p] = "send"
  /\ \/ /\ link # "up"
        /\ Finish(p, "failed")
        /\ UNCHANGED <<sent, tag>>
     \/ /\ link = "up"
        /\ sent' = sent + 1
        /\ tag' = [tag EXCEPT ![p] = sent + 1]
        /\ Goto(p, "listen")
        /\ UNCHANGED lock
  /\ UNCHANGED <<state, verdict, heard, delivering, listeners, op, own, calls>>

(* Mutant: a closed channel is taken for one more listener.                *)
ListenAnyway(p) ==
  /\ pc[p] = "listen"
  /\ delivering = 0
  /\ listeners' = IF link = "up" THEN Append(listeners, "empty") ELSE listeners
  /\ own' = [own EXCEPT ![p] = Len(listeners) + 1]
  /\ Goto(p, "await")
  /\ UNCHANGED <<lock, state, sent, verdict, heard, delivering, op, tag, calls>>

(* NotifyPublish takes a lock that the library holds while it hands out a  *)
(* confirmation.  On a closed channel it closes the listener at once.      *)
Listen(p) ==
  /\ pc[p] = "listen"
  /\ delivering = 0
  /\ \/ /\ link = "up"
        /\ listeners' = Append(listeners, "empty")
        /\ own' = [own EXCEPT ![p] = Len(listeners) + 1]
     \/ /\ link # "up"
        /\ UNCHANGED <<listeners, own>>
  /\ Goto(p, "await")
  /\ UNCHANGED <<lock, state, sent, verdict, heard, delivering, op, tag, calls>>

Content(p) == IF own[p] = 0 THEN "empty" ELSE listeners[own[p]]

(* Mutant: any confirmation will do.                                       *)
ConfirmedWhateverItSays(p) ==
  /\ pc[p] = "await"
  /\ \/ Content(p) # "empty"
     \/ Content(p) = "empty" /\ link # "up"
  /\ Finish(p, "ok")
  /\ listeners' = IF Content(p) = "empty" THEN listeners
                  ELSE [listeners EXCEPT ![own[p]] = "empty"]
  /\ UNCHANGED <<state, sent, verdict, heard, delivering, local>>

(* A closed channel gives a confirmation that says neither ack nor which.  *)
Confirmed(p) ==
  /\ pc[p] = "await"
  /\ \/ /\ Content(p) # "empty"
        /\ Finish(p, IF Content(p) = "ack" THEN "ok" ELSE "failed")
        /\ listeners' = [listeners EXCEPT ![own[p]] = "empty"]
     \/ /\ Content(p) = "empty" /\ link # "up"
        /\ Finish(p, "failed")
        /\ UNCHANGED listeners
  /\ UNCHANGED <<state, sent, verdict, heard, delivering, local>>

(* Five seconds have passed, or the caller's context has ended.            *)
GiveUp(p) ==
  /\ pc[p] = "await"
  /\ Finish(p, "failed")
  /\ UNCHANGED <<state, channel, local>>

-----------------------------------------------------------------------------
(* The broker and the library.                                             *)

Decide ==
  /\ Len(verdict) < sent
  /\ \E ack \in {TRUE} \cup {FALSE : f \in Faults \cap {"nack"}} :
       verdict' = Append(verdict, ack)
  /\ UNCHANGED <<lock, state, sent, heard, delivering, listeners, pc, local>>

Receive ==
  /\ link = "up" /\ delivering = 0
  /\ heard < Len(verdict)
  /\ heard' = heard + 1
  /\ delivering' = IF listeners = <<>> THEN 0 ELSE 1
  /\ UNCHANGED <<lock, state, sent, verdict, listeners, pc, local>>

(* The send blocks while the listener's channel is full.                   *)
Deliver ==
  /\ delivering # 0 /\ listeners[delivering] = "empty"
  /\ listeners' = [listeners EXCEPT ![delivering] = IF verdict[heard] THEN "ack" ELSE "nack"]
  /\ delivering' = IF delivering = Len(listeners) THEN 0 ELSE delivering + 1
  /\ UNCHANGED <<lock, state, sent, verdict, heard, pc, local>>

(* The reader notices a lost connection, when it reads.                    *)
LinkLost ==
  /\ "link" \in Faults
  /\ Connected /\ delivering = 0
  /\ link' = "down"
  /\ UNCHANGED <<lock, closed, declared, channel, pc, local>>

-----------------------------------------------------------------------------
Step(p) ==
  \/ RLock(p) \/ Announce(p) \/ Lock(p)
  \/ Dial(p) \/ CheckClose(p) \/ CheckReconnect(p) \/ Shut(p)
  \/ CheckConnected(p) \/ CheckRpc(p) \/ Rpc(p)
  \/ CheckPublish(p) \/ Send(p) \/ Listen(p) \/ Confirmed(p) \/ GiveUp(p)
  \/ Return(p)

Next ==
  \/ \E p \in Procs : Begin(p) \/ Step(p)
  \/ Decide \/ Receive \/ Deliver
  \/ LinkLost

Spec == Init /\ [][Next]_vars

(* Goroutines keep running, a RWMutex starves nobody, and the library's    *)
(* reader hands out what it has read.                                      *)
FairSpec ==
  /\ Spec
  /\ \A p \in Procs : WF_vars(Step(p)) /\ SF_vars(RLock(p) \/ Announce(p))
  /\ WF_vars(Deliver)

-----------------------------------------------------------------------------
(* Properties.                                                             *)

TypeOK ==
  /\ readers \subseteq Procs
  /\ announced \in Procs \cup {None} /\ writer \in Procs \cup {None}
  /\ closed \in BOOLEAN /\ declared \subseteq DeclareOps
  /\ link \in {"none", "up", "half", "down"}
  /\ sent \in Nat /\ verdict \in Seq(BOOLEAN)
  /\ heard \in 0..Len(verdict) /\ Len(verdict) <= sent
  /\ listeners \in Seq({"empty", "ack", "nack"})
  /\ delivering \in 0..Len(listeners)
  /\ pc \in [Procs -> Stages]
  /\ op \in [Procs -> ReadOps \cup WriteOps \cup {"none"}]
  /\ own \in [Procs -> 0..Len(listeners)]
  /\ tag \in [Procs -> Nat]
  /\ calls \in 0..MaxCalls

(* Once Close has set the flag, no message is sent and no confirmation     *)
(* awaited: Close cannot pass a Publish that found the client open         *)
(* (client.go:173-179, 247-256).                                           *)
ClosedIsQuiet ==
  closed => \A p \in Procs : pc[p] \notin {"send", "listen", "await", "rpc"}

(* A Publish that reports success has seen the broker acknowledge some     *)
(* message of this connection; a lost or a closed connection never passes  *)
(* for an acknowledgement (client.go:206-216).                             *)
SuccessNeedsAck ==
  \A p \in Procs :
    pc[p] = "ok" /\ op[p] = "Publish"
      => \E i \in 1..heard : verdict[i]

(* The library is handing a confirmation to a listener that is full and    *)
(* that nobody reads any more.                                             *)
Wedged ==
  /\ delivering # 0 /\ listeners[delivering] # "empty"
  /\ ~ \E p \in Procs : pc[p] = "await" /\ own[p] = delivering

(* A goroutine wants the lock that it holds.                               *)
WaitsForItself(p) == writer = p /\ pc[p] = "lock"

(* Every call returns, unless the library is stuck on an abandoned         *)
(* listener or a goroutine waits for its own lock: no other order of       *)
(* calls, lost connections and unanswered messages blocks anyone.          *)
CallsReturnUnlessStuck ==
  \A p \in Procs :
    pc[p] # "idle" ~> pc[p] = "idle" \/ Wedged \/ \E q \in Procs : WaitsForItself(q)

(* What the next step of a goroutine inside a call waits for.              *)
CanGoOn(p) ==
  \/ pc[p] \in {"check", "dial", "send", "await", "ok", "failed"}
  \/ pc[p] \in {"rlock", "lock"} /\ announced = None /\ writer = None
  \/ pc[p] = "announced" /\ readers = {}
  \/ pc[p] \in {"rpc", "shut"} /\ (link # "up" \/ Answerable)
  \/ pc[p] = "listen" /\ delivering = 0

(* Goroutines never all wait for one another: whoever holds or has asked   *)
(* for the lock, and however many listeners the library still serves,      *)
(* somebody inside a call, or the library, can go on, unless the library   *)
(* is stuck on an abandoned listener or a goroutine wants the lock that it *)
(* holds (client.go:171-217, 247-316).                                     *)
SomebodyGoesOn ==
  (\E p \in Procs : pc[p] # "idle") =>
    \/ \E p \in Procs : CanGoOn(p)
    \/ delivering # 0 /\ listeners[delivering] = "empty"
    \/ Wedged \/ \E p \in Procs : WaitsForItself(p)

(* The confirmation that Publish waits for is that of its own message      *)
(* (client.go:206).                                                        *)
SuccessIsItsOwn ==
  \A p \in Procs :
    pc[p] = "ok" /\ op[p] = "Publish" => tag[p] <= heard /\ verdict[tag[p]]
=============================================================================
