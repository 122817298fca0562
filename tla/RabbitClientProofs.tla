-------------------------- MODULE RabbitClientProofs --------------------------
(***************************************************************************)
(* Theorems about RabbitClient for any number of goroutines, calls and     *)
(* publications, whatever the operations and the faults.                   *)
(***************************************************************************)
EXTENDS RabbitClient, SequenceTheorems, TLAPS

-----------------------------------------------------------------------------
(* The inductive invariant.                                                *)

(* The lock: no reader beside a writer, one announced writer, and whoever  *)
(* is inside a call holds what the call took.                              *)
LockOK ==
  /\ writer # None => readers = {}
  /\ \A p \in Procs :
       /\ pc[p] = "announced" => announced = p /\ writer = None
       /\ pc[p] \in {"check", "rpc"} /\ op[p] \in ReadOps => p \in readers
       /\ pc[p] \in {"check", "rpc"} /\ op[p] \in WriteOps => writer = p
       /\ pc[p] \in {"send", "listen", "await"} => p \in readers
       /\ pc[p] \in {"dial", "shut"} => writer = p

(* A goroutine is only where its operation takes it.                       *)
StageOK ==
  \A p \in Procs :
    /\ pc[p] = "rlock" => op[p] \in ReadOps
    /\ pc[p] \in {"lock", "announced", "shut"} => op[p] \in WriteOps
    /\ pc[p] = "check" => op[p] # "none"
    /\ pc[p] \in {"send", "listen", "await"} => op[p] = "Publish"
    /\ pc[p] = "rpc" => op[p] \in RpcOps
    /\ pc[p] = "dial" => op[p] = "connect"
    /\ pc[p] = "idle" => own[p] = 0
    /\ own[p] # 0 => op[p] = "Publish"

(* Whoever is about to dial is alone, or waits for its own lock.           *)
ConnectsAlone ==
  \A p \in Procs :
    op[p] = "connect" /\ pc[p] \in {"lock", "announced", "dial"}
      => \/ link = "none" /\ \A q \in Procs \ {p} : pc[q] = "idle"
         \/ WaitsForItself(p)

(* Who holds the lock, or has announced that he wants it, is inside a call *)
(* that gives it back; nothing but connect is called before there is a     *)
(* connection.                                                             *)
HoldersOK ==
  /\ \A p \in readers :
       op[p] \in ReadOps /\ pc[p] \in {"check", "send", "listen", "await", "rpc"}
  /\ announced # None => pc[announced] = "announced"
  /\ writer # None => pc[writer] \in {"check", "dial", "rpc", "shut", "lock"}
  /\ \A p \in Procs :
       /\ pc[p] = "check" => op[p] # "connect"
       /\ pc[p] = "shut" => op[p] \in {"Close", "Reconnect"}
       /\ link = "none" => op[p] \in {"none", "connect"}

SomeAck == \E i \in 1..heard : verdict[i]

(* Only an acknowledgement of the broker puts one into a listener.         *)
AcksOK ==
  /\ delivering # 0 => heard # 0
  /\ \A i \in 1..Len(listeners) : listeners[i] = "ack" => SomeAck

IInv ==
  TypeOK /\ LockOK /\ StageOK /\ ConnectsAlone /\ AcksOK
  /\ ClosedIsQuiet /\ SuccessNeedsAck

-----------------------------------------------------------------------------
(* Type correctness.                                                       *)

(* The types are kept by every step: connect forgets the listeners when    *)
(* nobody has one.                                                         *)
LEMMA TypeStep ==
  TypeOK /\ LockOK /\ StageOK /\ ConnectsAlone /\ [Next]_vars => TypeOK'
<1>. SUFFICES ASSUME TypeOK, LockOK, StageOK, ConnectsAlone, [Next]_vars
             PROVE  TypeOK'
  OBVIOUS
<1>1. ASSUME NEW p \in Procs, Begin(p) PROVE TypeOK'
  BY <1>1, CallsAssumption, OpsAssumption
    DEF Begin, TypeOK, Stages, Goto, Finish, lock, state, channel, local,
    ReadOps, WriteOps, RpcOps, DeclareOps
<1>2. ASSUME NEW p \in Procs, Return(p) PROVE TypeOK'
  BY <1>2 DEF Return, TypeOK, Stages, Goto, Finish, lock, state, channel, local
<1>3. ASSUME NEW p \in Procs, RLock(p) PROVE TypeOK'
  BY <1>3 DEF RLock, TypeOK, Stages, Goto, Finish, lock, state, channel, local
<1>4. ASSUME NEW p \in Procs, Announce(p) PROVE TypeOK'
  BY <1>4
    DEF Announce, TypeOK, Stages, Goto, Finish, lock, state, channel, local
<1>5. ASSUME NEW p \in Procs, Lock(p) PROVE TypeOK'
  BY <1>5 DEF Lock, TypeOK, Stages, Goto, Finish, lock, state, channel, local
<1>6. ASSUME NEW p \in Procs, Dial(p) PROVE TypeOK'
  <2>1. CASE UNCHANGED channel
    BY <1>6, <2>1
      DEF Dial, TypeOK, Stages, Goto, Finish, lock, state, channel, local
  <2>2. CASE /\ sent' = 0 /\ verdict' = <<>> /\ heard' = 0
             /\ delivering' = 0 /\ listeners' = <<>>
    <3>1. \A q \in Procs : own[q] = 0
      BY <1>6 DEF Dial, ConnectsAlone, WaitsForItself, StageOK, TypeOK
    <3>2. own' = [q \in Procs |-> 0]
      BY <1>6, <3>1 DEF Dial, TypeOK, local
    <3>3. verdict' \in Seq(BOOLEAN) /\ Len(verdict') = 0
      BY <2>2, EmptySeq
    <3>4. listeners' \in Seq({"empty", "ack", "nack"}) /\ Len(listeners') = 0
      BY <2>2, EmptySeq
    <3>5. own' \in [Procs -> 0..Len(listeners')]
      BY <3>2, <3>4
    <3>6. heard' \in 0..Len(verdict') /\ Len(verdict') <= sent' /\ sent' \in Nat
          /\ delivering' \in 0..Len(listeners')
      BY <2>2, <3>3, <3>4
    <3>7. tag' = tag /\ op' = op /\ calls' = calls /\ declared' = declared
          /\ announced' = announced
      BY <1>6 DEF Dial, Finish, local
    <3>8. link' \in {"none", "up", "half", "down"} /\ closed' \in BOOLEAN
      BY <1>6 DEF Dial, TypeOK
    <3>9. pc' \in [Procs -> Stages] /\ readers' \subseteq Procs
          /\ writer' \in Procs \cup {None}
      BY <1>6 DEF Dial, Finish, Goto, TypeOK, Stages
    <3>. QED  BY <3>3, <3>4, <3>5, <3>6, <3>7, <3>8, <3>9 DEF TypeOK
  <2>. QED  BY <1>6, <2>1, <2>2 DEF Dial
<1>7. ASSUME NEW p \in Procs, CheckClose(p) PROVE TypeOK'
  BY <1>7 DEF CheckClose, TypeOK, Stages, Goto, Finish, lock, state, channel,
    local
<1>8. ASSUME NEW p \in Procs, CheckReconnect(p) PROVE TypeOK'
  BY <1>8
    DEF CheckReconnect, TypeOK, Stages, Goto, Finish, lock, state, channel,
    local
<1>9. ASSUME NEW p \in Procs, Shut(p) PROVE TypeOK'
  BY <1>9 DEF Shut, TypeOK, Stages, Goto, Finish, lock, state, channel, local,
    Answerable, WriteOps, ReadOps, RpcOps, DeclareOps
<1>10. ASSUME NEW p \in Procs, CheckConnected(p) PROVE TypeOK'
  BY <1>10
    DEF CheckConnected, TypeOK, Stages, Goto, Finish, lock, state, channel,
    local
<1>11. ASSUME NEW p \in Procs, CheckRpc(p) PROVE TypeOK'
  BY <1>11
    DEF CheckRpc, TypeOK, Stages, Goto, Finish, lock, state, channel, local
<1>12. ASSUME NEW p \in Procs, Rpc(p) PROVE TypeOK'
  BY <1>12 DEF Rpc, TypeOK, Stages, Goto, Finish, lock, state, channel, local
<1>13. ASSUME NEW p \in Procs, CheckPublish(p) PROVE TypeOK'
  BY <1>13
    DEF CheckPublish, TypeOK, Stages, Goto, Finish, lock, state, channel,
    local
<1>14. ASSUME NEW p \in Procs, Send(p) PROVE TypeOK'
  <2>1. Len(verdict) \in Nat
    BY DEF TypeOK
  <2>2. sent' \in Nat /\ Len(verdict) <= sent' /\ tag' \in [Procs -> Nat]
    <3>1. sent' = sent \/ sent' = sent + 1
      BY <1>14 DEF Send
    <3>2. sent \in Nat /\ Len(verdict) <= sent
      BY DEF TypeOK
    <3>3. tag' = tag \/ tag' = [tag EXCEPT ![p] = sent + 1]
      BY <1>14 DEF Send
    <3>4. sent' \in Nat /\ Len(verdict) <= sent'
      BY <2>1, <3>1, <3>2
    <3>5. tag \in [Procs -> Nat] /\ sent + 1 \in Nat
      BY <3>2 DEF TypeOK
    <3>6. tag' \in [Procs -> Nat]
      BY <3>3, <3>5
    <3>. QED  BY <3>4, <3>6
  <2>3. pc' \in [Procs -> Stages] /\ readers' \subseteq Procs
        /\ writer' \in Procs \cup {None} /\ announced' = announced
    BY <1>14
      DEF Send, TypeOK, Stages, Goto, Finish, lock, state, channel, local
  <2>. QED  BY <1>14, <2>2, <2>3 DEF Send, TypeOK, state
<1>15. ASSUME NEW p \in Procs, Listen(p) PROVE TypeOK'
  <2>1. CASE /\ listeners' = Append(listeners, "empty")
             /\ own' = [own EXCEPT ![p] = Len(listeners) + 1]
    <3>1. listeners' \in Seq({"empty", "ack",
    "nack"}) /\ Len(listeners') = Len(listeners) + 1
      BY <2>1, AppendProperties DEF TypeOK
    <3>2. own' \in [Procs -> 0..Len(listeners')]
      BY <2>1, <3>1 DEF TypeOK
    <3>. QED  BY <1>15, <3>1, <3>2
      DEF Listen, TypeOK, Stages, Goto, Finish, lock, state, channel, local
  <2>2. CASE UNCHANGED <<listeners, own>>
    BY <1>15, <2>2
      DEF Listen, TypeOK, Stages, Goto, Finish, lock, state, channel, local
  <2>. QED  BY <1>15, <2>1, <2>2 DEF Listen
<1>16. ASSUME NEW p \in Procs, Confirmed(p) PROVE TypeOK'
  <2>1. listeners' \in Seq({"empty", "ack",
  "nack"}) /\ Len(listeners') = Len(listeners)
    <3>1. CASE UNCHANGED listeners
      BY <3>1 DEF TypeOK
    <3>2. CASE listeners' = [listeners EXCEPT ![own[p]] = "empty"] /\ Content(p) # "empty"
      <4>1. own[p] \in 1..Len(listeners)
        BY <3>2 DEF Content, TypeOK
      <4>. QED  BY <3>2, <4>1, ExceptSeq DEF TypeOK
    <3>. QED  BY <1>16, <3>1, <3>2 DEF Confirmed
  <2>. QED  BY <1>16, <2>1
    DEF Confirmed, TypeOK, Stages, Goto, Finish, lock, state, channel, local
<1>17. ASSUME NEW p \in Procs, GiveUp(p) PROVE TypeOK'
  BY <1>17
    DEF GiveUp, TypeOK, Stages, Goto, Finish, lock, state, channel, local
<1>18. CASE Decide
  <2>1. PICK ack \in BOOLEAN : verdict' = Append(verdict, ack)
    BY <1>18 DEF Decide
  <2>2. verdict' \in Seq(BOOLEAN) /\ Len(verdict') = Len(verdict) + 1
    BY <2>1, AppendProperties DEF TypeOK
  <2>. QED  BY <1>18, <2>2
    DEF Decide, TypeOK, Stages, Goto, Finish, lock, state, channel, local
<1>19. CASE Receive
  BY <1>19
    DEF Receive, TypeOK, Stages, Goto, Finish, lock, state, channel, local
<1>20. CASE Deliver
  BY <1>20
    DEF Deliver, TypeOK, Stages, Goto, Finish, lock, state, channel, local
<1>21. CASE LinkLost
  BY <1>21
    DEF LinkLost, TypeOK, Stages, Goto, Finish, lock, state, channel, local
<1>22. CASE UNCHANGED vars
  BY <1>22 DEF vars, TypeOK, Stages, Goto, Finish, lock, state, channel, local
<1>. QED BY <1>1, <1>2, <1>3, <1>4, <1>5, <1>6, <1>7, <1>8, <1>9, <1>10,
<1>11, <1>12, <1>13, <1>14, <1>15, <1>16, <1>17, <1>18, <1>19, <1>20, <1>21,
<1>22
  DEF Next, Step

-----------------------------------------------------------------------------
(* The lock.                                                               *)

(* Every step keeps readers and writers apart, and whoever is inside a     *)
(* call still holds what it took.                                          *)
LEMMA LockStep ==
  TypeOK /\ LockOK /\ StageOK /\ [Next]_vars => LockOK'
<1>. SUFFICES ASSUME TypeOK, LockOK, StageOK, [Next]_vars
             PROVE  LockOK'
  OBVIOUS
<1>1. ASSUME NEW p \in Procs, Begin(p) PROVE LockOK'
  BY <1>1 DEF Begin, LockOK, StageOK, TypeOK, Stages, Goto, Finish, ReadOps,
    WriteOps, RpcOps, DeclareOps, lock, state, channel, local
<1>2. ASSUME NEW p \in Procs, Return(p) PROVE LockOK'
  BY <1>2 DEF Return, LockOK, StageOK, TypeOK, Stages, Goto, Finish, ReadOps,
    WriteOps, RpcOps, DeclareOps, lock, state, channel, local
<1>3. ASSUME NEW p \in Procs, RLock(p) PROVE LockOK'
  BY <1>3 DEF RLock, LockOK, StageOK, TypeOK, Stages, Goto, Finish, ReadOps,
    WriteOps, RpcOps, DeclareOps, lock, state, channel, local
<1>4. ASSUME NEW p \in Procs, Announce(p) PROVE LockOK'
  BY <1>4, NoneAssumption
    DEF Announce, LockOK, StageOK, TypeOK, Stages, Goto, Finish, ReadOps,
    WriteOps, RpcOps, DeclareOps, lock, state, channel, local
<1>5. ASSUME NEW p \in Procs, Lock(p) PROVE LockOK'
  BY <1>5, NoneAssumption
    DEF Lock, LockOK, StageOK, TypeOK, Stages, Goto, Finish, ReadOps,
    WriteOps, RpcOps, DeclareOps, lock, state, channel, local
<1>6. ASSUME NEW p \in Procs, Dial(p) PROVE LockOK'
  BY <1>6 DEF Dial, LockOK, StageOK, TypeOK, Stages, Goto, Finish, ReadOps,
    WriteOps, RpcOps, DeclareOps, lock, state, channel, local
<1>7. ASSUME NEW p \in Procs, CheckClose(p) PROVE LockOK'
  BY <1>7
    DEF CheckClose, LockOK, StageOK, TypeOK, Stages, Goto, Finish, ReadOps,
    WriteOps, RpcOps, DeclareOps, lock, state, channel, local
<1>8. ASSUME NEW p \in Procs, CheckReconnect(p) PROVE LockOK'
  BY <1>8 DEF CheckReconnect, LockOK, StageOK, TypeOK, Stages, Goto, Finish,
    ReadOps, WriteOps, RpcOps, DeclareOps, lock, state, channel, local
<1>9. ASSUME NEW p \in Procs, Shut(p) PROVE LockOK'
  <2>1. CASE op[p] = "Close" /\ Finish(p, "ok") /\ UNCHANGED op
    BY <1>9, <2>1 DEF Shut, LockOK, StageOK, TypeOK, Stages, Goto, Finish, ReadOps,
      WriteOps, RpcOps, DeclareOps, lock, state, channel, local
  <2>2. CASE /\ op[p] = "Reconnect" /\ op' = [op EXCEPT ![p] = "connect"]
             /\ Goto(p, "lock") /\ UNCHANGED lock
    BY <1>9, <2>2 DEF Shut, LockOK, StageOK, TypeOK, Stages, Goto, ReadOps,
      WriteOps, RpcOps, DeclareOps, lock, state, channel, local
  <2>. QED  BY <1>9, <2>1, <2>2 DEF Shut
<1>10. ASSUME NEW p \in Procs, CheckConnected(p) PROVE LockOK'
  BY <1>10 DEF CheckConnected, LockOK, StageOK, TypeOK, Stages, Goto, Finish,
    ReadOps, WriteOps, RpcOps, DeclareOps, lock, state, channel, local
<1>11. ASSUME NEW p \in Procs, CheckRpc(p) PROVE LockOK'
  BY <1>11
    DEF CheckRpc, LockOK, StageOK, TypeOK, Stages, Goto, Finish, ReadOps,
    WriteOps, RpcOps, DeclareOps, lock, state, channel, local
<1>12. ASSUME NEW p \in Procs, Rpc(p) PROVE LockOK'
  BY <1>12 DEF Rpc, LockOK, StageOK, TypeOK, Stages, Goto, Finish, ReadOps,
    WriteOps, RpcOps, DeclareOps, lock, state, channel, local
<1>13. ASSUME NEW p \in Procs, CheckPublish(p) PROVE LockOK'
  BY <1>13 DEF CheckPublish, LockOK, StageOK, TypeOK, Stages, Goto, Finish,
    ReadOps, WriteOps, RpcOps, DeclareOps, lock, state, channel, local
<1>14. ASSUME NEW p \in Procs, Send(p) PROVE LockOK'
  BY <1>14 DEF Send, LockOK, StageOK, TypeOK, Stages, Goto, Finish, ReadOps,
    WriteOps, RpcOps, DeclareOps, lock, state, channel, local
<1>15. ASSUME NEW p \in Procs, Listen(p) PROVE LockOK'
  BY <1>15 DEF Listen, LockOK, StageOK, TypeOK, Stages, Goto, Finish, ReadOps,
    WriteOps, RpcOps, DeclareOps, lock, state, channel, local
<1>16. ASSUME NEW p \in Procs, Confirmed(p) PROVE LockOK'
  BY <1>16
    DEF Confirmed, LockOK, StageOK, TypeOK, Stages, Goto, Finish, ReadOps,
    WriteOps, RpcOps, DeclareOps, lock, state, channel, local
<1>17. ASSUME NEW p \in Procs, GiveUp(p) PROVE LockOK'
  BY <1>17 DEF GiveUp, LockOK, StageOK, TypeOK, Stages, Goto, Finish, ReadOps,
    WriteOps, RpcOps, DeclareOps, lock, state, channel, local
<1>18. CASE Decide
  BY <1>18 DEF Decide, LockOK, StageOK, TypeOK, Stages, Goto, Finish, ReadOps,
    WriteOps, RpcOps, DeclareOps, lock, state, channel, local
<1>19. CASE Receive
  BY <1>19
    DEF Receive, LockOK, StageOK, TypeOK, Stages, Goto, Finish, ReadOps,
    WriteOps, RpcOps, DeclareOps, lock, state, channel, local
<1>20. CASE Deliver
  BY <1>20
    DEF Deliver, LockOK, StageOK, TypeOK, Stages, Goto, Finish, ReadOps,
    WriteOps, RpcOps, DeclareOps, lock, state, channel, local
<1>21. CASE LinkLost
  BY <1>21
    DEF LinkLost, LockOK, StageOK, TypeOK, Stages, Goto, Finish, ReadOps,
    WriteOps, RpcOps, DeclareOps, lock, state, channel, local
<1>22. CASE UNCHANGED vars
  BY <1>22 DEF vars, LockOK, StageOK, TypeOK, Stages, Goto, Finish, ReadOps,
    WriteOps, RpcOps, DeclareOps, lock, state, channel, local
<1>. QED BY <1>1, <1>2, <1>3, <1>4, <1>5, <1>6, <1>7, <1>8, <1>9, <1>10,
<1>11, <1>12, <1>13, <1>14, <1>15, <1>16, <1>17, <1>18, <1>19, <1>20, <1>21,
<1>22
  DEF Next, Step

(* Every step leaves each goroutine at a stage of its operation.           *)
LEMMA StageStep ==
  TypeOK /\ StageOK /\ [Next]_vars => StageOK'
<1>. SUFFICES ASSUME TypeOK, StageOK, [Next]_vars
             PROVE  StageOK'
  OBVIOUS
<1>1. ASSUME NEW p \in Procs, Begin(p) PROVE StageOK'
  BY <1>1, OpsAssumption
    DEF Begin, LockOK, StageOK, TypeOK, Stages, Goto, Finish, ReadOps,
    WriteOps, RpcOps, DeclareOps, lock, state, channel, local
<1>2. ASSUME NEW p \in Procs, Return(p) PROVE StageOK'
  BY <1>2
    DEF Return, StageOK, TypeOK, Stages, Goto, Finish, ReadOps, WriteOps,
      RpcOps, DeclareOps,
    lock, state, channel, local
<1>3. ASSUME NEW p \in Procs, RLock(p) PROVE StageOK'
  BY <1>3 DEF RLock, StageOK, TypeOK, Stages, Goto, Finish, ReadOps, WriteOps,
    RpcOps, DeclareOps,
    lock, state, channel, local
<1>4. ASSUME NEW p \in Procs, Announce(p) PROVE StageOK'
  BY <1>4
    DEF Announce, StageOK, TypeOK, Stages, Goto, Finish, ReadOps, WriteOps,
      RpcOps, DeclareOps,
    lock, state, channel, local
<1>5. ASSUME NEW p \in Procs, Lock(p) PROVE StageOK'
  BY <1>5 DEF Lock, StageOK, TypeOK, Stages, Goto, Finish, ReadOps, WriteOps,
    RpcOps, DeclareOps,
    lock, state, channel, local
<1>6. ASSUME NEW p \in Procs, Dial(p) PROVE StageOK'
  BY <1>6 DEF Dial, StageOK, TypeOK, Stages, Goto, Finish, ReadOps, WriteOps,
    RpcOps, DeclareOps,
    lock, state, channel, local
<1>7. ASSUME NEW p \in Procs, CheckClose(p) PROVE StageOK'
  BY <1>7 DEF CheckClose, StageOK, TypeOK, Stages, Goto, Finish, ReadOps,
    WriteOps, RpcOps, DeclareOps, lock, state, channel, local
<1>8. ASSUME NEW p \in Procs, CheckReconnect(p) PROVE StageOK'
  BY <1>8 DEF CheckReconnect, StageOK, TypeOK, Stages, Goto, Finish, ReadOps,
    WriteOps, RpcOps, DeclareOps, lock, state, channel, local
<1>9. ASSUME NEW p \in Procs, Shut(p) PROVE StageOK'
  BY <1>9 DEF Shut, StageOK, TypeOK, Stages, Goto, Finish, ReadOps, WriteOps,
    RpcOps, DeclareOps,
    lock, state, channel, local
<1>10. ASSUME NEW p \in Procs, CheckConnected(p) PROVE StageOK'
  BY <1>10 DEF CheckConnected, StageOK, TypeOK, Stages, Goto, Finish, ReadOps,
    WriteOps, RpcOps, DeclareOps, lock, state, channel, local
<1>11. ASSUME NEW p \in Procs, CheckRpc(p) PROVE StageOK'
  BY <1>11
    DEF CheckRpc, StageOK, TypeOK, Stages, Goto, Finish, ReadOps, WriteOps,
      RpcOps, DeclareOps,
    lock, state, channel, local
<1>12. ASSUME NEW p \in Procs, Rpc(p) PROVE StageOK'
  BY <1>12
    DEF Rpc, StageOK, TypeOK, Stages, Goto, Finish, ReadOps, WriteOps, RpcOps,
      DeclareOps, lock,
    state, channel, local
<1>13. ASSUME NEW p \in Procs, CheckPublish(p) PROVE StageOK'
  BY <1>13 DEF CheckPublish, StageOK, TypeOK, Stages, Goto, Finish, ReadOps,
    WriteOps, RpcOps, DeclareOps, lock, state, channel, local
<1>14. ASSUME NEW p \in Procs, Send(p) PROVE StageOK'
  BY <1>14 DEF Send, StageOK, TypeOK, Stages, Goto, Finish, ReadOps, WriteOps,
    RpcOps, DeclareOps,
    lock, state, channel, local
<1>15. ASSUME NEW p \in Procs, Listen(p) PROVE StageOK'
  BY <1>15
    DEF Listen, StageOK, TypeOK, Stages, Goto, Finish, ReadOps, WriteOps,
      RpcOps, DeclareOps,
    lock, state, channel, local
<1>16. ASSUME NEW p \in Procs, Confirmed(p) PROVE StageOK'
  BY <1>16
    DEF Confirmed, StageOK, TypeOK, Stages, Goto, Finish, ReadOps, WriteOps,
      RpcOps, DeclareOps,
    lock, state, channel, local
<1>17. ASSUME NEW p \in Procs, GiveUp(p) PROVE StageOK'
  BY <1>17
    DEF GiveUp, StageOK, TypeOK, Stages, Goto, Finish, ReadOps, WriteOps,
      RpcOps, DeclareOps,
    lock, state, channel, local
<1>18. CASE Decide
  BY <1>18
    DEF Decide, StageOK, TypeOK, Stages, Goto, Finish, ReadOps, WriteOps,
      RpcOps, DeclareOps,
    lock, state, channel, local
<1>19. CASE Receive
  BY <1>19
    DEF Receive, StageOK, TypeOK, Stages, Goto, Finish, ReadOps, WriteOps,
      RpcOps, DeclareOps,
    lock, state, channel, local
<1>20. CASE Deliver
  BY <1>20
    DEF Deliver, StageOK, TypeOK, Stages, Goto, Finish, ReadOps, WriteOps,
      RpcOps, DeclareOps,
    lock, state, channel, local
<1>21. CASE LinkLost
  BY <1>21
    DEF LinkLost, StageOK, TypeOK, Stages, Goto, Finish, ReadOps, WriteOps,
      RpcOps, DeclareOps,
    lock, state, channel, local
<1>22. CASE UNCHANGED vars
  BY <1>22 DEF vars, StageOK, TypeOK, Stages, Goto, Finish, ReadOps, WriteOps,
    RpcOps, DeclareOps,
    lock, state, channel, local
<1>. QED BY <1>1, <1>2, <1>3, <1>4, <1>5, <1>6, <1>7, <1>8, <1>9, <1>10,
<1>11, <1>12, <1>13, <1>14, <1>15, <1>16, <1>17, <1>18, <1>19, <1>20, <1>21,
<1>22
  DEF Next, Step

(* While a goroutine connects for the first time nobody else can begin; a  *)
(* Reconnect that reaches connect never gets further.                      *)
LEMMA ConnectStep ==
  TypeOK /\ LockOK /\ StageOK /\ ConnectsAlone /\ [Next]_vars => ConnectsAlone'
<1>. SUFFICES ASSUME TypeOK, LockOK, StageOK, ConnectsAlone, [Next]_vars
             PROVE  ConnectsAlone'
  OBVIOUS
<1>1. ASSUME NEW p \in Procs, Begin(p) PROVE ConnectsAlone'
  BY <1>1 DEF Begin, ConnectsAlone, WaitsForItself, LockOK, StageOK, TypeOK,
    Stages, Goto, Finish, ReadOps, WriteOps, RpcOps, DeclareOps, lock, state,
    channel, local
<1>2. ASSUME NEW p \in Procs, Return(p) PROVE ConnectsAlone'
  BY <1>2 DEF Return, ConnectsAlone, WaitsForItself, LockOK, StageOK, TypeOK,
    Stages, Goto, Finish, ReadOps, WriteOps, RpcOps, DeclareOps, lock, state,
    channel, local
<1>3. ASSUME NEW p \in Procs, RLock(p) PROVE ConnectsAlone'
  BY <1>3 DEF RLock, ConnectsAlone, WaitsForItself, LockOK, StageOK, TypeOK,
    Stages, Goto, Finish, ReadOps, WriteOps, RpcOps, DeclareOps, lock, state,
    channel, local
<1>4. ASSUME NEW p \in Procs, Announce(p) PROVE ConnectsAlone'
  BY <1>4, NoneAssumption
    DEF Announce, ConnectsAlone, WaitsForItself, LockOK, StageOK, TypeOK,
    Stages, Goto, Finish, ReadOps, WriteOps, RpcOps, DeclareOps, lock, state,
    channel, local
<1>5. ASSUME NEW p \in Procs, Lock(p) PROVE ConnectsAlone'
  BY <1>5, NoneAssumption
    DEF Lock, ConnectsAlone, WaitsForItself, LockOK, StageOK, TypeOK,
    Stages, Goto, Finish, ReadOps, WriteOps, RpcOps, DeclareOps, lock, state,
    channel, local
<1>6. ASSUME NEW p \in Procs, Dial(p) PROVE ConnectsAlone'
  BY <1>6 DEF Dial, ConnectsAlone, WaitsForItself, LockOK, StageOK, TypeOK,
    Stages, Goto, Finish, ReadOps, WriteOps, RpcOps, DeclareOps, lock, state,
    channel, local
<1>7. ASSUME NEW p \in Procs, CheckClose(p) PROVE ConnectsAlone'
  BY <1>7
    DEF CheckClose, ConnectsAlone, WaitsForItself, LockOK, StageOK, TypeOK,
    Stages, Goto, Finish, ReadOps, WriteOps, RpcOps, DeclareOps, lock, state,
    channel, local
<1>8. ASSUME NEW p \in Procs, CheckReconnect(p) PROVE ConnectsAlone'
  BY <1>8 DEF CheckReconnect, ConnectsAlone, WaitsForItself, LockOK, StageOK,
    TypeOK, Stages, Goto, Finish, ReadOps, WriteOps, RpcOps, DeclareOps, lock,
    state, channel,
    local
<1>9. ASSUME NEW p \in Procs, Shut(p) PROVE ConnectsAlone'
  BY <1>9 DEF Shut, ConnectsAlone, WaitsForItself, LockOK, StageOK, TypeOK,
    Stages, Goto, Finish, ReadOps, WriteOps, RpcOps, DeclareOps, lock, state,
    channel, local
<1>10. ASSUME NEW p \in Procs, CheckConnected(p) PROVE ConnectsAlone'
  BY <1>10 DEF CheckConnected, ConnectsAlone, WaitsForItself, LockOK, StageOK,
    TypeOK, Stages, Goto, Finish, ReadOps, WriteOps, RpcOps, DeclareOps, lock,
    state, channel,
    local
<1>11. ASSUME NEW p \in Procs, CheckRpc(p) PROVE ConnectsAlone'
  BY <1>11
    DEF CheckRpc, ConnectsAlone, WaitsForItself, LockOK, StageOK, TypeOK,
    Stages, Goto, Finish, ReadOps, WriteOps, RpcOps, DeclareOps, lock, state,
    channel, local
<1>12. ASSUME NEW p \in Procs, Rpc(p) PROVE ConnectsAlone'
  BY <1>12
    DEF Rpc, ConnectsAlone, WaitsForItself, LockOK, StageOK, TypeOK, Stages,
    Goto, Finish, ReadOps, WriteOps, RpcOps, DeclareOps, lock, state, channel,
    local
<1>13. ASSUME NEW p \in Procs, CheckPublish(p) PROVE ConnectsAlone'
  BY <1>13 DEF CheckPublish, ConnectsAlone, WaitsForItself, LockOK, StageOK,
    TypeOK, Stages, Goto, Finish, ReadOps, WriteOps, RpcOps, DeclareOps, lock,
    state, channel,
    local
<1>14. ASSUME NEW p \in Procs, Send(p) PROVE ConnectsAlone'
  BY <1>14 DEF Send, ConnectsAlone, WaitsForItself, LockOK, StageOK, TypeOK,
    Stages, Goto, Finish, ReadOps, WriteOps, RpcOps, DeclareOps, lock, state,
    channel, local
<1>15. ASSUME NEW p \in Procs, Listen(p) PROVE ConnectsAlone'
  BY <1>15 DEF Listen, ConnectsAlone, WaitsForItself, LockOK, StageOK, TypeOK,
    Stages, Goto, Finish, ReadOps, WriteOps, RpcOps, DeclareOps, lock, state,
    channel, local
<1>16. ASSUME NEW p \in Procs, Confirmed(p) PROVE ConnectsAlone'
  BY <1>16
    DEF Confirmed, ConnectsAlone, WaitsForItself, LockOK, StageOK, TypeOK,
    Stages, Goto, Finish, ReadOps, WriteOps, RpcOps, DeclareOps, lock, state,
    channel, local
<1>17. ASSUME NEW p \in Procs, GiveUp(p) PROVE ConnectsAlone'
  BY <1>17 DEF GiveUp, ConnectsAlone, WaitsForItself, LockOK, StageOK, TypeOK,
    Stages, Goto, Finish, ReadOps, WriteOps, RpcOps, DeclareOps, lock, state,
    channel, local
<1>18. CASE Decide
  BY <1>18 DEF Decide, ConnectsAlone, WaitsForItself, LockOK, StageOK, TypeOK,
    Stages, Goto, Finish, ReadOps, WriteOps, RpcOps, DeclareOps, lock, state,
    channel, local
<1>19. CASE Receive
  BY <1>19
    DEF Receive, ConnectsAlone, WaitsForItself, LockOK, StageOK, TypeOK,
    Stages, Goto, Finish, ReadOps, WriteOps, RpcOps, DeclareOps, lock, state,
    channel, local
<1>20. CASE Deliver
  BY <1>20
    DEF Deliver, ConnectsAlone, WaitsForItself, LockOK, StageOK, TypeOK,
    Stages, Goto, Finish, ReadOps, WriteOps, RpcOps, DeclareOps, lock, state,
    channel, local
<1>21. CASE LinkLost
  BY <1>21
    DEF LinkLost, Connected, ConnectsAlone, WaitsForItself, LockOK, StageOK, TypeOK,
    Stages, Goto, Finish, ReadOps, WriteOps, RpcOps, DeclareOps, lock, state,
    channel, local
<1>22. CASE UNCHANGED vars
  BY <1>22 DEF vars, ConnectsAlone, WaitsForItself, LockOK, StageOK, TypeOK,
    Stages, Goto, Finish, ReadOps, WriteOps, RpcOps, DeclareOps, lock, state,
    channel, local
<1>. QED BY <1>1, <1>2, <1>3, <1>4, <1>5, <1>6, <1>7, <1>8, <1>9, <1>10,
<1>11, <1>12, <1>13, <1>14, <1>15, <1>16, <1>17, <1>18, <1>19, <1>20, <1>21,
<1>22
  DEF Next, Step

(* Every step leaves the lock with those who are inside a call.            *)
LEMMA HoldersStep ==
  TypeOK /\ LockOK /\ StageOK /\ HoldersOK /\ [Next]_vars => HoldersOK'
<1>. SUFFICES ASSUME TypeOK, LockOK, StageOK, HoldersOK, [Next]_vars
             PROVE  HoldersOK'
  OBVIOUS
<1>1. ASSUME NEW p \in Procs, Begin(p) PROVE HoldersOK'
  BY <1>1, NoneAssumption DEF Begin, HoldersOK, LockOK, StageOK, TypeOK, Stages, Goto, Finish, ReadOps,
    WriteOps, RpcOps, DeclareOps, lock, state, channel, local
<1>2. ASSUME NEW p \in Procs, Return(p) PROVE HoldersOK'
  BY <1>2, NoneAssumption DEF Return, HoldersOK, LockOK, StageOK, TypeOK, Stages, Goto, Finish, ReadOps,
    WriteOps, RpcOps, DeclareOps, lock, state, channel, local
<1>3. ASSUME NEW p \in Procs, RLock(p) PROVE HoldersOK'
  BY <1>3, NoneAssumption DEF RLock, HoldersOK, LockOK, StageOK, TypeOK, Stages, Goto, Finish, ReadOps,
    WriteOps, RpcOps, DeclareOps, lock, state, channel, local
<1>4. ASSUME NEW p \in Procs, Announce(p) PROVE HoldersOK'
  BY <1>4, NoneAssumption
    DEF Announce, HoldersOK, LockOK, StageOK, TypeOK, Stages, Goto, Finish, ReadOps,
    WriteOps, RpcOps, DeclareOps, lock, state, channel, local
<1>5. ASSUME NEW p \in Procs, Lock(p) PROVE HoldersOK'
  BY <1>5, NoneAssumption
    DEF Lock, HoldersOK, LockOK, StageOK, TypeOK, Stages, Goto, Finish, ReadOps,
    WriteOps, RpcOps, DeclareOps, lock, state, channel, local
<1>6. ASSUME NEW p \in Procs, Dial(p) PROVE HoldersOK'
  BY <1>6, NoneAssumption DEF Dial, HoldersOK, LockOK, StageOK, TypeOK, Stages, Goto, Finish, ReadOps,
    WriteOps, RpcOps, DeclareOps, lock, state, channel, local
<1>7. ASSUME NEW p \in Procs, CheckClose(p) PROVE HoldersOK'
  BY <1>7, NoneAssumption
    DEF CheckClose, HoldersOK, LockOK, StageOK, TypeOK, Stages, Goto, Finish, ReadOps,
    WriteOps, RpcOps, DeclareOps, lock, state, channel, local
<1>8. ASSUME NEW p \in Procs, CheckReconnect(p) PROVE HoldersOK'
  BY <1>8, NoneAssumption DEF CheckReconnect, HoldersOK, LockOK, StageOK, TypeOK, Stages, Goto, Finish,
    ReadOps, WriteOps, RpcOps, DeclareOps, lock, state, channel, local
<1>9. ASSUME NEW p \in Procs, Shut(p) PROVE HoldersOK'
  <2>1. \A q \in readers' :
          op'[q] \in ReadOps /\ pc'[q] \in {"check", "send", "listen", "await", "rpc"}
    BY <1>9 DEF Shut, Answerable, HoldersOK, LockOK, StageOK, TypeOK, Stages, Goto, Finish,
      ReadOps, WriteOps, RpcOps, DeclareOps, lock, state, channel, local
  <2>2. announced' # None => pc'[announced'] = "announced"
    BY <1>9 DEF Shut, Answerable, HoldersOK, TypeOK, Stages, Goto, Finish,
      ReadOps, WriteOps, RpcOps, DeclareOps, lock, state, channel, local
  <2>3. writer' # None => pc'[writer'] \in {"check", "dial", "rpc", "shut", "lock"}
    BY <1>9 DEF Shut, Answerable, HoldersOK, LockOK, StageOK, TypeOK, Stages, Goto, Finish,
      ReadOps, WriteOps, RpcOps, DeclareOps, lock, state, channel, local
  <2>4. \A q \in Procs :
          /\ pc'[q] = "check" => op'[q] # "connect"
          /\ pc'[q] = "shut" => op'[q] \in {"Close", "Reconnect"}
          /\ link' = "none" => op'[q] \in {"none", "connect"}
    BY <1>9 DEF Shut, Answerable, HoldersOK, StageOK, TypeOK, Stages, Goto, Finish,
      ReadOps, WriteOps, RpcOps, DeclareOps, lock, state, channel, local
  <2>. QED  BY <2>1, <2>2, <2>3, <2>4 DEF HoldersOK
<1>10. ASSUME NEW p \in Procs, CheckConnected(p) PROVE HoldersOK'
  BY <1>10, NoneAssumption DEF CheckConnected, HoldersOK, LockOK, StageOK, TypeOK, Stages, Goto, Finish,
    ReadOps, WriteOps, RpcOps, DeclareOps, lock, state, channel, local
<1>11. ASSUME NEW p \in Procs, CheckRpc(p) PROVE HoldersOK'
  <2>1. \A q \in readers' :
          op'[q] \in ReadOps /\ pc'[q] \in {"check", "send", "listen", "await", "rpc"}
    BY <1>11 DEF CheckRpc, HoldersOK, LockOK, StageOK, TypeOK, Stages, Goto, Finish,
      ReadOps, WriteOps, RpcOps, DeclareOps, lock, state, channel, local
  <2>2. announced' # None => pc'[announced'] = "announced"
    BY <1>11 DEF CheckRpc, HoldersOK, TypeOK, Stages, Goto, Finish,
      ReadOps, WriteOps, RpcOps, DeclareOps, lock, state, channel, local
  <2>3. writer' # None => pc'[writer'] \in {"check", "dial", "rpc", "shut", "lock"}
    BY <1>11 DEF CheckRpc, HoldersOK, LockOK, StageOK, TypeOK, Stages, Goto, Finish,
      ReadOps, WriteOps, RpcOps, DeclareOps, lock, state, channel, local
  <2>4. \A q \in Procs :
          /\ pc'[q] = "check" => op'[q] # "connect"
          /\ pc'[q] = "shut" => op'[q] \in {"Close", "Reconnect"}
          /\ link' = "none" => op'[q] \in {"none", "connect"}
    BY <1>11 DEF CheckRpc, HoldersOK, StageOK, TypeOK, Stages, Goto, Finish,
      ReadOps, WriteOps, RpcOps, DeclareOps, lock, state, channel, local
  <2>. QED  BY <2>1, <2>2, <2>3, <2>4 DEF HoldersOK
<1>12. ASSUME NEW p \in Procs, Rpc(p) PROVE HoldersOK'
  BY <1>12, NoneAssumption DEF Rpc, HoldersOK, LockOK, StageOK, TypeOK, Stages, Goto, Finish, ReadOps,
    WriteOps, RpcOps, DeclareOps, lock, state, channel, local
<1>13. ASSUME NEW p \in Procs, CheckPublish(p) PROVE HoldersOK'
  <2>1. \A q \in readers' :
          op'[q] \in ReadOps /\ pc'[q] \in {"check", "send", "listen", "await", "rpc"}
    BY <1>13 DEF CheckPublish, HoldersOK, LockOK, StageOK, TypeOK, Stages, Goto, Finish,
      ReadOps, WriteOps, RpcOps, DeclareOps, lock, state, channel, local
  <2>2. announced' # None => pc'[announced'] = "announced"
    BY <1>13 DEF CheckPublish, HoldersOK, TypeOK, Stages, Goto, Finish,
      ReadOps, WriteOps, RpcOps, DeclareOps, lock, state, channel, local
  <2>3. writer' # None => pc'[writer'] \in {"check", "dial", "rpc", "shut", "lock"}
    BY <1>13 DEF CheckPublish, HoldersOK, LockOK, StageOK, TypeOK, Stages, Goto, Finish,
      ReadOps, WriteOps, RpcOps, DeclareOps, lock, state, channel, local
  <2>4. \A q \in Procs :
          /\ pc'[q] = "check" => op'[q] # "connect"
          /\ pc'[q] = "shut" => op'[q] \in {"Close", "Reconnect"}
          /\ link' = "none" => op'[q] \in {"none", "connect"}
    BY <1>13 DEF CheckPublish, HoldersOK, StageOK, TypeOK, Stages, Goto, Finish,
      ReadOps, WriteOps, RpcOps, DeclareOps, lock, state, channel, local
  <2>. QED  BY <2>1, <2>2, <2>3, <2>4 DEF HoldersOK
<1>14. ASSUME NEW p \in Procs, Send(p) PROVE HoldersOK'
  <2>1. \A q \in readers' :
          op'[q] \in ReadOps /\ pc'[q] \in {"check", "send", "listen", "await", "rpc"}
    BY <1>14 DEF Send, HoldersOK, LockOK, StageOK, TypeOK, Stages, Goto, Finish,
      ReadOps, WriteOps, RpcOps, DeclareOps, lock, state, channel, local
  <2>2. announced' # None => pc'[announced'] = "announced"
    BY <1>14 DEF Send, HoldersOK, TypeOK, Stages, Goto, Finish,
      ReadOps, WriteOps, RpcOps, DeclareOps, lock, state, channel, local
  <2>3. writer' # None => pc'[writer'] \in {"check", "dial", "rpc", "shut", "lock"}
    BY <1>14 DEF Send, HoldersOK, LockOK, StageOK, TypeOK, Stages, Goto, Finish,
      ReadOps, WriteOps, RpcOps, DeclareOps, lock, state, channel, local
  <2>4. \A q \in Procs :
          /\ pc'[q] = "check" => op'[q] # "connect"
          /\ pc'[q] = "shut" => op'[q] \in {"Close", "Reconnect"}
          /\ link' = "none" => op'[q] \in {"none", "connect"}
    BY <1>14 DEF Send, HoldersOK, StageOK, TypeOK, Stages, Goto, Finish,
      ReadOps, WriteOps, RpcOps, DeclareOps, lock, state, channel, local
  <2>. QED  BY <2>1, <2>2, <2>3, <2>4 DEF HoldersOK
<1>15. ASSUME NEW p \in Procs, Listen(p) PROVE HoldersOK'
  BY <1>15, NoneAssumption DEF Listen, HoldersOK, LockOK, StageOK, TypeOK, Stages, Goto, Finish, ReadOps,
    WriteOps, RpcOps, DeclareOps, lock, state, channel, local
<1>16. ASSUME NEW p \in Procs, Confirmed(p) PROVE HoldersOK'
  BY <1>16, NoneAssumption
    DEF Confirmed, HoldersOK, LockOK, StageOK, TypeOK, Stages, Goto, Finish, ReadOps,
    WriteOps, RpcOps, DeclareOps, lock, state, channel, local
<1>17. ASSUME NEW p \in Procs, GiveUp(p) PROVE HoldersOK'
  BY <1>17, NoneAssumption DEF GiveUp, HoldersOK, LockOK, StageOK, TypeOK, Stages, Goto, Finish, ReadOps,
    WriteOps, RpcOps, DeclareOps, lock, state, channel, local
<1>18. CASE Decide
  BY <1>18, NoneAssumption DEF Decide, HoldersOK, LockOK, StageOK, TypeOK, Stages, Goto, Finish, ReadOps,
    WriteOps, RpcOps, DeclareOps, lock, state, channel, local
<1>19. CASE Receive
  BY <1>19, NoneAssumption
    DEF Receive, HoldersOK, LockOK, StageOK, TypeOK, Stages, Goto, Finish, ReadOps,
    WriteOps, RpcOps, DeclareOps, lock, state, channel, local
<1>20. CASE Deliver
  BY <1>20, NoneAssumption
    DEF Deliver, HoldersOK, LockOK, StageOK, TypeOK, Stages, Goto, Finish, ReadOps,
    WriteOps, RpcOps, DeclareOps, lock, state, channel, local
<1>21. CASE LinkLost
  BY <1>21, NoneAssumption
    DEF LinkLost, HoldersOK, LockOK, StageOK, TypeOK, Stages, Goto, Finish, ReadOps,
    WriteOps, RpcOps, DeclareOps, lock, state, channel, local
<1>22. CASE UNCHANGED vars
  BY <1>22, NoneAssumption DEF vars, HoldersOK, LockOK, StageOK, TypeOK, Stages, Goto, Finish, ReadOps,
    WriteOps, RpcOps, DeclareOps, lock, state, channel, local
<1>. QED BY <1>1, <1>2, <1>3, <1>4, <1>5, <1>6, <1>7, <1>8, <1>9, <1>10,
<1>11, <1>12, <1>13, <1>14, <1>15, <1>16, <1>17, <1>18, <1>19, <1>20, <1>21,
<1>22
  DEF Next, Step

(* Once the flag is set, nobody starts to send, and nobody was sending     *)
(* when the writer set it.                                                 *)
LEMMA QuietStep ==
  TypeOK /\ LockOK /\ StageOK /\ ClosedIsQuiet /\ [Next]_vars => ClosedIsQuiet'
<1>. SUFFICES ASSUME TypeOK, LockOK, StageOK, ClosedIsQuiet, [Next]_vars
             PROVE  ClosedIsQuiet'
  OBVIOUS
<1>1. ASSUME NEW p \in Procs, Begin(p) PROVE ClosedIsQuiet'
  BY <1>1
    DEF Begin, ClosedIsQuiet, LockOK, StageOK, TypeOK, Stages, Goto, Finish,
    ReadOps, WriteOps, RpcOps, DeclareOps, lock, state, channel, local
<1>2. ASSUME NEW p \in Procs, Return(p) PROVE ClosedIsQuiet'
  BY <1>2 DEF Return, ClosedIsQuiet, LockOK, StageOK, TypeOK, Stages, Goto,
    Finish, ReadOps, WriteOps, RpcOps, DeclareOps, lock, state, channel, local
<1>3. ASSUME NEW p \in Procs, RLock(p) PROVE ClosedIsQuiet'
  BY <1>3
    DEF RLock, ClosedIsQuiet, LockOK, StageOK, TypeOK, Stages, Goto, Finish,
    ReadOps, WriteOps, RpcOps, DeclareOps, lock, state, channel, local
<1>4. ASSUME NEW p \in Procs, Announce(p) PROVE ClosedIsQuiet'
  BY <1>4 DEF Announce, ClosedIsQuiet, LockOK, StageOK, TypeOK, Stages, Goto,
    Finish, ReadOps, WriteOps, RpcOps, DeclareOps, lock, state, channel, local
<1>5. ASSUME NEW p \in Procs, Lock(p) PROVE ClosedIsQuiet'
  BY <1>5
    DEF Lock, ClosedIsQuiet, LockOK, StageOK, TypeOK, Stages, Goto, Finish,
    ReadOps, WriteOps, RpcOps, DeclareOps, lock, state, channel, local
<1>6. ASSUME NEW p \in Procs, Dial(p) PROVE ClosedIsQuiet'
  BY <1>6
    DEF Dial, ClosedIsQuiet, LockOK, StageOK, TypeOK, Stages, Goto, Finish,
    ReadOps, WriteOps, RpcOps, DeclareOps, lock, state, channel, local
<1>7. ASSUME NEW p \in Procs, CheckClose(p) PROVE ClosedIsQuiet'
  BY <1>7, NoneAssumption
    DEF CheckClose, ClosedIsQuiet, LockOK, StageOK, TypeOK, Stages, Goto,
    Finish, ReadOps, WriteOps, RpcOps, DeclareOps, lock, state, channel, local
<1>8. ASSUME NEW p \in Procs, CheckReconnect(p) PROVE ClosedIsQuiet'
  BY <1>8 DEF CheckReconnect, ClosedIsQuiet, LockOK, StageOK, TypeOK, Stages,
    Goto, Finish, ReadOps, WriteOps, RpcOps, DeclareOps, lock, state, channel,
    local
<1>9. ASSUME NEW p \in Procs, Shut(p) PROVE ClosedIsQuiet'
  BY <1>9
    DEF Shut, ClosedIsQuiet, LockOK, StageOK, TypeOK, Stages, Goto, Finish,
    ReadOps, WriteOps, RpcOps, DeclareOps, lock, state, channel, local
<1>10. ASSUME NEW p \in Procs, CheckConnected(p) PROVE ClosedIsQuiet'
  BY <1>10 DEF CheckConnected, ClosedIsQuiet, LockOK, StageOK, TypeOK, Stages,
    Goto, Finish, ReadOps, WriteOps, RpcOps, DeclareOps, lock, state, channel,
    local
<1>11. ASSUME NEW p \in Procs, CheckRpc(p) PROVE ClosedIsQuiet'
  BY <1>11 DEF CheckRpc, ClosedIsQuiet, LockOK, StageOK, TypeOK, Stages, Goto,
    Finish, ReadOps, WriteOps, RpcOps, DeclareOps, lock, state, channel, local
<1>12. ASSUME NEW p \in Procs, Rpc(p) PROVE ClosedIsQuiet'
  BY <1>12
    DEF Rpc, ClosedIsQuiet, LockOK, StageOK, TypeOK, Stages, Goto, Finish,
    ReadOps, WriteOps, RpcOps, DeclareOps, lock, state, channel, local
<1>13. ASSUME NEW p \in Procs, CheckPublish(p) PROVE ClosedIsQuiet'
  BY <1>13
    DEF CheckPublish, ClosedIsQuiet, LockOK, StageOK, TypeOK, Stages, Goto,
    Finish, ReadOps, WriteOps, RpcOps, DeclareOps, lock, state, channel, local
<1>14. ASSUME NEW p \in Procs, Send(p) PROVE ClosedIsQuiet'
  BY <1>14
    DEF Send, ClosedIsQuiet, LockOK, StageOK, TypeOK, Stages, Goto, Finish,
    ReadOps, WriteOps, RpcOps, DeclareOps, lock, state, channel, local
<1>15. ASSUME NEW p \in Procs, Listen(p) PROVE ClosedIsQuiet'
  BY <1>15 DEF Listen, ClosedIsQuiet, LockOK, StageOK, TypeOK, Stages, Goto,
    Finish, ReadOps, WriteOps, RpcOps, DeclareOps, lock, state, channel, local
<1>16. ASSUME NEW p \in Procs, Confirmed(p) PROVE ClosedIsQuiet'
  BY <1>16
    DEF Confirmed, ClosedIsQuiet, LockOK, StageOK, TypeOK, Stages, Goto,
    Finish, ReadOps, WriteOps, RpcOps, DeclareOps, lock, state, channel, local
<1>17. ASSUME NEW p \in Procs, GiveUp(p) PROVE ClosedIsQuiet'
  BY <1>17 DEF GiveUp, ClosedIsQuiet, LockOK, StageOK, TypeOK, Stages, Goto,
    Finish, ReadOps, WriteOps, RpcOps, DeclareOps, lock, state, channel, local
<1>18. CASE Decide
  BY <1>18 DEF Decide, ClosedIsQuiet, LockOK, StageOK, TypeOK, Stages, Goto,
    Finish, ReadOps, WriteOps, RpcOps, DeclareOps, lock, state, channel, local
<1>19. CASE Receive
  BY <1>19 DEF Receive, ClosedIsQuiet, LockOK, StageOK, TypeOK, Stages, Goto,
    Finish, ReadOps, WriteOps, RpcOps, DeclareOps, lock, state, channel, local
<1>20. CASE Deliver
  BY <1>20 DEF Deliver, ClosedIsQuiet, LockOK, StageOK, TypeOK, Stages, Goto,
    Finish, ReadOps, WriteOps, RpcOps, DeclareOps, lock, state, channel, local
<1>21. CASE LinkLost
  BY <1>21 DEF LinkLost, ClosedIsQuiet, LockOK, StageOK, TypeOK, Stages, Goto,
    Finish, ReadOps, WriteOps, RpcOps, DeclareOps, lock, state, channel, local
<1>22. CASE UNCHANGED vars
  BY <1>22
    DEF vars, ClosedIsQuiet, LockOK, StageOK, TypeOK, Stages, Goto, Finish,
    ReadOps, WriteOps, RpcOps, DeclareOps, lock, state, channel, local
<1>. QED BY <1>1, <1>2, <1>3, <1>4, <1>5, <1>6, <1>7, <1>8, <1>9, <1>10,
<1>11, <1>12, <1>13, <1>14, <1>15, <1>16, <1>17, <1>18, <1>19, <1>20, <1>21,
<1>22
  DEF Next, Step

-----------------------------------------------------------------------------
(* Acknowledgements.                                                       *)

(* Every step leaves an acknowledgement in a listener, or behind a         *)
(* successful Publish, only if the broker has given one.                   *)
LEMMA AckStep ==
  IInv /\ [Next]_vars => AcksOK' /\ SuccessNeedsAck'
<1>. SUFFICES ASSUME IInv, [Next]_vars
             PROVE  AcksOK' /\ SuccessNeedsAck'
  OBVIOUS
<1>1. ASSUME NEW p \in Procs, Begin(p) PROVE AcksOK' /\ SuccessNeedsAck'
  BY <1>1 DEF Begin, IInv, AcksOK, SuccessNeedsAck, SomeAck, Content, StageOK,
    ConnectsAlone, WaitsForItself, LockOK, TypeOK, Stages, Goto, Finish,
    lock, state, channel, local
<1>2. ASSUME NEW p \in Procs, Return(p) PROVE AcksOK' /\ SuccessNeedsAck'
  BY <1>2
    DEF Return, IInv, AcksOK, SuccessNeedsAck, SomeAck, Content, StageOK,
    ConnectsAlone, WaitsForItself, LockOK, TypeOK, Stages, Goto, Finish,
    lock, state, channel, local
<1>3. ASSUME NEW p \in Procs, RLock(p) PROVE AcksOK' /\ SuccessNeedsAck'
  BY <1>3 DEF RLock, IInv, AcksOK, SuccessNeedsAck, SomeAck, Content, StageOK,
    ConnectsAlone, WaitsForItself, LockOK, TypeOK, Stages, Goto, Finish,
    lock, state, channel, local
<1>4. ASSUME NEW p \in Procs, Announce(p) PROVE AcksOK' /\ SuccessNeedsAck'
  BY <1>4
    DEF Announce, IInv, AcksOK, SuccessNeedsAck, SomeAck, Content, StageOK,
    ConnectsAlone, WaitsForItself, LockOK, TypeOK, Stages, Goto, Finish,
    lock, state, channel, local
<1>5. ASSUME NEW p \in Procs, Lock(p) PROVE AcksOK' /\ SuccessNeedsAck'
  BY <1>5 DEF Lock, IInv, AcksOK, SuccessNeedsAck, SomeAck, Content, StageOK,
    ConnectsAlone, WaitsForItself, LockOK, TypeOK, Stages, Goto, Finish,
    lock, state, channel, local
<1>6. ASSUME NEW p \in Procs, Dial(p) PROVE AcksOK' /\ SuccessNeedsAck'
  <2>1. CASE UNCHANGED channel
    <3>1. op[p] = "connect" /\ pc[p] = "dial"
      BY <1>6 DEF IInv, StageOK, Dial
    <3>. QED  BY <1>6, <2>1, <3>1
      DEF Dial, IInv, AcksOK, SuccessNeedsAck, SomeAck, TypeOK, Finish,
      Goto, channel, local
  <2>2. CASE listeners' = <<>> /\ delivering' = 0
    <3>1. \A q \in Procs \ {p} : pc[q] = "idle"
      BY <1>6 DEF Dial, IInv, ConnectsAlone, WaitsForItself, StageOK
    <3>2. op[p] = "connect" /\ op' = op
      BY <1>6 DEF IInv, StageOK, Dial, local
    <3>3. \A q \in Procs : ~ (pc'[q] = "ok" /\ op'[q] = "Publish")
      BY <1>6, <3>1, <3>2 DEF Dial, IInv, TypeOK, Finish, Goto
    <3>. QED  BY <2>2, <3>3 DEF AcksOK, SuccessNeedsAck
  <2>. QED  BY <1>6, <2>1, <2>2 DEF Dial
<1>7. ASSUME NEW p \in Procs, CheckClose(p) PROVE AcksOK' /\ SuccessNeedsAck'
  BY <1>7 DEF CheckClose, IInv, AcksOK, SuccessNeedsAck, SomeAck, Content,
    StageOK, ConnectsAlone, WaitsForItself, LockOK, TypeOK, Stages, Goto,
    Finish, lock, state, channel, local
<1>8. ASSUME NEW p \in Procs,
CheckReconnect(p) PROVE AcksOK' /\ SuccessNeedsAck'
  BY <1>8 DEF CheckReconnect, IInv, AcksOK, SuccessNeedsAck, SomeAck, Content,
    StageOK, ConnectsAlone, WaitsForItself, LockOK, TypeOK, Stages, Goto,
    Finish, lock, state, channel, local
<1>9. ASSUME NEW p \in Procs, Shut(p) PROVE AcksOK' /\ SuccessNeedsAck'
  <2>1. UNCHANGED channel
    BY <1>9 DEF Shut
  <2>2. op[p] \in {"Close", "Reconnect"} /\ op'[p] # "Publish"
    BY <1>9 DEF Shut, IInv, TypeOK, local
  <2>3. \A q \in Procs \ {p} : pc'[q] = pc[q] /\ op'[q] = op[q]
    BY <1>9 DEF Shut, IInv, TypeOK, Finish, Goto
  <2>. QED  BY <2>1, <2>2, <2>3
    DEF IInv, AcksOK, SuccessNeedsAck, SomeAck, channel
<1>10. ASSUME NEW p \in Procs,
CheckConnected(p) PROVE AcksOK' /\ SuccessNeedsAck'
  BY <1>10
    DEF CheckConnected, IInv, AcksOK, SuccessNeedsAck, SomeAck, Content,
    StageOK, ConnectsAlone, WaitsForItself, LockOK, TypeOK, Stages, Goto,
    Finish, lock, state, channel, local
<1>11. ASSUME NEW p \in Procs, CheckRpc(p) PROVE AcksOK' /\ SuccessNeedsAck'
  BY <1>11
    DEF CheckRpc, RpcOps, DeclareOps, IInv, AcksOK, SuccessNeedsAck, SomeAck,
      Content, StageOK,
    ConnectsAlone, WaitsForItself, LockOK, TypeOK, Stages, Goto, Finish,
    lock, state, channel, local
<1>12. ASSUME NEW p \in Procs, Rpc(p) PROVE AcksOK' /\ SuccessNeedsAck'
  BY <1>12 DEF Rpc, RpcOps, DeclareOps, IInv, AcksOK, SuccessNeedsAck,
    SomeAck, Content, StageOK,
    ConnectsAlone, WaitsForItself, LockOK, TypeOK, Stages, Goto, Finish,
    lock, state, channel, local
<1>13. ASSUME NEW p \in Procs,
CheckPublish(p) PROVE AcksOK' /\ SuccessNeedsAck'
  BY <1>13 DEF CheckPublish, IInv, AcksOK, SuccessNeedsAck, SomeAck, Content,
    StageOK, ConnectsAlone, WaitsForItself, LockOK, TypeOK, Stages, Goto,
    Finish, lock, state, channel, local
<1>14. ASSUME NEW p \in Procs, Send(p) PROVE AcksOK' /\ SuccessNeedsAck'
  BY <1>14 DEF Send, IInv, AcksOK, SuccessNeedsAck, SomeAck, Content, StageOK,
    ConnectsAlone, WaitsForItself, LockOK, TypeOK, Stages, Goto, Finish,
    lock, state, channel, local
<1>15. ASSUME NEW p \in Procs, Listen(p) PROVE AcksOK' /\ SuccessNeedsAck'
  <2>1. \/ UNCHANGED listeners
        \/ listeners' = Append(listeners, "empty")
    BY <1>15 DEF Listen
  <2>2. \A i \in 1..Len(listeners') : listeners'[i] = "ack"
          => i \in 1..Len(listeners) /\ listeners[i] = "ack"
    <3>1. CASE UNCHANGED listeners
      BY <3>1
    <3>2. CASE listeners' = Append(listeners, "empty")
      <4>1. "empty" \in {"empty", "ack",
      "nack"} /\ listeners \in Seq({"empty", "ack", "nack"})
        BY DEF IInv, TypeOK
      <4>2. /\ Len(listeners') = Len(listeners) + 1
            /\ \A i \in 1..Len(listeners) : listeners'[i] = listeners[i]
            /\ listeners'[Len(listeners) + 1] = "empty"
        BY <3>2, <4>1, AppendProperties
      <4>3. Len(listeners) \in Nat
        BY <4>1
      <4>. QED  BY <4>2, <4>3
    <3>. QED  BY <2>1, <3>1, <3>2
  <2>3. UNCHANGED <<delivering, heard, verdict>>
    BY <1>15 DEF Listen
  <2>4. \A q \in Procs : pc'[q] = "ok" /\ op'[q] = "Publish"
          => pc[q] = "ok" /\ op[q] = "Publish"
    BY <1>15 DEF Listen, IInv, TypeOK, Goto
  <2>. QED  BY <2>2, <2>3, <2>4
    DEF IInv, AcksOK, SuccessNeedsAck, SomeAck, Stages
<1>16. ASSUME NEW p \in Procs, Confirmed(p) PROVE AcksOK' /\ SuccessNeedsAck'
  <2>1. UNCHANGED <<delivering, heard, verdict, op>>
    BY <1>16 DEF Confirmed, local
  <2>2. \A q \in Procs \ {p} : pc'[q] = pc[q]
    BY <1>16 DEF Confirmed, IInv, TypeOK, Finish, Goto
  <2>3. pc'[p] = "ok" => own[p] # 0 /\ listeners[own[p]] = "ack"
    BY <1>16 DEF Confirmed, IInv, TypeOK, Finish, Goto, Content
  <2>4. \A i \in 1..Len(listeners') : listeners'[i] = "ack"
          => i \in 1..Len(listeners) /\ listeners[i] = "ack"
    <3>1. CASE UNCHANGED listeners
      BY <3>1
    <3>2. CASE listeners' = [listeners EXCEPT ![own[p]] = "empty"] /\ Content(p) # "empty"
      <4>1. own[p] \in 1..Len(listeners)
        BY <3>2 DEF Content, IInv, TypeOK
      <4>. QED  BY <3>2, <4>1, ExceptSeq DEF IInv, TypeOK
    <3>. QED  BY <1>16, <3>1, <3>2 DEF Confirmed
  <2>5. own[p] \in 0..Len(listeners)
    BY DEF IInv, TypeOK
  <2>. QED  BY <2>1, <2>2, <2>3, <2>4, <2>5
    DEF IInv, AcksOK, SuccessNeedsAck, SomeAck, Stages
<1>17. ASSUME NEW p \in Procs, GiveUp(p) PROVE AcksOK' /\ SuccessNeedsAck'
  BY <1>17
    DEF GiveUp, IInv, AcksOK, SuccessNeedsAck, SomeAck, Content, StageOK,
    ConnectsAlone, WaitsForItself, LockOK, TypeOK, Stages, Goto, Finish,
    lock, state, channel, local
<1>18. CASE Decide
  BY <1>18
    DEF Decide, IInv, AcksOK, SuccessNeedsAck, SomeAck, Content, StageOK,
    ConnectsAlone, WaitsForItself, LockOK, TypeOK, Stages, Goto, Finish,
    lock, state, channel, local
<1>19. CASE Receive
  BY <1>19
    DEF Receive, IInv, AcksOK, SuccessNeedsAck, SomeAck, Content, StageOK,
    ConnectsAlone, WaitsForItself, LockOK, TypeOK, Stages, Goto, Finish,
    lock, state, channel, local
<1>20. CASE Deliver
  BY <1>20
    DEF Deliver, IInv, AcksOK, SuccessNeedsAck, SomeAck, Content, StageOK,
    ConnectsAlone, WaitsForItself, LockOK, TypeOK, Stages, Goto, Finish,
    lock, state, channel, local
<1>21. CASE LinkLost
  BY <1>21
    DEF LinkLost, IInv, AcksOK, SuccessNeedsAck, SomeAck, Content, StageOK,
    ConnectsAlone, WaitsForItself, LockOK, TypeOK, Stages, Goto, Finish,
    lock, state, channel, local
<1>22. CASE UNCHANGED vars
  BY <1>22 DEF vars, IInv, AcksOK, SuccessNeedsAck, SomeAck, Content, StageOK,
    ConnectsAlone, WaitsForItself, LockOK, TypeOK, Stages, Goto, Finish,
    lock, state, channel, local
<1>. QED BY <1>1, <1>2, <1>3, <1>4, <1>5, <1>6, <1>7, <1>8, <1>9, <1>10,
<1>11, <1>12, <1>13, <1>14, <1>15, <1>16, <1>17, <1>18, <1>19, <1>20, <1>21,
<1>22
  DEF Next, Step

-----------------------------------------------------------------------------
(* The theorems.                                                           *)

(* The inductive invariant holds in every reachable state.                 *)
THEOREM InductiveInvariant == Spec => []IInv
<1>1. Init => IInv
  <2>. SUFFICES ASSUME Init PROVE IInv
    OBVIOUS
  <2>1. TypeOK
    <3>1. verdict \in Seq(BOOLEAN) /\ Len(verdict) = 0
      BY EmptySeq DEF Init
    <3>2. listeners \in Seq({"empty", "ack", "nack"}) /\ Len(listeners) = 0
      BY EmptySeq DEF Init
    <3>3. pc \in [Procs -> Stages] /\ own = [p \in Procs |-> 0]
          /\ tag \in [Procs -> Nat]
          /\ op \in [Procs -> ReadOps \cup WriteOps \cup {"none"}]
      BY DEF Init, Stages
    <3>4. heard \in 0..Len(verdict) /\ delivering \in 0..Len(listeners) /\ calls \in 0..MaxCalls
      BY <3>1, <3>2, CallsAssumption DEF Init
    <3>5. own \in [Procs -> 0..Len(listeners)] /\ Len(verdict) <= sent /\ sent \in Nat
      BY <3>1, <3>2, <3>3 DEF Init
    <3>. QED  BY <3>1, <3>2, <3>3, <3>4, <3>5 DEF Init, TypeOK
  <2>2. LockOK /\ StageOK /\ ConnectsAlone /\ ClosedIsQuiet /\ SuccessNeedsAck
    BY DEF Init, LockOK, StageOK, ConnectsAlone, ClosedIsQuiet, SuccessNeedsAck
  <2>3. AcksOK
    BY EmptySeq DEF Init, AcksOK
  <2>. QED  BY <2>1, <2>2, <2>3 DEF IInv
<1>2. IInv /\ [Next]_vars => IInv'
  BY TypeStep, LockStep, StageStep, ConnectStep, QuietStep, AckStep DEF IInv
<1>. QED  BY <1>1, <1>2, PTL DEF Spec

(* Every variable keeps its type: nobody's listener is one that the        *)
(* connection does not have (client.go:206-212).                           *)
THEOREM TypeCorrect == Spec => []TypeOK
  BY InductiveInvariant, PTL DEF IInv

(* After Close has set the flag nobody publishes, awaits a confirmation    *)
(* or talks to the broker: Close waits for all who found the client open,  *)
(* and nobody finds it open again (client.go:173-179, 247-256).            *)
THEOREM ClosedStaysQuiet == Spec => []ClosedIsQuiet
  BY InductiveInvariant, PTL DEF IInv

(* No Publish reports success unless the broker has acknowledged a message *)
(* of this connection; a listener that the library closes is never taken   *)
(* for an acknowledgement (client.go:206-216).                             *)
THEOREM SuccessIsAcknowledged == Spec => []SuccessNeedsAck
  BY InductiveInvariant, PTL DEF IInv

-----------------------------------------------------------------------------
(* Nobody waits in vain.                                                   *)

(* Under the invariant somebody can go on: who holds the lock, or the      *)
(* writer who waits for no one, or anybody when it is free.                *)
LEMMA HoldersGoOn ==
  ASSUME IInv, HoldersOK
  PROVE  SomebodyGoesOn
<1>1. TypeOK /\ LockOK /\ StageOK
  BY DEF IInv
<1>2. SUFFICES ASSUME NEW p \in Procs, pc[p] # "idle",
                      ~ (delivering # 0 /\ listeners[delivering] = "empty"),
                      ~ Wedged, \A q \in Procs : ~ WaitsForItself(q)
               PROVE  \E q \in Procs : CanGoOn(q)
  BY DEF SomebodyGoesOn
<1>3. CASE delivering # 0
  <2>1. PICK q \in Procs : pc[q] = "await"
    BY <1>2, <1>3 DEF Wedged
  <2>2. CanGoOn(q)
    BY <2>1 DEF CanGoOn
  <2>. QED  BY <2>2
<1>4. ASSUME delivering = 0, NEW q \in Procs,
             \/ pc[q] \in {"check", "dial", "send", "listen", "await", "shut"}
             \/ pc[q] = "rpc"
      PROVE  CanGoOn(q)
  <2>1. pc[q] \in {"rpc", "shut"} => link # "none"
    BY <1>1 DEF HoldersOK, StageOK, RpcOps, DeclareOps
  <2>2. pc[q] \in {"rpc", "shut"} => link # "up" \/ Answerable
    BY <1>1, <1>4, <2>1 DEF Answerable, TypeOK
  <2>. QED  BY <1>4, <2>2 DEF CanGoOn
<1>5. CASE delivering = 0 /\ readers # {}
  <2>1. PICK q \in readers : TRUE
    BY <1>5
  <2>2. q \in Procs /\ pc[q] \in {"check", "send", "listen", "await", "rpc"}
    BY <1>1, <2>1 DEF HoldersOK, TypeOK
  <2>3. CanGoOn(q)
    BY <1>4, <1>5, <2>2
  <2>. QED  BY <2>2, <2>3
<1>6. CASE readers = {} /\ announced # None
  <2>1. announced \in Procs /\ pc[announced] = "announced"
    BY <1>1, <1>6 DEF HoldersOK, TypeOK
  <2>2. CanGoOn(announced)
    BY <1>6, <2>1 DEF CanGoOn
  <2>. QED  BY <2>1, <2>2
<1>7. CASE delivering = 0 /\ writer # None
  <2>1. writer \in Procs /\ pc[writer] \in {"check", "dial", "rpc", "shut", "lock"}
    BY <1>1, <1>7 DEF HoldersOK, TypeOK
  <2>2. pc[writer] # "lock"
    BY <1>2, <2>1 DEF WaitsForItself
  <2>3. CanGoOn(writer)
    BY <1>4, <1>7, <2>1, <2>2
  <2>. QED  BY <2>1, <2>3
<1>8. CASE delivering = 0 /\ readers = {} /\ announced = None /\ writer = None
  <2>1. pc[p] # "announced"
    BY <1>1, <1>8, NoneAssumption DEF LockOK
  <2>2. pc[p] \in {"rlock", "lock", "ok", "failed"} => CanGoOn(p)
    BY <1>8 DEF CanGoOn
  <2>3. pc[p] \in {"check", "dial", "send", "listen", "await", "shut", "rpc"} => CanGoOn(p)
    BY <1>4, <1>8
  <2>4. pc[p] \in Stages
    BY <1>1 DEF TypeOK
  <2>. QED  BY <1>2, <2>1, <2>2, <2>3, <2>4 DEF Stages
<1>. QED  BY <1>3, <1>5, <1>6, <1>7, <1>8

(* However many goroutines share the client, in whatever operations, they  *)
(* never all wait for one another: what blocks is a library stuck on a     *)
(* listener that nobody reads any more, or the Reconnect that wants the    *)
(* lock it holds (client.go:208, 302).                                     *)
THEOREM NobodyWaitsInVain == Spec => []SomebodyGoesOn
<1>1. Init => HoldersOK
  BY DEF Init, HoldersOK
<1>2. IInv /\ HoldersOK /\ [Next]_vars => HoldersOK'
  BY HoldersStep DEF IInv
<1>3. IInv /\ HoldersOK => SomebodyGoesOn
  BY HoldersGoOn
<1>. QED  BY <1>1, <1>2, <1>3, InductiveInvariant, PTL DEF Spec
=============================================================================
