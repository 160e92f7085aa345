----------------------- MODULE ClientConnectionProofs -----------------------
(***************************************************************************)
(* Proofs about module ClientConnection, for any number of sessions,       *)
(* addresses, retries and gestures: types, the status at rest, forgotten   *)
(* connections, and removals that were put off.                            *)
(***************************************************************************)
EXTENDS ClientConnection, TLAPS

USE DEF At, Idle

-----------------------------------------------------------------------------
(* Types.                                                                   *)

(* What the queue of calls is made of.                                      *)
LEMMA CallType ==
  ASSUME NEW s \in Session, NEW does \in {"connected", "failed", "disconnected", "remove"}
  PROVE  Call(does, s) \in Calls
  BY DEF Call, Calls

LEMMA QueueType ==
  ASSUME NEW q \in Seq(Calls), NEW c \in Calls
  PROVE  Append(q, c) \in Seq(Calls)
  OBVIOUS

LEMMA QueueTypeTwo ==
  ASSUME NEW q \in Seq(Calls), NEW c \in Calls, NEW d \in Calls
  PROVE  q \o <<c, d>> \in Seq(Calls)
  OBVIOUS

LEMMA HeadType ==
  ASSUME NEW q \in Seq(Calls), q # <<>>
  PROVE  Head(q) \in Calls /\ Tail(q) \in Seq(Calls)
  OBVIOUS

LEMMA FieldType ==
  ASSUME NEW c \in Calls
  PROVE  c.of \in Session /\ c.does \in {"connected", "failed", "disconnected", "remove"}
  BY DEF Calls

LEMMA InitType == Init => StateType
  BY ClientConnectionAssumption DEF Init, StateType

LEMMA IOQueueType == ASSUME StateType, NEW s \in Session, IO(s) PROVE deferred' \in Seq(Calls)
<1>1. CASE HandleNotConnected(s)
  <2>1. deferred' = deferred \/ deferred' = deferred \o <<Call("failed", s), Call("remove", s)>>
    BY <1>1 DEF HandleNotConnected, StartNext, OnConnectFailed
  <2> QED BY <2>1, CallType, QueueTypeTwo DEF StateType
<1>2. CASE HandleConnect(s) \/ HandleReadFailed(s) \/ HandleDeadline(s)
  BY <1>2 DEF StateType, HandleConnect, HandleReadFailed, HandleDeadline, manager
<1>3. CASE ConnectComplete(s)
  BY <1>3, CallType, QueueType DEF StateType, ConnectComplete, OnConnected
<1>4. CASE CloseRest(s)
  <2>1. deferred' = deferred \/ deferred' = deferred \o <<Call("disconnected", s), Call("remove", s)>>
    BY <1>4 DEF CloseRest, OnDisconnected
  <2> QED BY <2>1, CallType, QueueTypeTwo DEF StateType
<1> QED BY <1>1, <1>2, <1>3, <1>4 DEF IO

LEMMA IOType == ASSUME StateType, NEW s \in Session, IO(s) PROVE StateType'
<1> USE ClientConnectionAssumption
<1>0. deferred' \in Seq(Calls)
  BY IOQueueType
<1>1. CASE HandleNotConnected(s)
  <2>1. UNCHANGED <<connected, relay, status, io, arming, gestures>>
    BY <1>1 DEF HandleNotConnected, threads, user
  <2>2. StartNext(s)
    BY <1>1 DEF HandleNotConnected
  <2>3. retryServerReconnectCount' \in Nat /\ timers' \in Nat
    BY <2>2 DEF StartNext, OnConnectFailed, TryReconnect, StateType
  <2>4. open' \subseteq Session
    BY <2>2 DEF StartNext, StateType
  <2>5. op' \in [Session -> {"none", "connecting", "accepted", "refused", "reading", "broken"}]
    BY <2>2 DEF StartNext, StateType
  <2>6. endpoint' \in [Session -> 1 .. Endpoint]
    BY <2>2 DEF StartNext, HasNext, StateType
  <2>7. deadline' \in [Session -> {"none", "unarmed", "waiting", "expired"}]
    BY <2>2 DEF StartNext, StateType
  <2> QED BY <1>0, <2>1, <2>3, <2>4, <2>5, <2>6, <2>7 DEF StateType
<1>2. CASE HandleConnect(s)
  BY <1>2 DEF StateType, HandleConnect, Handles, sessions, manager, user
<1>3. CASE ConnectComplete(s)
  BY <1>0, <1>3 DEF StateType, ConnectComplete, OnConnected, user
<1>4. CASE HandleReadFailed(s)
  BY <1>4 DEF StateType, HandleReadFailed, Handles, manager, user
<1>5. CASE HandleDeadline(s)
  BY <1>5 DEF StateType, HandleDeadline, Handles, manager, user
<1>6. CASE CloseRest(s)
  BY <1>0, <1>6 DEF StateType, CloseRest, OnDisconnected, TryReconnect, user
<1> QED BY <1>1, <1>2, <1>3, <1>4, <1>5, <1>6 DEF IO

LEMMA DropType ==
  ASSUME StateType, NEW old \in SUBSET Session, NEW calls \in Seq(Calls), Drop(old, calls)
  PROVE  /\ connected' \subseteq Session /\ deferred' \in Seq(Calls)
         /\ status' \in {"init", "connected", "failed", "disconnected"}
  BY CallType, QueueType DEF StateType, Drop, Show

LEMMA JoinType ==
  ASSUME StateType, NEW s \in Session, JoinServer(s), io' = io,
         retryServerReconnectCount' \in Nat, timers' \in Nat,
         gestures' \in 0 .. MaxGesture
  PROVE  StateType'
<1> USE ClientConnectionAssumption
<1>1. relay \in SUBSET Session /\ deferred \in Seq(Calls)
  BY DEF StateType
<1>2. Drop(relay, deferred)
  BY DEF JoinServer
<1>3. /\ connected' \subseteq Session /\ deferred' \in Seq(Calls)
      /\ status' \in {"init", "connected", "failed", "disconnected"}
  BY <1>1, <1>2, DropType
<1>4. arming' \subseteq Session /\ relay' = {s}
  BY DEF JoinServer, StateType
<1>5. open' \subseteq Session
  BY DEF JoinServer, StateType, ClosedSockets
<1>6. op' \in [Session -> {"none", "connecting", "accepted", "refused", "reading", "broken"}]
  BY DEF JoinServer, StateType
<1>7. endpoint' \in [Session -> 1 .. Endpoint]
  BY DEF JoinServer, StateType
<1>8. deadline' \in [Session -> {"none", "unarmed", "waiting", "expired"}]
  BY DEF JoinServer, StateType
<1> QED BY <1>3, <1>4, <1>5, <1>6, <1>7, <1>8 DEF StateType

LEMMA MainType ==
  ASSUME StateType, NEW s \in Session,
         ArmDeadline(s) \/ Reconnect(s) \/ RequestJoinServer(s) \/ Environment(s)
  PROVE  StateType'
<1>1. CASE ArmDeadline(s)
  BY <1>1 DEF StateType, ArmDeadline, manager, user
<1>2. CASE Reconnect(s)
  <2>1. CASE IsConnected \/ IsConnecting
    BY <1>2, <2>1 DEF StateType, Reconnect, sessions
  <2>2. CASE ~(IsConnected \/ IsConnecting)
    BY <1>2, <2>2, JoinType DEF StateType, Reconnect
  <2> QED BY <2>1, <2>2
<1>3. CASE RequestJoinServer(s)
  <2>1. JoinServer(s) /\ UNCHANGED <<timers, io>> /\ retryServerReconnectCount' = 0
    BY <1>3 DEF RequestJoinServer
  <2>2. gestures' \in 0 .. MaxGesture
    BY <1>3, ClientConnectionAssumption DEF StateType, RequestJoinServer, Gesture
  <2>3. timers' \in Nat /\ retryServerReconnectCount' \in Nat
    BY <2>1 DEF StateType
  <2> QED BY <2>1, <2>2, <2>3, JoinType
<1>4. CASE Environment(s)
  BY <1>4 DEF StateType, Environment, ServerAnswers, ConnectionBreaks, DeadlineExpires,
              manager, threads, user
<1> QED BY <1>1, <1>2, <1>3, <1>4

LEMMA CloseType == ASSUME StateType, CloseSession PROVE StateType'
<1>1. relay \in SUBSET Session /\ deferred \in Seq(Calls) /\ Drop(relay, deferred)
  BY DEF StateType, CloseSession
<1>2. /\ connected' \subseteq Session /\ deferred' \in Seq(Calls)
      /\ status' \in {"init", "connected", "failed", "disconnected"}
  BY <1>1, DropType
<1> QED BY <1>2, ClientConnectionAssumption
        DEF StateType, CloseSession, Gesture, ClosedSockets, threads

LEMMA DeferredType == ASSUME StateType, RunDeferred PROVE StateType'
<1> DEFINE call == Head(deferred)
           old == IF call.does = "remove" THEN Removed(call.of) ELSE {}
<1>1. /\ call \in Calls /\ Tail(deferred) \in Seq(Calls) /\ old \subseteq Session
      /\ relay' = relay \ old /\ open' = ClosedSockets(old)
  BY HeadType, FieldType DEF StateType, RunDeferred, Removed
<1>2. /\ connected' \subseteq Session /\ deferred' \in Seq(Calls)
      /\ status' \in {"init", "connected", "failed", "disconnected"}
  <2>1. CASE call.does = "remove"
    <3>1. Drop(old, Tail(deferred))
      BY <2>1 DEF RunDeferred
    <3> QED BY <1>1, <3>1, DropType
  <2>2. CASE call.does # "remove"
    BY <1>1, <2>2, FieldType DEF RunDeferred, Show, StateType
  <2> QED BY <2>1, <2>2
<1>3. relay' = {} \/ \E s \in Session : relay' = {s}
  BY <1>1 DEF StateType
<1>4. open' \subseteq Session
  BY <1>1 DEF StateType, ClosedSockets
<1> QED BY <1>2, <1>3, <1>4 DEF StateType, RunDeferred, threads, user

LEMMA NextType == StateType /\ [Next]_vars => StateType'
<1> SUFFICES ASSUME StateType, [Next]_vars PROVE StateType'
  OBVIOUS
<1>1. CASE \E s \in Session : Client(s) \/ Environment(s) \/ RequestJoinServer(s)
  BY <1>1, IOType, MainType DEF Client
<1>2. CASE RunDeferred \/ CloseSession
  BY <1>2, DeferredType, CloseType
<1>3. CASE UNCHANGED vars
  BY <1>3 DEF StateType, vars, sessions, manager, threads, user
<1> QED BY <1>1, <1>2, <1>3 DEF Next

LEMMA FlagsNext == FlagType /\ [Next]_vars => FlagType'
<1> SUFFICES ASSUME FlagType, [Next]_vars PROVE FlagType'
  OBVIOUS
<1>0. wanted \in BOOLEAN /\ unresolved \in BOOLEAN /\ late \in BOOLEAN
  BY DEF FlagType
<1>1. ASSUME NEW old, NEW calls, Drop(old, calls) PROVE late' \in BOOLEAN
  BY <1>0, <1>1, Zenon DEF Drop, Show
<1>2. ASSUME NEW s \in Session, JoinServer(s) PROVE late' \in BOOLEAN /\ unresolved' \in BOOLEAN
  BY <1>0, <1>1, <1>2, Zenon DEF JoinServer
<1>3. CASE \E s \in Session : IO(s)
  BY <1>0, <1>3, Zenon DEF IO, HandleNotConnected, HandleConnect, ConnectComplete,
     HandleReadFailed, HandleDeadline, CloseRest, user, FlagType
<1>4. CASE \E s \in Session : ArmDeadline(s) \/ Environment(s)
  BY <1>0, <1>4, Zenon DEF ArmDeadline, Environment, ServerAnswers, ConnectionBreaks,
     DeadlineExpires, user, FlagType
<1>5. CASE \E s \in Session : Reconnect(s)
  BY <1>0, <1>2, <1>5, Zenon DEF Reconnect, FlagType
<1>6. CASE \E s \in Session : RequestJoinServer(s)
  BY <1>0, <1>2, <1>6, Zenon DEF RequestJoinServer, FlagType
<1>7. CASE CloseSession
  BY <1>0, <1>1, <1>7, Zenon DEF CloseSession, FlagType
<1>8. CASE RunDeferred
  <2>1. late' \in BOOLEAN
    BY <1>0, <1>1, <1>8, Zenon DEF RunDeferred, Show
  <2> QED BY <1>0, <1>8, <2>1, Zenon DEF RunDeferred, user, FlagType
<1>9. CASE UNCHANGED vars
  BY <1>0, <1>9, Zenon DEF vars, user, FlagType
<1> QED BY <1>3, <1>4, <1>5, <1>6, <1>7, <1>8, <1>9 DEF Next, Client

LEMMA InitFlags == Init => FlagType
  BY DEF Init, FlagType

(* Every variable of the connection keeps its type, for any numbers of      *)
(* sessions, addresses, retries and gestures: no address is tried beyond    *)
(* the last one.                                                            *)
THEOREM ConnectionTypeCorrect == Spec => []TypeOK
  BY InitType, NextType, InitFlags, FlagsNext, PTL DEF Spec, TypeOK
-----------------------------------------------------------------------------
(* Forgotten connections.                                                   *)

LEMMA ForgottenNext == StateType /\ NoForgottenConnection /\ [Next]_vars => NoForgottenConnection'
<1> SUFFICES ASSUME StateType, NoForgottenConnection, [Next]_vars PROVE NoForgottenConnection'
  OBVIOUS
<1>1. ASSUME NEW s \in Session, IO(s) PROVE NoForgottenConnection'
  <2>1. CASE HandleNotConnected(s)
    BY <2>1 DEF HandleNotConnected, StartNext, StateType, NoForgottenConnection
  <2>2. CASE HandleConnect(s) \/ ConnectComplete(s)
    BY <2>2 DEF HandleConnect, ConnectComplete, NoForgottenConnection, sessions, manager
  <2>3. CASE HandleReadFailed(s) \/ HandleDeadline(s) \/ CloseRest(s)
    BY <2>3 DEF HandleReadFailed, HandleDeadline, CloseRest, NoForgottenConnection, manager
  <2> QED BY <1>1, <2>1, <2>2, <2>3 DEF IO
<1>2. ASSUME NEW s \in Session, JoinServer(s) PROVE NoForgottenConnection'
  BY <1>2 DEF JoinServer, ClosedSockets, StateType, NoForgottenConnection
<1>3. ASSUME NEW s \in Session, ArmDeadline(s) \/ Environment(s) PROVE NoForgottenConnection'
  BY <1>3 DEF ArmDeadline, Environment, ServerAnswers, ConnectionBreaks, DeadlineExpires,
     NoForgottenConnection, manager
<1>4. ASSUME NEW s \in Session, Reconnect(s) PROVE NoForgottenConnection'
  BY <1>2, <1>4 DEF Reconnect, sessions, NoForgottenConnection
<1>5. ASSUME NEW s \in Session, RequestJoinServer(s) PROVE NoForgottenConnection'
  BY <1>2, <1>5 DEF RequestJoinServer
<1>6. CASE CloseSession
  BY <1>6 DEF CloseSession, ClosedSockets, NoForgottenConnection
<1>7. CASE RunDeferred
  BY <1>7 DEF RunDeferred, ClosedSockets, NoForgottenConnection
<1>8. CASE UNCHANGED vars
  BY <1>8 DEF vars, sessions, manager, NoForgottenConnection
<1> QED BY <1>1, <1>3, <1>4, <1>5, <1>6, <1>7, <1>8 DEF Next, Client

(* Every connection that is open is the manager's own, or was made to a     *)
(* further address: closing a session while its first address is tried is   *)
(* the only way to leave one behind.                                        *)
THEOREM ForgottenTheorem == Spec => []NoForgottenConnection
<1>1. Init => NoForgottenConnection
  BY DEF Init, NoForgottenConnection
<1> QED BY <1>1, InitType, NextType, ForgottenNext, PTL DEF Spec

-----------------------------------------------------------------------------
(* Removals that were put off.                                              *)

(* What a handler has found out stays so until its next step.               *)
ClosingIsClosed == \A s \in Session : io = At("closing", s) => s \notin open
EstablishedIsAccepted == \A s \in Session : io = At("established", s) => op[s] = "accepted"

(* A connected session reads, until its read has failed and is handled.     *)
ConnectedReads ==
  \A s \in connected :
    op[s] \in {"reading", "broken"} \/ (op[s] = "none" /\ io = At("closing", s))

(* A session that waits for its removal will not be opened again.           *)
Waits(q, s) == \E i \in 1 .. Len(q) : q[i].does = "remove" /\ q[i].of = s

RemovedIsFinished ==
  \A s \in relay : Waits(deferred, s) =>
    s \notin open \cup connected /\ op[s] \in {"none", "reading", "broken"}

HandlerInv == ClosingIsClosed /\ EstablishedIsAccepted /\ ConnectedReads

LEMMA HandlerNext == StateType /\ HandlerInv /\ [Next]_vars => HandlerInv'
<1> SUFFICES ASSUME StateType, HandlerInv, [Next]_vars PROVE HandlerInv'
  OBVIOUS
<1> USE DEF HandlerInv, ClosingIsClosed, EstablishedIsAccepted, ConnectedReads
<1>1. ASSUME NEW s \in Session, IO(s) PROVE HandlerInv'
  <2>1. CASE HandleNotConnected(s)
    BY <2>1 DEF HandleNotConnected, Handles, StartNext, StateType, threads
  <2>2. CASE HandleConnect(s)
    BY <2>2 DEF HandleConnect, Handles, StateType, sessions
  <2>3. CASE ConnectComplete(s)
    BY <2>3 DEF ConnectComplete, StateType
  <2>4. CASE HandleReadFailed(s)
    BY <2>4 DEF HandleReadFailed, Handles, StateType
  <2>5. CASE HandleDeadline(s)
    BY <2>5 DEF HandleDeadline, Handles, StateType
  <2>6. CASE CloseRest(s)
    BY <2>6 DEF CloseRest, StateType
  <2> QED BY <1>1, <2>1, <2>2, <2>3, <2>4, <2>5, <2>6 DEF IO
<1>2. ASSUME NEW s \in Session, JoinServer(s), io' = io PROVE HandlerInv'
  <2>1. /\ s \notin open \cup connected \cup io.of
        /\ open' \subseteq open \cup {s} /\ connected' \subseteq connected
        /\ \A r \in Session \ {s} : op'[r] = op[r]
    BY <1>2 DEF JoinServer, Drop, Fresh, ClosedSockets, StateType
  <2>2. \A r \in Session : io = At("closing", r) \/ io = At("established", r) => r # s
    BY <2>1
  <2> QED BY <1>2, <2>1, <2>2 DEF StateType
<1>3. ASSUME NEW s \in Session, ArmDeadline(s) PROVE HandlerInv'
  BY <1>3 DEF ArmDeadline, manager
<1>4. ASSUME NEW s \in Session, Environment(s) PROVE HandlerInv'
  BY <1>4 DEF Environment, ServerAnswers, ConnectionBreaks, DeadlineExpires, StateType, threads
<1>5. ASSUME NEW s \in Session, Reconnect(s) PROVE HandlerInv'
  BY <1>2, <1>5 DEF Reconnect, sessions
<1>6. ASSUME NEW s \in Session, RequestJoinServer(s) PROVE HandlerInv'
  BY <1>2, <1>6 DEF RequestJoinServer
<1>7. CASE CloseSession
  BY <1>7 DEF CloseSession, Drop, ClosedSockets, threads
<1>8. CASE RunDeferred
  BY <1>8 DEF RunDeferred, Drop, ClosedSockets, threads
<1>9. CASE UNCHANGED vars
  BY <1>9 DEF vars, sessions, threads
<1> QED BY <1>1, <1>3, <1>4, <1>5, <1>6, <1>7, <1>8, <1>9 DEF Next, Client

(* Who waits for his removal in a longer or a shorter queue.                *)
LEMMA WaitsLonger ==
  ASSUME NEW q \in Seq(Calls), NEW c \in Calls, NEW s, Waits(Append(q, c), s)
  PROVE  Waits(q, s) \/ (c.does = "remove" /\ c.of = s)
  BY DEF Waits

LEMMA WaitsLongerByTwo ==
  ASSUME NEW q \in Seq(Calls), NEW c \in Calls, NEW d \in Calls, NEW s, Waits(q \o <<c, d>>, s)
  PROVE  Waits(q, s) \/ (c.does = "remove" /\ c.of = s) \/ (d.does = "remove" /\ d.of = s)
  BY DEF Waits

LEMMA WaitsShorter ==
  ASSUME NEW q \in Seq(Calls), q # <<>>, NEW s
  PROVE  /\ Waits(Tail(q), s) => Waits(q, s)
         /\ Head(q).does = "remove" /\ Head(q).of = s => Waits(q, s)
  BY DEF Waits

LEMMA CallFields == \A does, s : Call(does, s).does = does /\ Call(does, s).of = s
  BY DEF Call

(* A call that is no removal, and the removal of t, put last.               *)
LEMMA WaitsAfterNotice ==
  ASSUME NEW q \in Seq(Calls), NEW t \in Session, NEW s,
         NEW does \in {"connected", "failed", "disconnected"},
         Waits(Append(q, Call(does, t)), s)
  PROVE  Waits(q, s)
<1>1. Call(does, t) \in Calls /\ Call(does, t).does # "remove"
  BY CallType, CallFields
<1> QED BY <1>1, WaitsLonger

LEMMA WaitsAfterRemoval ==
  ASSUME NEW q \in Seq(Calls), NEW t \in Session, NEW s,
         Waits(Append(q, Call("remove", t)), s)
  PROVE  Waits(q, s) \/ s = t
<1>1. Call("remove", t) \in Calls /\ Call("remove", t).of = t
  BY CallType, CallFields
<1> QED BY <1>1, WaitsLonger

LEMMA WaitsAfterBoth ==
  ASSUME NEW q \in Seq(Calls), NEW t \in Session, NEW s,
         NEW does \in {"connected", "failed", "disconnected"},
         Waits(q \o <<Call(does, t), Call("remove", t)>>, s)
  PROVE  Waits(q, s) \/ s = t
<1>1. /\ Call("remove", t) \in Calls /\ Call("remove", t).of = t
      /\ Call(does, t) \in Calls /\ Call(does, t).of = t
  BY CallType, CallFields
<1> QED BY <1>1, WaitsLongerByTwo

LEMMA FinishedNext ==
  StateType /\ HandlerInv /\ RemovedIsFinished /\ [Next]_vars => RemovedIsFinished'
<1> SUFFICES ASSUME StateType, HandlerInv, RemovedIsFinished, [Next]_vars,
                    NEW s \in relay', Waits(deferred', s)
             PROVE  s \notin open' \cup connected' /\ op'[s] \in {"none", "reading", "broken"}
  BY DEF RemovedIsFinished
<1> DEFINE Finished == s \notin open \cup connected /\ op[s] \in {"none", "reading", "broken"}
           Finished1 == s \notin open' \cup connected' /\ op'[s] \in {"none", "reading", "broken"}
<1>0. deferred \in Seq(Calls) /\ relay \subseteq Session
  BY DEF StateType
<1>a. s \in relay /\ Waits(deferred, s) => Finished
  BY DEF RemovedIsFinished
<1>1. ASSUME NEW t \in Session, IO(t) PROVE Finished1
  <2>0. s \in relay
    BY <1>1 DEF IO, HandleNotConnected, HandleConnect, ConnectComplete, HandleReadFailed,
       HandleDeadline, CloseRest, manager
  <2>1. CASE HandleNotConnected(t)
    <3>1. op[t] \in {"connecting", "accepted", "refused"} /\ t \notin connected
      BY <2>1 DEF HandleNotConnected, HandlerInv, ConnectedReads, Handles, Idle, At
    <3>2. CASE HasNext(t)
      <4>1. Waits(deferred, s)
        BY <2>1, <3>2 DEF HandleNotConnected, StartNext
      <4> QED BY <1>a, <2>0, <2>1, <3>1, <3>2, <4>1 DEF HandleNotConnected, StartNext, StateType
    <3>3. CASE ~HasNext(t)
      <4>1. Waits(deferred, s) \/ s = t
        <5>1. deferred' = deferred \/ deferred' = deferred \o <<Call("failed", t), Call("remove", t)>>
          BY <2>1, <3>3 DEF HandleNotConnected, StartNext, OnConnectFailed
        <5> QED BY <1>0, <5>1, WaitsAfterBoth
      <4> QED BY <1>a, <2>0, <2>1, <3>1, <3>3, <4>1 DEF HandleNotConnected, StartNext, StateType
    <3> QED BY <3>2, <3>3
  <2>2. CASE HandleConnect(t)
    BY <1>a, <2>0, <2>2 DEF HandleConnect, sessions, manager
  <2>3. CASE ConnectComplete(t)
    <3>1. Waits(deferred, s)
      <4>1. deferred' = deferred \/ deferred' = Append(deferred, Call("connected", t))
        BY <2>3 DEF ConnectComplete, OnConnected
      <4> QED BY <1>0, <4>1, WaitsAfterNotice
    <3>2. op[t] = "accepted"
      BY <2>3 DEF ConnectComplete, HandlerInv, EstablishedIsAccepted
    <3> QED BY <1>a, <2>0, <2>3, <3>1, <3>2 DEF ConnectComplete, StateType
  <2>4. CASE HandleReadFailed(t)
    BY <1>a, <2>0, <2>4 DEF HandleReadFailed, manager, StateType
  <2>5. CASE HandleDeadline(t)
    BY <1>a, <2>0, <2>5 DEF HandleDeadline, manager, StateType
  <2>6. CASE CloseRest(t)
    <3>1. Waits(deferred, s) \/ (s = t /\ t \in connected)
      <4>1. \/ deferred' = deferred
            \/ t \in connected /\ deferred' = deferred \o <<Call("disconnected", t), Call("remove", t)>>
        BY <2>6 DEF CloseRest, OnDisconnected
      <4> QED BY <1>0, <4>1, WaitsAfterBoth
    <3>2. t \notin open /\ (t \in connected => op[t] \in {"none", "reading", "broken"})
      BY <2>6 DEF CloseRest, HandlerInv, ClosingIsClosed, ConnectedReads
    <3> QED BY <1>a, <2>0, <2>6, <3>1, <3>2 DEF CloseRest
  <2> QED BY <1>1, <2>1, <2>2, <2>3, <2>4, <2>5, <2>6 DEF IO
<1>2. ASSUME NEW t \in Session, JoinServer(t) PROVE FALSE
  <2>1. s = t /\ t \notin relay /\ ~Waits(deferred, t)
    BY <1>2 DEF JoinServer, Fresh, Waits
  <2>2. deferred' = deferred \/ \E r \in relay : deferred' = Append(deferred, Call("remove", r))
    BY <1>2 DEF JoinServer, Drop
  <2>3. ASSUME NEW r \in relay, deferred' = Append(deferred, Call("remove", r)) PROVE Waits(deferred, s)
    BY <1>0, <2>1, <2>3, WaitsAfterRemoval
  <2> QED BY <2>1, <2>2, <2>3
<1>3. ASSUME NEW t \in Session, ArmDeadline(t) PROVE Finished1
  BY <1>3, <1>a DEF ArmDeadline, manager
<1>4. ASSUME NEW t \in Session, Environment(t) PROVE Finished1
  BY <1>4, <1>a DEF Environment, ServerAnswers, ConnectionBreaks, DeadlineExpires, manager, StateType
<1>5. ASSUME NEW t \in Session, Reconnect(t) PROVE Finished1
  BY <1>2, <1>5, <1>a DEF Reconnect, sessions
<1>6. ASSUME NEW t \in Session, RequestJoinServer(t) PROVE Finished1
  BY <1>2, <1>6 DEF RequestJoinServer
<1>7. CASE CloseSession
  BY <1>7 DEF CloseSession
<1>8. CASE RunDeferred
  <2> DEFINE call == Head(deferred)
             old == IF call.does = "remove" THEN Removed(call.of) ELSE {}
  <2>1. /\ relay' = relay \ old /\ open' \subseteq open /\ connected' \subseteq connected /\ op' = op
        /\ deferred # <<>> /\ old \subseteq relay
    BY <1>8 DEF RunDeferred, ClosedSockets, Drop, Removed
  <2>2. deferred' = Tail(deferred) \/ \E r \in old : deferred' = Append(Tail(deferred), Call("remove", r))
    BY <1>8 DEF RunDeferred, Drop
  <2>3. Tail(deferred) \in Seq(Calls)
    BY <1>0, <2>1, HeadType
  <2> HIDE DEF old
  <2>4. Waits(Tail(deferred), s)
    <3>1. ASSUME NEW r \in old, deferred' = Append(Tail(deferred), Call("remove", r))
          PROVE  Waits(Tail(deferred), s)
      <4>1. r \in Session /\ s # r
        BY <1>0, <2>1
      <4> QED BY <2>3, <3>1, <4>1, WaitsAfterRemoval
    <3> QED BY <2>2, <3>1
  <2> QED BY <1>0, <1>a, <2>1, <2>4, WaitsShorter
<1>9. CASE UNCHANGED vars
  BY <1>9, <1>a DEF vars, sessions, manager
<1> QED BY <1>1, <1>3, <1>4, <1>5, <1>6, <1>7, <1>8, <1>9 DEF Next, Client

(* A removal that was put off takes away a finished session only: that its  *)
(* id is compared is enough, however the calls and the handlers interleave. *)
THEOREM RemovesFinishedTheorem == Spec => RemovesFinishedOnly
<1>1. Init => HandlerInv /\ RemovedIsFinished
  BY DEF Init, HandlerInv, ClosingIsClosed, EstablishedIsAccepted, ConnectedReads,
     RemovedIsFinished, Idle, At
<1>2. StateType /\ RemovedIsFinished /\ [Next]_vars
        => [\A s \in relay : RunDeferred /\ s \notin relay' => s \notin open]_vars
  <2> SUFFICES ASSUME StateType, RemovedIsFinished, NEW s \in relay, RunDeferred, s \notin relay'
               PROVE  s \notin open
    OBVIOUS
  <2>1. deferred # <<>> /\ Head(deferred).does = "remove" /\ Head(deferred).of = s
    BY DEF RunDeferred, Removed
  <2> QED BY <2>1, WaitsShorter DEF StateType, RemovedIsFinished
<1> QED BY <1>1, <1>2, InitType, NextType, HandlerNext, FinishedNext, PTL DEF Spec, RemovesFinishedOnly

-----------------------------------------------------------------------------
(* The status.                                                              *)

(* The last notice that waits decides what the window is going to show;     *)
(* without one, it shows what it will go on showing.                        *)
Quiet(q) == \A i \in 1 .. Len(q) : q[i].does = "remove"

LastNotice(q, c) ==
  /\ c.does # "remove"
  /\ \E i \in 1 .. Len(q) : q[i] = c /\ \A j \in i + 1 .. Len(q) : q[j].does = "remove"

NoticeIsTrue ==
  \A c \in Calls : LastNotice(deferred, c) =>
    IF c.does = "connected" THEN c.of \in relay => c.of \in connected ELSE relay \cap connected = {}

QuietIsTrue ==
  Quiet(deferred) =>
    /\ relay \cap connected # {} => status = "connected"
    /\ status = "connected" /\ ~late => relay \cap connected # {}

StatusInv == NoticeIsTrue /\ QuietIsTrue

LEMMA NoticeAppended ==
  ASSUME NEW q \in Seq(Calls), NEW c \in Calls, c.does # "remove"
  PROVE  ~Quiet(Append(q, c)) /\ \A d : LastNotice(Append(q, c), d) => d = c
  BY DEF Quiet, LastNotice

LEMMA RemovalAppended ==
  ASSUME NEW q \in Seq(Calls), NEW c \in Calls, c.does = "remove"
  PROVE  /\ Quiet(Append(q, c)) => Quiet(q)
         /\ \A d : LastNotice(Append(q, c), d) => LastNotice(q, d)
  BY DEF Quiet, LastNotice

LEMMA BothAppended ==
  ASSUME NEW q \in Seq(Calls), NEW c \in Calls, c.does # "remove", NEW r \in Calls, r.does = "remove"
  PROVE  ~Quiet(q \o <<c, r>>) /\ \A d : LastNotice(q \o <<c, r>>, d) => d = c
  BY DEF Quiet, LastNotice

LEMMA HeadTaken ==
  ASSUME NEW q \in Seq(Calls), q # <<>>
  PROVE  /\ \A d : LastNotice(Tail(q), d) => LastNotice(q, d)
         /\ Quiet(Tail(q)) => Quiet(q) \/ LastNotice(q, Head(q))
<1>1. /\ Len(Tail(q)) = Len(q) - 1 /\ Len(q) \in Nat \ {0} /\ q[1] = Head(q)
      /\ \A i \in 1 .. Len(Tail(q)) : Tail(q)[i] = q[i + 1]
  OBVIOUS
<1>2. ASSUME NEW d, LastNotice(Tail(q), d) PROVE LastNotice(q, d)
  <2>1. PICK i \in 1 .. Len(Tail(q)) :
          Tail(q)[i] = d /\ \A j \in i + 1 .. Len(Tail(q)) : Tail(q)[j].does = "remove"
    BY <1>2 DEF LastNotice
  <2>2. i + 1 \in 1 .. Len(q) /\ q[i + 1] = d
    BY <1>1, <2>1
  <2>3. ASSUME NEW j \in (i + 1) + 1 .. Len(q) PROVE q[j].does = "remove"
    <3>1. j - 1 \in i + 1 .. Len(Tail(q)) /\ j - 1 \in 1 .. Len(Tail(q)) /\ (j - 1) + 1 = j
      BY <1>1, <2>3
    <3> QED BY <1>1, <2>1, <3>1
  <2> QED BY <1>2, <2>2, <2>3 DEF LastNotice
<1>3. ASSUME Quiet(Tail(q)) PROVE \A j \in 2 .. Len(q) : q[j].does = "remove"
  <2> TAKE j \in 2 .. Len(q)
  <2>1. j - 1 \in 1 .. Len(Tail(q)) /\ (j - 1) + 1 = j
    BY <1>1
  <2> QED BY <1>1, <1>3, <2>1 DEF Quiet
<1>4. ASSUME Quiet(Tail(q)), ~Quiet(q) PROVE LastNotice(q, Head(q))
  <2>1. \A j \in 1 + 1 .. Len(q) : q[j].does = "remove"
    BY <1>3, <1>4
  <2>2. q[1].does # "remove"
    <3>1. PICK j \in 1 .. Len(q) : q[j].does # "remove"
      BY <1>4 DEF Quiet
    <3>2. j = 1
      BY <1>1, <2>1, <3>1
    <3> QED BY <3>1, <3>2
  <2>3. 1 \in 1 .. Len(q)
    BY <1>1
  <2> QED BY <1>1, <2>1, <2>2, <2>3 DEF LastNotice
<1> QED BY <1>2, <1>4

LEMMA StatusNext ==
  StateType /\ HandlerInv /\ RemovedIsFinished /\ StatusInv /\ [Next]_vars => StatusInv'
<1> SUFFICES ASSUME StateType, HandlerInv, RemovedIsFinished, StatusInv, [Next]_vars
             PROVE  StatusInv'
  OBVIOUS
<1>0. deferred \in Seq(Calls) /\ relay \subseteq Session
  BY DEF StateType
<1> USE DEF StatusInv
(* What does not disturb the queue or the status, and says the same of      *)
(* what is current and connected.                                           *)
<1>a. ASSUME UNCHANGED <<deferred, status, late>>, relay' \cap connected' = relay \cap connected,
             relay' \subseteq relay
      PROVE  StatusInv'
  BY <1>a DEF NoticeIsTrue, QuietIsTrue, Quiet, LastNotice
<1>1. ASSUME NEW t \in Session, IO(t) PROVE StatusInv'
  <2>0. UNCHANGED <<relay, status, late>>
    BY <1>1 DEF IO, HandleNotConnected, HandleConnect, ConnectComplete, HandleReadFailed,
       HandleDeadline, CloseRest, manager
  <2>1. CASE HandleNotConnected(t)
    <3>1. connected' = connected /\ t \notin connected
      BY <2>1 DEF HandleNotConnected, HandlerInv, ConnectedReads, Handles
    <3>2. CASE deferred' = deferred
      BY <1>a, <2>0, <3>1, <3>2
    <3>3. CASE t \in relay /\ deferred' = deferred \o <<Call("failed", t), Call("remove", t)>>
      <4>1. relay \cap connected = {}
        BY <3>1, <3>3 DEF StateType
      <4>2. /\ Call("failed", t) \in Calls /\ Call("failed", t).does = "failed"
            /\ Call("remove", t) \in Calls /\ Call("remove", t).does = "remove"
        BY CallType, CallFields
      <4>3. ~Quiet(deferred') /\ \A d : LastNotice(deferred', d) => d = Call("failed", t)
        BY <1>0, <3>3, <4>2, BothAppended
      <4> QED BY <2>0, <3>1, <4>1, <4>2, <4>3 DEF NoticeIsTrue, QuietIsTrue
    <3> QED BY <2>1, <3>2, <3>3 DEF HandleNotConnected, StartNext, OnConnectFailed
  <2>2. CASE HandleConnect(t)
    BY <1>a, <2>2 DEF HandleConnect, sessions, manager
  <2>3. CASE ConnectComplete(t)
    <3>1. connected' = connected \cup {t}
      BY <2>3 DEF ConnectComplete
    <3>2. CASE t \notin relay
      BY <1>a, <2>0, <2>3, <3>1, <3>2 DEF ConnectComplete, OnConnected
    <3>3. CASE t \in relay
      <4>1. deferred' = Append(deferred, Call("connected", t))
        BY <2>3, <3>3 DEF ConnectComplete, OnConnected
      <4>2. /\ Call("connected", t) \in Calls /\ Call("connected", t).does = "connected"
            /\ Call("connected", t).of = t
        BY CallType, CallFields
      <4>3. ~Quiet(deferred') /\ \A d : LastNotice(deferred', d) => d = Call("connected", t)
        BY <1>0, <4>1, <4>2, NoticeAppended
      <4> QED BY <3>1, <4>2, <4>3 DEF NoticeIsTrue, QuietIsTrue
    <3> QED BY <3>2, <3>3
  <2>4. CASE HandleReadFailed(t) \/ HandleDeadline(t)
    BY <1>a, <2>4 DEF HandleReadFailed, HandleDeadline, manager
  <2>5. CASE CloseRest(t)
    <3>1. connected' = connected \ {t}
      BY <2>5 DEF CloseRest
    <3>2. CASE deferred' = deferred /\ (t \notin connected \/ t \notin relay)
      BY <1>a, <2>0, <3>1, <3>2
    <3>3. CASE t \in relay /\ deferred' = deferred \o <<Call("disconnected", t), Call("remove", t)>>
      <4>1. relay' \cap connected' = {}
        BY <2>0, <3>1, <3>3 DEF StateType
      <4>2. /\ Call("disconnected", t) \in Calls /\ Call("disconnected", t).does = "disconnected"
            /\ Call("remove", t) \in Calls /\ Call("remove", t).does = "remove"
        BY CallType, CallFields
      <4>3. ~Quiet(deferred') /\ \A d : LastNotice(deferred', d) => d = Call("disconnected", t)
        BY <1>0, <3>3, <4>2, BothAppended
      <4> QED BY <4>1, <4>2, <4>3 DEF NoticeIsTrue, QuietIsTrue
    <3> QED BY <2>5, <3>2, <3>3 DEF CloseRest, OnDisconnected
  <2> QED BY <1>1, <2>1, <2>2, <2>3, <2>4, <2>5 DEF IO
(* The session in use is given up, and a new one is not yet connected.      *)
<1>2. ASSUME Drop(relay, deferred), relay' \cap connected' = {},
             \A s \in relay' : ~\E i \in 1 .. Len(deferred) : deferred[i].of = s
      PROVE  StatusInv'
  <2>1. CASE relay \cap connected = {} /\ deferred' = deferred /\ UNCHANGED <<status, late>>
    BY <1>2, <2>1 DEF NoticeIsTrue, QuietIsTrue, Quiet, LastNotice
  <2>2. ASSUME NEW s \in relay \cap connected, deferred' = Append(deferred, Call("remove", s)),
               status' = "disconnected"
        PROVE  StatusInv'
    <3>1. Call("remove", s) \in Calls /\ Call("remove", s).does = "remove"
      BY <1>0, CallType, CallFields
    <3>2. \A d : LastNotice(deferred', d) => LastNotice(deferred, d)
      BY <1>0, <2>2, <3>1, RemovalAppended
    <3>3. \A c \in Calls : LastNotice(deferred, c) => c.of \notin relay'
      BY <1>2 DEF LastNotice
    <3> QED BY <1>2, <2>2, <3>2, <3>3 DEF NoticeIsTrue, QuietIsTrue
  <2> QED BY <1>2, <2>1, <2>2 DEF Drop, Show
<1>3. ASSUME NEW t \in Session, JoinServer(t) PROVE StatusInv'
  <2>1. /\ Drop(relay, deferred) /\ relay' = {t} /\ t \notin connected
        /\ \A i \in 1 .. Len(deferred) : deferred[i].of # t
    BY <1>3 DEF JoinServer, Fresh
  <2>2. connected' \subseteq connected
    BY <2>1 DEF Drop
  <2> QED BY <1>2, <2>1, <2>2
<1>4. ASSUME NEW t \in Session, ArmDeadline(t) \/ Environment(t) PROVE StatusInv'
  BY <1>4, <1>a DEF ArmDeadline, Environment, ServerAnswers, ConnectionBreaks, DeadlineExpires,
     manager, user
<1>5. ASSUME NEW t \in Session, Reconnect(t) PROVE StatusInv'
  BY <1>3, <1>5, <1>a DEF Reconnect, sessions
<1>6. ASSUME NEW t \in Session, RequestJoinServer(t) PROVE StatusInv'
  BY <1>3, <1>6 DEF RequestJoinServer
<1>7. CASE CloseSession
  BY <1>2, <1>7 DEF CloseSession
<1>8. CASE RunDeferred
  <2> DEFINE call == Head(deferred)
  <2>0. deferred # <<>> /\ call \in Calls /\ Tail(deferred) \in Seq(Calls)
    BY <1>0, <1>8, HeadType DEF RunDeferred
  <2>1. /\ \A d : LastNotice(Tail(deferred), d) => LastNotice(deferred, d)
        /\ Quiet(Tail(deferred)) => Quiet(deferred) \/ LastNotice(deferred, call)
    BY <1>0, <2>0, HeadTaken
  <2>2. CASE call.does = "remove"
    <3>1. Removed(call.of) \cap connected = {}
      BY <1>0, <2>0, <2>2, WaitsShorter DEF Removed, RemovedIsFinished
    <3>2. /\ relay' = relay \ Removed(call.of) /\ connected' = connected \ Removed(call.of)
          /\ deferred' = Tail(deferred) /\ UNCHANGED <<status, late>>
      BY <1>8, <2>2, <3>1 DEF RunDeferred, Drop
    <3>3. ~LastNotice(deferred, call)
      BY <2>2 DEF LastNotice
    <3>4. relay' \cap connected' = relay \cap connected
      BY <3>1, <3>2
    <3>5. NoticeIsTrue'
      BY <2>1, <3>1, <3>2, <3>4 DEF NoticeIsTrue
    <3>6. QuietIsTrue'
      BY <2>1, <3>2, <3>3, <3>4 DEF QuietIsTrue
    <3> QED BY <3>5, <3>6
  <2>3. CASE call.does # "remove"
    <3>1. /\ relay' = relay /\ connected' = connected /\ deferred' = Tail(deferred)
          /\ status' = call.does /\ late' = (call.does = "connected" /\ call.of \notin relay)
      BY <1>8, <2>3 DEF RunDeferred, Show
    <3>2. NoticeIsTrue'
      BY <2>1, <3>1 DEF NoticeIsTrue
    <3>3. ~Quiet(deferred)
      BY <1>0, <2>0, <2>3 DEF Quiet
    <3>4. ASSUME Quiet(deferred') PROVE LastNotice(deferred, call)
      BY <2>1, <3>1, <3>3, <3>4
    <3>5. ASSUME Quiet(deferred') PROVE relay \cap connected # {} => call.does = "connected"
      BY <2>0, <3>4, <3>5 DEF NoticeIsTrue
    <3>6. ASSUME Quiet(deferred'), call.does = "connected", call.of \in relay
          PROVE  relay \cap connected # {}
      BY <2>0, <3>4, <3>6 DEF NoticeIsTrue
    <3>7. QuietIsTrue'
      <4> HIDE DEF call
      <4> QED BY <3>1, <3>5, <3>6, Zenon DEF QuietIsTrue
    <3> QED BY <3>2, <3>7
  <2> QED BY <2>2, <2>3
<1>9. CASE UNCHANGED vars
  BY <1>9, <1>a DEF vars, sessions, manager, user
<1> QED BY <1>1, <1>3, <1>4, <1>5, <1>6, <1>7, <1>8, <1>9 DEF Next, Client

(* At rest the window shows the connection as it is: notices are run in the *)
(* order of the events, the last one of them tells the truth, and whoever   *)
(* is taken away on the main thread is announced at once.                   *)
THEOREM StatusTheorem == Spec => []StatusIsTrue
<1>1. Init => HandlerInv /\ RemovedIsFinished /\ StatusInv
  BY DEF Init, HandlerInv, ClosingIsClosed, EstablishedIsAccepted, ConnectedReads,
     RemovedIsFinished, StatusInv, NoticeIsTrue, QuietIsTrue, Quiet, LastNotice
<1>2. StateType /\ HandlerInv /\ StatusInv => StatusIsTrue
  <2> SUFFICES ASSUME StateType, HandlerInv, StatusInv, AtRest
               PROVE  /\ IsConnected => status = "connected"
                      /\ status = "connected" /\ ~late => IsConnected
    BY DEF StatusIsTrue
  <2>1. Quiet(deferred)
    BY DEF AtRest, Quiet
  <2>2. \A s \in relay \cap connected : s \in open
    BY DEF AtRest, HandlerInv, ConnectedReads, StateType
  <2> QED BY <2>1, <2>2 DEF StatusInv, QuietIsTrue, IsConnected, Connected
<1> QED BY <1>1, <1>2, InitType, NextType, HandlerNext, FinishedNext, StatusNext, PTL DEF Spec
=============================================================================
