-------------------------- MODULE ClientConnection --------------------------
(***************************************************************************)
(* The client's connection to the relay server: the sessions that are set  *)
(* up, connected, lost and given up, the deadline of a connection attempt, *)
(* the retries, and the status that the window shows.                      *)
(*                                                                         *)
(* Two threads take turns.  The IO thread runs the handlers of sockets and *)
(* deadlines, one at a time, in the steps between which the main thread    *)
(* can act; the main thread runs gestures, deferred calls and the timers   *)
(* of retries, whole but for the end of connect.  A session object lives   *)
(* as long as a handler of its own is outstanding; its CPaintSession, which *)
(* passes its events on, as long as it is relayServerSession_.             *)
(***************************************************************************)
EXTENDS Integers, Sequences, FiniteSets

CONSTANTS
  Session,    \* names for the sessions that exist at a time
  Endpoint,   \* number of addresses that the server's name resolves to
  MaxRetry,   \* DEFAULT_RECONNECT_TRY_COUNT
  MaxGesture  \* bound: joins and closes ever asked for by the user

ASSUME ClientConnectionAssumption ==
  /\ IsFiniteSet(Session)
  /\ Endpoint \in Nat \ {0}
  /\ MaxRetry \in Nat /\ MaxGesture \in Nat

VARIABLES
  (* the sessions *)
  open,       \* those whose socket is open
  connected,  \* those with connected_
  op,         \* their outstanding operation on the socket, and its outcome
  endpoint,   \* the address that is tried or connected to
  deadline,   \* the wait for their deadline
  (* the manager *)
  relay,      \* relayServerSession_, as a set of at most one session
  retryServerReconnectCount,
  timers,     \* number of retries set up
  deferred,   \* calls waiting for the main thread
  status,     \* what the window shows
  (* the threads *)
  io,         \* where the IO thread is between two steps of a handler
  arming,     \* the session whose connect has not returned yet
  (* auxiliary *)
  gestures,   \* number of gestures so far
  wanted,     \* the user has asked for a connection and not closed it
  unresolved, \* the server's name did not resolve when last looked up
  late        \* the status was set by a session that was no longer current

sessions == <<open, connected, op, endpoint, deadline>>
manager == <<relay, retryServerReconnectCount, timers, deferred>>
threads == <<io, arming>>
user == <<gestures, wanted, unresolved>>
vars == <<sessions, manager, status, threads, user, late>>

At(place, s) == [at |-> place, of |-> {s}]
Idle == [at |-> "idle", of |-> {}]

Call(does, s) == [does |-> does, of |-> s]
Calls == [does : {"connected", "failed", "disconnected", "remove"}, of : Session]

StateType ==
  /\ open \subseteq Session /\ connected \subseteq Session
  /\ op \in [Session -> {"none", "connecting", "accepted", "refused", "reading", "broken"}]
  /\ endpoint \in [Session -> 1 .. Endpoint]
  /\ deadline \in [Session -> {"none", "unarmed", "waiting", "expired"}]
  /\ relay = {} \/ \E s \in Session : relay = {s}
  /\ retryServerReconnectCount \in Nat /\ timers \in Nat
  /\ deferred \in Seq(Calls)
  /\ status \in {"init", "connected", "failed", "disconnected"}
  /\ io = Idle \/ \E s \in Session : io = At("established", s) \/ io = At("closing", s)
  /\ arming \subseteq Session
  /\ gestures \in 0 .. MaxGesture

FlagType == {wanted, unresolved, late} \subseteq BOOLEAN

TypeOK == StateType /\ FlagType

Init ==
  /\ open = {} /\ connected = {}
  /\ op = [s \in Session |-> "none"]
  /\ endpoint = [s \in Session |-> 1]
  /\ deadline = [s \in Session |-> "none"]
  /\ relay = {} /\ retryServerReconnectCount = 0 /\ timers = 0 /\ deferred = <<>>
  /\ status = "init"
  /\ io = Idle /\ arming = {}
  /\ gestures = 0 /\ wanted = FALSE /\ unresolved = FALSE /\ late = FALSE

Connected(s) == s \in open \cap connected
IsConnected == \E s \in relay : Connected(s)
IsConnecting == \E s \in relay : s \in open /\ s \notin connected

Show(st, isLate) == status' = st /\ late' = isLate

-----------------------------------------------------------------------------
(* Events of a session, which its CPaintSession passes on to the manager.   *)

(* Mutant: one retry less is set up.                                        *)
TryReconnectOneLess(s) ==
  IF s \in relay
  THEN /\ retryServerReconnectCount' = retryServerReconnectCount + 1
       /\ timers' = IF retryServerReconnectCount + 1 < MaxRetry THEN timers + 1 ELSE timers
  ELSE UNCHANGED <<retryServerReconnectCount, timers>>

(* tryReconnectToRelayServer.                                               *)
TryReconnect(s) ==
  IF s \in relay
  THEN /\ retryServerReconnectCount' = retryServerReconnectCount + 1
       /\ timers' = IF retryServerReconnectCount < MaxRetry THEN timers + 1 ELSE timers
  ELSE UNCHANGED <<retryServerReconnectCount, timers>>

(* Mutant: the window is not told.                                          *)
OnConnectedSilently(s) ==
  IF s \in relay
  THEN retryServerReconnectCount' = 0 /\ UNCHANGED <<timers, deferred>>
  ELSE UNCHANGED <<retryServerReconnectCount, timers, deferred>>

(* Connected, on the IO thread.                                             *)
OnConnected(s) ==
  IF s \in relay
  THEN /\ retryServerReconnectCount' = 0
       /\ deferred' = Append(deferred, Call("connected", s))
       /\ UNCHANGED timers
  ELSE UNCHANGED <<retryServerReconnectCount, timers, deferred>>

(* ConnectFailed, on the IO thread.                                         *)
OnConnectFailed(s) ==
  /\ TryReconnect(s)
  /\ IF s \in relay
     THEN deferred' = deferred \o <<Call("failed", s), Call("remove", s)>>
     ELSE UNCHANGED deferred

(* Disconnected, on the IO thread.                                          *)
OnDisconnected(s) ==
  /\ TryReconnect(s)
  /\ IF s \in relay
     THEN deferred' = deferred \o <<Call("disconnected", s), Call("remove", s)>>
     ELSE UNCHANGED deferred

-----------------------------------------------------------------------------
(* The IO thread.                                                           *)

Handles(s) == io = Idle /\ s \in Session

(* Mutant: one address too many.                                            *)
HasNextOrEnd(s) == endpoint[s] <= Endpoint

HasNext(s) == endpoint[s] < Endpoint

(* The next address is tried, or there is none: the event, then close.      *)
StartNext(s) ==
  IF HasNext(s)
  THEN /\ endpoint' = [endpoint EXCEPT ![s] = @ + 1]
       /\ op' = [op EXCEPT ![s] = "connecting"]
       /\ open' = open \cup {s}
       /\ deadline' = [deadline EXCEPT ![s] = IF @ = "unarmed" THEN @ ELSE "none"]
       /\ UNCHANGED <<retryServerReconnectCount, timers, deferred>>
  ELSE /\ OnConnectFailed(s)
       /\ op' = [op EXCEPT ![s] = "none"]
       /\ open' = open \ {s}
       /\ UNCHANGED <<endpoint, deadline>>

(* _handle_connect: the socket was closed meanwhile, or it failed.          *)
HandleNotConnected(s) ==
  /\ Handles(s)
  /\ \/ op[s] = "refused"
     \/ op[s] \in {"connecting", "accepted"} /\ s \notin open
  /\ StartNext(s)
  /\ UNCHANGED <<connected, relay, status, threads, user, late>>

(* _handle_connect: success; its first half ends with the test.             *)
HandleConnect(s) ==
  /\ Handles(s)
  /\ op[s] = "accepted" /\ s \in open
  /\ io' = At("established", s)
  /\ UNCHANGED <<sessions, manager, status, arming, user, late>>

(* _connect_complete: cancelling reaches a wait, not a handler that waits   *)
(* to be run, and not a wait that is still to come.                         *)
ConnectComplete(s) ==
  /\ io = At("established", s)
  /\ io' = Idle
  /\ connected' = connected \cup {s}
  /\ deadline' = [deadline EXCEPT ![s] = IF @ = "waiting" THEN "none" ELSE @]
  /\ OnConnected(s)
  /\ op' = [op EXCEPT ![s] = "reading"]
  /\ UNCHANGED <<open, endpoint, relay, status, arming, user, late>>

(* close, its first half, by the handler of a read that failed...           *)
HandleReadFailed(s) ==
  /\ Handles(s)
  /\ \/ op[s] = "broken"
     \/ op[s] = "reading" /\ s \notin open
  /\ op' = [op EXCEPT ![s] = "none"]
  /\ open' = open \ {s}
  /\ io' = At("closing", s)
  /\ UNCHANGED <<connected, endpoint, deadline, manager, status, arming, user, late>>

(* ...or by the handler of the deadline.                                    *)
HandleDeadline(s) ==
  /\ Handles(s)
  /\ deadline[s] = "expired"
  /\ deadline' = [deadline EXCEPT ![s] = "none"]
  /\ open' = open \ {s}
  /\ io' = At("closing", s)
  /\ UNCHANGED <<connected, op, endpoint, manager, status, arming, user, late>>

(* close, its second half.                                                  *)
CloseRest(s) ==
  /\ io = At("closing", s)
  /\ io' = Idle
  /\ connected' = connected \ {s}
  /\ IF s \in connected THEN OnDisconnected(s)
     ELSE UNCHANGED <<retryServerReconnectCount, timers, deferred>>
  /\ UNCHANGED <<open, op, endpoint, deadline, relay, status, arming, user, late>>

IO(s) ==
  \/ HandleNotConnected(s) \/ HandleConnect(s) \/ ConnectComplete(s)
  \/ HandleReadFailed(s) \/ HandleDeadline(s) \/ CloseRest(s)

-----------------------------------------------------------------------------
(* The network and the clock.                                               *)

ServerAnswers(s) ==
  /\ op[s] = "connecting" /\ s \in open
  /\ \E outcome \in {"accepted", "refused"} : op' = [op EXCEPT ![s] = outcome]
  /\ UNCHANGED <<open, connected, endpoint, deadline, manager, status, threads, user, late>>

ConnectionBreaks(s) ==
  /\ op[s] = "reading" /\ s \in open
  /\ op' = [op EXCEPT ![s] = "broken"]
  /\ UNCHANGED <<open, connected, endpoint, deadline, manager, status, threads, user, late>>

DeadlineExpires(s) ==
  /\ deadline[s] = "waiting"
  /\ deadline' = [deadline EXCEPT ![s] = "expired"]
  /\ UNCHANGED <<open, connected, op, endpoint, manager, status, threads, user, late>>

-----------------------------------------------------------------------------
(* The main thread.                                                         *)

(* Mutant: the socket is left open.                                         *)
LeftOpen(old) == open

ClosedSockets(old) == open \ old

(* The CPaintSession of old is destroyed, relayServerSession_ no longer     *)
(* being old: close, with its event on the main thread, which finds that    *)
(* the session is not the current one.  calls are those waiting before.     *)
Drop(old, calls) ==
  /\ connected' = connected \ old
  /\ \/ /\ old \cap connected = {}
        /\ deferred' = calls
        /\ UNCHANGED <<status, late>>
     \/ \E s \in old \cap connected :
          /\ deferred' = Append(calls, Call("remove", s))
          /\ Show("disconnected", FALSE)

(* A name that nothing refers to any more.                                  *)
Fresh(s) ==
  /\ s \notin relay \cup open \cup connected \cup io.of \cup arming
  /\ op[s] = "none" /\ deadline[s] = "none"
  /\ \A i \in 1 .. Len(deferred) : deferred[i].of # s

(* _requestJoinServer: the new session replaces what there is; connect      *)
(* either starts to try the first address or throws.                        *)
JoinServer(s) ==
  /\ Fresh(s)
  /\ relay' = {s}
  /\ Drop(relay, deferred)
  /\ endpoint' = [endpoint EXCEPT ![s] = 1]
  /\ \/ /\ open' = ClosedSockets(relay) \cup {s}
        /\ op' = [op EXCEPT ![s] = "connecting"]
        /\ deadline' = [deadline EXCEPT ![s] = "unarmed"]
        /\ arming' = {s}
        /\ unresolved' = FALSE
     \/ /\ open' = ClosedSockets(relay)
        /\ unresolved' = TRUE
        /\ UNCHANGED <<op, deadline, arming>>

(* The end of connect: the wait for the deadline begins.                    *)
ArmDeadline(s) ==
  /\ s \in arming
  /\ arming' = {}
  /\ deadline' = [deadline EXCEPT ![s] = "waiting"]
  /\ UNCHANGED <<open, connected, op, endpoint, manager, status, io, user, late>>

Gesture == arming = {} /\ gestures < MaxGesture /\ gestures' = gestures + 1

(* requestJoinServer, with the close before it.                             *)
RequestJoinServer(s) ==
  /\ Gesture
  /\ retryServerReconnectCount' = 0
  /\ wanted' = TRUE
  /\ JoinServer(s)
  /\ UNCHANGED <<timers, io>>

(* closeSession: retries already set up stay.                               *)
CloseSession ==
  /\ Gesture
  /\ wanted' = FALSE
  /\ relay' = {}
  /\ Drop(relay, deferred)
  /\ open' = ClosedSockets(relay)
  /\ UNCHANGED <<op, endpoint, deadline, retryServerReconnectCount, timers, threads, unresolved>>

(* reconnect, when a retry is due.                                          *)
Reconnect(s) ==
  /\ arming = {} /\ timers > 0
  /\ timers' = timers - 1
  /\ IF IsConnected \/ IsConnecting
     THEN UNCHANGED <<sessions, relay, deferred, status, late, arming, unresolved>>
     ELSE JoinServer(s)
  /\ UNCHANGED <<retryServerReconnectCount, io, gestures, wanted>>

(* Mutant: whatever session there is is removed.                            *)
RemovedAny(s) == relay

(* _delayedRemoveSession compares the ids.                                  *)
Removed(s) == relay \cap {s}

RunDeferred ==
  /\ arming = {} /\ deferred # <<>>
  /\ LET call == Head(deferred)
         old == IF call.does = "remove" THEN Removed(call.of) ELSE {}
     IN  /\ relay' = relay \ old
         /\ open' = ClosedSockets(old)
         /\ IF call.does = "remove" THEN Drop(old, Tail(deferred))
            ELSE /\ Show(call.does, call.does = "connected" /\ call.of \notin relay)
                 /\ deferred' = Tail(deferred)
                 /\ UNCHANGED connected
  /\ UNCHANGED <<op, endpoint, deadline, retryServerReconnectCount, timers, threads, user>>

-----------------------------------------------------------------------------
Client(s) == IO(s) \/ ArmDeadline(s) \/ Reconnect(s)

Environment(s) == ServerAnswers(s) \/ ConnectionBreaks(s) \/ DeadlineExpires(s)

Next ==
  \/ \E s \in Session : Client(s) \/ Environment(s) \/ RequestJoinServer(s)
  \/ RunDeferred \/ CloseSession

(* Both threads go on, retries and deadlines come due, and attempts to      *)
(* connect come to an end; connections need not break.                      *)
Fairness ==
  /\ WF_vars(RunDeferred)
  /\ WF_vars(\E s \in Session : Reconnect(s))
  /\ \A s \in Session :
       /\ WF_vars(IO(s)) /\ WF_vars(ArmDeadline(s))
       /\ WF_vars(ServerAnswers(s)) /\ WF_vars(DeadlineExpires(s))

Spec == Init /\ [][Next]_vars /\ Fairness

-----------------------------------------------------------------------------
AtRest ==
  /\ io = Idle /\ arming = {} /\ deferred = <<>>
  /\ \A s \in Session : op[s] \in {"none", "reading"} /\ (op[s] = "reading" => s \in open)

(* At rest the window shows the connection as it is, however losses,        *)
(* failures, retries and the user's own closing and joining overlapped;     *)
(* but for the notice of a connection that was run after the user had       *)
(* closed that connection: fireObserver_Connected ignores the session's id. *)
StatusIsTrue ==
  AtRest =>
    /\ IsConnected => status = "connected"
    /\ status = "connected" /\ ~late => IsConnected

(* No connection stays open that the manager does not hold, except one that *)
(* was closed while its first address was tried: the handler then tries the *)
(* next address, as if the deadline had expired.                            *)
NoForgottenConnection ==
  \A s \in open : s \in relay \/ endpoint[s] > 1

(* A removal that was put off never takes away a session that is connected  *)
(* or being connected, though another may have become the current one since.*)
RemovesFinishedOnly ==
  [][\A s \in relay : RunDeferred /\ s \notin relay' => s \notin open]_vars

(* A connection that is lost or could not be made is made in the end, or    *)
(* the retries are used up, unless the user closes it or the server's name  *)
(* does not resolve: then no event is fired, and nothing is tried again.    *)
LossIsRepaired ==
  wanted /\ ~IsConnected ~>
    IsConnected \/ ~wanted \/ unresolved \/ retryServerReconnectCount > MaxRetry
=============================================================================
