---------------------------- MODULE PaintSharing ----------------------------
(***************************************************************************)
(* Several clients share a painting through the relay server: what their   *)
(* IO threads and main threads do to the items and the history of each,    *)
(* the packets between them, and the synchronisation of a user who joins.  *)
(*                                                                         *)
(* Creations and tasks that arrive are carried out at once by the IO       *)
(* thread; clears, and the start and the end of a synchronisation, are     *)
(* deferred to the main thread (CDefferedCaller, module DeferredCaller,    *)
(* shows that they run there in order).                                    *)
(*                                                                         *)
(* A connection is a sequence of packets in either direction, and the      *)
(* server handles one packet at a time; its own interleavings are those of *)
(* module RelayRoom.  Every task carries a number of its own, so that      *)
(* histories can be compared; what a task does to an item is the matter of *)
(* module PaintCanvas.                                                     *)
(***************************************************************************)
EXTENDS Integers, Sequences, FiniteSets, SequencesExt

CONSTANTS
  User,      \* user ids
  Member,    \* users who are in the room to begin with
  MaxTask,   \* bound: tasks ever made
  MaxClear,  \* bound: clears ever made
  MaxBreak,  \* bound: connections ever lost
  MaxJoin    \* bound: joins ever asked for, automatic ones not counted

ASSUME PaintSharingAssumption ==
  /\ IsFiniteSet(User) /\ Member \subseteq User
  /\ {MaxTask, MaxClear, MaxBreak, MaxJoin} \subseteq Nat
  /\ MaxTask > 0    \* the members have painted something

Key == User \X (1 .. MaxTask)               \* an item's owner and its id
Task == [key : Key, no : 1 .. MaxTask]

(***************************************************************************)
(* Packets.  Those with a target are addressed to one user, the others     *)
(* are cast to the room; join and syncRequest are for the server.  The     *)
(* packets of one synchronisation that bring the items and the tasks are   *)
(* taken together.  whole is auxiliary, see below.                         *)
(***************************************************************************)
Edit == [type : {"create"}, key : Key] \cup [type : {"task"}, task : Task]
Clearing == [type : {"clear"}]
SyncPacket ==
  [type : {"start"}, target : User, runner : User]
    \cup [type : {"data"}, target : User, items : SUBSET Key, tasks : Seq(Task)]
    \cup [type : {"complete"}, target : User, whole : BOOLEAN]
ToServer == [type : {"join", "syncRequest", "left"}] \cup Edit \cup Clearing \cup SyncPacket
FromServer ==
  [type : {"resJoin"}, first : BOOLEAN] \cup [type : {"runSync"}, target : User]
    \cup Edit \cup Clearing \cup SyncPacket

VARIABLES
  (* each user's client *)
  items,             \* historyItemSet_
  tasks,             \* historyTaskList_
  enabled,           \* enabled_
  syncStartedFlag,   \* syncStartedFlag_
  deferred,          \* the calls waiting for the main thread
  serializing,       \* the synchronisation its IO thread is writing, if any
  (* the connections and the server *)
  connected,         \* users with an open connection
  up,                \* packets on their way to the server, per user
  down,              \* packets on their way from the server, per user
  room,              \* the users in the server's room
  (* auxiliary *)
  made,              \* numbers of tasks, clears, breaks and joins so far
  whole,             \* users who began the painting, or were synchronised on
                     \* the connection they asked on, by one who had it whole
  crossed,           \* a clear met edits on their way, or was overtaken
  runner,            \* who began to synchronise the user on this connection
  broken,            \* users who lost a connection
  strayed            \* users who lost one before they had the painting whole:
                     \* what they asked for on it may still reach the next

client == <<items, tasks, enabled, syncStartedFlag, deferred, serializing>>
net == <<connected, up, down, room>>
aux == <<made, whole, crossed, runner, broken, strayed>>
vars == <<client, net, aux>>

None == [target |-> {}, items |-> {}]     \* no synchronisation being written

TypeOK ==
  /\ items \in [User -> SUBSET Key]
  /\ tasks \in [User -> Seq(Task)]
  /\ enabled \in [User -> BOOLEAN]
  /\ syncStartedFlag \in [User -> BOOLEAN]
  /\ deferred \in [User -> Seq({"clear", "start", "complete"})]
  /\ serializing \in [User -> [target : {{}} \cup {{u} : u \in User}, items : SUBSET Key]]
  /\ connected \subseteq User /\ room \subseteq User
  /\ up \in [User -> Seq(ToServer)]
  /\ down \in [User -> Seq(FromServer)]
  /\ made \in [{"task", "clear", "break", "join"} -> Nat]
  /\ whole \subseteq User /\ broken \subseteq User /\ strayed \subseteq User
  /\ crossed \in BOOLEAN
  /\ runner \in [User -> SUBSET User]

(* The members have already shared one item, painted by one of them.        *)
Painted == {[key |-> <<u, 1>>, no |-> 1] : u \in Member}
FirstTask == IF Painted = {} THEN <<>> ELSE <<CHOOSE t \in Painted : TRUE>>

Init ==
  /\ items = [u \in User |-> IF u \in Member THEN {t.key : t \in Range(FirstTask)} ELSE {}]
  /\ tasks = [u \in User |-> IF u \in Member THEN FirstTask ELSE <<>>]
  /\ enabled = [u \in User |-> TRUE]
  /\ syncStartedFlag = [u \in User |-> FALSE]
  /\ deferred = [u \in User |-> <<>>]
  /\ serializing = [u \in User |-> None]
  /\ connected = Member /\ room = Member
  /\ up = [u \in User |-> <<>>] /\ down = [u \in User |-> <<>>]
  /\ made = [k \in {"task", "clear", "break", "join"} |->
              IF k = "task" THEN Len(FirstTask) ELSE 0]
  /\ whole = Member /\ broken = {} /\ strayed = {} /\ crossed = FALSE
  /\ runner = [u \in User |-> {}]

Count(k, max) == made[k] < max /\ made' = [made EXCEPT ![k] = @ + 1]

-----------------------------------------------------------------------------
(* When a clear gets in the way of an edit.                                 *)
Holds(s, types) == \E i \in 1 .. Len(s) : s[i].type \in types

(* Packets of these types that were sent before u could know of them.       *)
Coming(u, types) ==
  Holds(down[u], types) \/ \E v \in User \ {u} : Holds(up[v], types)

EditTypes == {"create", "task", "data"}

ClearDeferred(u) == "clear" \in Range(deferred[u])
ClearAhead(u) == ClearDeferred(u) \/ Coming(u, {"clear"})

(* Some client is between reading its items and sending them.               *)
Serializing == \E u \in User : serializing[u] # None

-----------------------------------------------------------------------------
(* A client's gestures, on its main thread.                                 *)

(* sendDataToUsers: only connected sessions are written to.                 *)
Sent(u, packets) ==
  up' = IF u \in connected THEN [up EXCEPT ![u] = @ \o packets] ELSE up

Record(u, t) == tasks' = [tasks EXCEPT ![u] = Append(@, t)]

(* Mutant: the creation is not sent.                                        *)
AddPacketsWithoutItem(k, t) == <<[type |-> "task", task |-> t]>>

AddPackets(k, t) ==
  <<[type |-> "create", key |-> k], [type |-> "task", task |-> t]>>

(* Mutant: ids count from 0.                                                *)
NextKeyFromZero(u) == <<u, Cardinality(items[u])>>

(* generateItemId: the number of known items of all painters, plus one.     *)
NextKey(u) == <<u, Cardinality(items[u]) + 1>>

(* addPaintItem: the item is sent, known, and its task made and sent.       *)
AddItem(u) ==
  LET k == NextKey(u)
      t == [key |-> k, no |-> made["task"] + 1]
  IN  /\ enabled[u]
      /\ Count("task", MaxTask)
      /\ items' = [items EXCEPT ![u] = @ \cup {k}]
      /\ Record(u, t)
      /\ Sent(u, AddPackets(k, t))
      /\ crossed' = (crossed \/ ClearAhead(u))
      /\ UNCHANGED <<enabled, syncStartedFlag, deferred, serializing, connected,
                     down, room, whole, runner, broken, strayed>>

(* An item is moved, updated or removed.                                    *)
EditItem(u, k) ==
  LET t == [key |-> k, no |-> made["task"] + 1]
  IN  /\ enabled[u] /\ k \in items[u]
      /\ Count("task", MaxTask)
      /\ Record(u, t)
      /\ Sent(u, <<[type |-> "task", task |-> t]>>)
      /\ crossed' = (crossed \/ ClearAhead(u))
      /\ UNCHANGED <<items, enabled, syncStartedFlag, deferred, serializing,
                     connected, down, room, whole, runner, broken, strayed>>

(* clearScreen: peers are told, and the own screen is cleared at once.      *)
ClearScreen(u) ==
  /\ Count("clear", MaxClear)
  /\ Sent(u, <<[type |-> "clear"]>>)
  /\ items' = [items EXCEPT ![u] = {}]
  /\ tasks' = [tasks EXCEPT ![u] = <<>>]
  /\ crossed' = (crossed \/ Coming(u, EditTypes) \/ Serializing)
  /\ UNCHANGED <<enabled, syncStartedFlag, deferred, serializing, connected,
                 down, room, whole, runner, broken, strayed>>

-----------------------------------------------------------------------------
(* Connections.                                                             *)

(* A session to the server is connected and sends the user's JOIN.  The     *)
(* server has noticed the end of his previous connection.                   *)
Connect(u) ==
  /\ u \notin connected /\ u \notin room /\ up[u] = <<>>
  /\ connected' = connected \cup {u}
  /\ up' = [up EXCEPT ![u] = <<[type |-> "join"]>>]
  /\ down' = [down EXCEPT ![u] = <<>>]
  /\ UNCHANGED <<room, crossed, broken, strayed>>

(* requestJoinServer, by the user: everything is closed and cleared first.  *)
RequestJoin(u) ==
  /\ Count("join", MaxJoin)
  /\ Connect(u)
  /\ items' = [items EXCEPT ![u] = {}]
  /\ tasks' = [tasks EXCEPT ![u] = <<>>]
  /\ enabled' = [enabled EXCEPT ![u] = TRUE]
  /\ syncStartedFlag' = [syncStartedFlag EXCEPT ![u] = FALSE]
  /\ runner' = [runner EXCEPT ![u] = {}]
  /\ whole' = whole \ {u}
  /\ UNCHANGED <<deferred, serializing>>

(* reconnect, by the timer: whatever the client holds stays.                *)
Reconnect(u) ==
  /\ u \in broken
  /\ Connect(u)
  /\ runner' = [runner EXCEPT ![u] = {}]
  /\ UNCHANGED <<client, made, whole>>

(* A connection is lost: a part of what the client has written still        *)
(* arrives, nothing comes back.                                             *)
Break(u) ==
  /\ u \in connected
  /\ Count("break", MaxBreak)
  /\ connected' = connected \ {u}
  /\ \E n \in 0 .. Len(up[u]) :
       up' = [up EXCEPT ![u] = SubSeq(@, 1, n) \o <<[type |-> "left"]>>]
  /\ down' = [down EXCEPT ![u] = <<>>]
  /\ whole' = whole \ {u}
  /\ broken' = broken \cup {u}
  /\ strayed' = IF u \in whole THEN strayed ELSE strayed \cup {u}
  /\ UNCHANGED <<client, room, crossed, runner>>

-----------------------------------------------------------------------------
(* The server: one packet of u is handled.                                  *)

(* A user whose connection is lost is written to in vain.                   *)
Written(users, packet) ==
  [v \in User |-> IF v \in users \cap connected THEN Append(down[v], packet) ELSE down[v]]

RoomCast(u) == room \ {u}

Joins(u) ==
  /\ room' = room \cup {u}
  /\ down' = Written({u} \cap room', [type |-> "resJoin", first |-> room' = {u}])

(* syncStart: another member is asked, by the server's turn.                *)
AsksForSync(u) ==
  /\ UNCHANGED room
  /\ IF room \subseteq {u} THEN UNCHANGED down
     ELSE \E w \in room \ {u} : down' = Written({w}, [type |-> "runSync", target |-> u])

Leaves(u) == room' = room \ {u} /\ UNCHANGED down

Relays(u, packet) ==
  /\ UNCHANGED room
  /\ down' = IF "target" \in DOMAIN packet
             THEN Written({packet.target} \cap room, packet)
             ELSE Written(RoomCast(u), packet)

ServerHandles(u) ==
  /\ up[u] # <<>>
  /\ up' = [up EXCEPT ![u] = Tail(@)]
  /\ LET packet == Head(up[u])
     IN  CASE packet.type = "join"        -> Joins(u)
           [] packet.type = "syncRequest" -> AsksForSync(u)
           [] packet.type = "left"        -> Leaves(u)
           [] OTHER                       -> Relays(u, packet)
  /\ UNCHANGED <<client, connected, aux>>

-----------------------------------------------------------------------------
(* A client's IO thread: dispatchPaintPacket.                               *)

Defer(u, call) == deferred' = [deferred EXCEPT ![u] = Append(@, call)]

(* clearScreen( false ) of _requestSyncData.                                *)
DeferredClearOfSync(u) == Defer(u, "clear")

(* The answer to JOIN: who is not the first asks for the painting, unless   *)
(* his flag says that a synchronisation is under way.                       *)
HandleResJoin(u, first) ==
  /\ IF first \/ syncStartedFlag[u]
     THEN UNCHANGED <<deferred, up>>
     ELSE /\ DeferredClearOfSync(u)
          /\ up' = [up EXCEPT ![u] = Append(@, [type |-> "syncRequest"])]
  /\ whole' = IF first /\ u \notin strayed THEN whole \cup {u} ELSE whole
  /\ UNCHANGED <<items, tasks, enabled, syncStartedFlag, serializing, crossed, runner>>

(* The user is asked to synchronise another: serializeData reads the items  *)
(* under one lock and later the tasks under another.                        *)
HandleRunSync(u, target) ==
  /\ serializing' = [serializing EXCEPT ![u] = [target |-> {target}, items |-> items[u]]]
  /\ crossed' = (crossed \/ ClearAhead(u))
  /\ UNCHANGED <<items, tasks, enabled, syncStartedFlag, deferred, up, whole, runner>>

HandleStart(u, by) ==
  /\ syncStartedFlag' = [syncStartedFlag EXCEPT ![u] = TRUE]
  /\ Defer(u, "start")
  /\ runner' = [runner EXCEPT ![u] = {by}]
  /\ UNCHANGED <<items, tasks, enabled, serializing, up, whole, crossed>>

HandleComplete(u, isWhole) ==
  /\ syncStartedFlag' = [syncStartedFlag EXCEPT ![u] = FALSE]
  /\ Defer(u, "complete")
  /\ whole' = IF isWhole /\ u \notin strayed THEN whole \cup {u} ELSE whole
  /\ UNCHANGED <<items, tasks, enabled, serializing, up, crossed, runner>>

(* Items become known and tasks are recorded at once.                       *)
HandleEdits(u, created, recorded) ==
  /\ items' = [items EXCEPT ![u] = @ \cup created]
  /\ tasks' = [tasks EXCEPT ![u] = @ \o recorded]
  /\ crossed' = (crossed \/ ClearDeferred(u))
  /\ UNCHANGED <<enabled, syncStartedFlag, deferred, serializing, up, whole, runner>>

HandleClear(u) ==
  /\ Defer(u, "clear")
  /\ UNCHANGED <<items, tasks, enabled, syncStartedFlag, serializing, up, whole,
                 crossed, runner>>

Receive(u) ==
  /\ u \in connected /\ down[u] # <<>> /\ serializing[u] = None
  /\ down' = [down EXCEPT ![u] = Tail(@)]
  /\ LET packet == Head(down[u])
     IN  CASE packet.type = "resJoin"  -> HandleResJoin(u, packet.first)
           [] packet.type = "runSync"  -> HandleRunSync(u, packet.target)
           [] packet.type = "start"    -> HandleStart(u, packet.runner)
           [] packet.type = "complete" -> HandleComplete(u, packet.whole)
           [] packet.type = "create"   -> HandleEdits(u, {packet.key}, <<>>)
           [] packet.type = "task"     -> HandleEdits(u, {}, <<packet.task>>)
           [] packet.type = "data"     -> HandleEdits(u, packet.items, packet.tasks)
           [] packet.type = "clear"    -> HandleClear(u)
  /\ UNCHANGED <<connected, room, made, broken, strayed>>

(* Mutant: the last packet of the synchronisation is forgotten.             *)
PackageUnfinished(u, target, its, ts) ==
  <<[type |-> "start", target |-> target, runner |-> u],
    [type |-> "data", target |-> target, items |-> its, tasks |-> ts]>>

Package(u, target, its, ts) ==
  <<[type |-> "start", target |-> target, runner |-> u],
    [type |-> "data", target |-> target, items |-> its, tasks |-> ts],
    [type |-> "complete", target |-> target, whole |-> u \in whole]>>

(* The rest of CODE_SYSTEM_SYNC_REQUEST: the tasks are read, and the whole  *)
(* package is sent.                                                         *)
SendPackage(u) ==
  /\ serializing[u] # None
  /\ LET s == serializing[u]
     IN  \E target \in s.target : Sent(u, Package(u, target, s.items, tasks[u]))
  /\ serializing' = [serializing EXCEPT ![u] = None]
  /\ crossed' = (crossed \/ ClearAhead(u))
  /\ UNCHANGED <<items, tasks, enabled, syncStartedFlag, deferred, connected,
                 down, room, made, whole, runner, broken, strayed>>

-----------------------------------------------------------------------------
(* A client's main thread runs the call deferred first.                     *)
RunDeferred(u) ==
  /\ deferred[u] # <<>>
  /\ deferred' = [deferred EXCEPT ![u] = Tail(@)]
  /\ LET call == Head(deferred[u])
     IN  /\ items' = IF call = "clear" THEN [items EXCEPT ![u] = {}] ELSE items
         /\ tasks' = IF call = "clear" THEN [tasks EXCEPT ![u] = <<>>] ELSE tasks
         /\ enabled' = IF call = "clear" THEN enabled
                       ELSE [enabled EXCEPT ![u] = call = "complete"]
  /\ UNCHANGED <<syncStartedFlag, serializing, net, aux>>

-----------------------------------------------------------------------------
Gestures(u) ==
  AddItem(u) \/ (\E k \in Key : EditItem(u, k)) \/ ClearScreen(u) \/ RequestJoin(u)

Progress(u) ==
  ServerHandles(u) \/ Receive(u) \/ SendPackage(u) \/ RunDeferred(u)

Next == \E u \in User : Gestures(u) \/ Break(u) \/ Reconnect(u) \/ Progress(u)

(* The server, the IO threads and the main threads go on; nobody has to     *)
(* paint, and lost connections need not come back.                          *)
Fairness ==
  \A u \in User :
    /\ WF_vars(ServerHandles(u)) /\ WF_vars(Receive(u) \/ SendPackage(u))
    /\ WF_vars(RunDeferred(u))

Spec == Init /\ [][Next]_vars /\ Fairness

-----------------------------------------------------------------------------
(* Nothing is on its way any more.                                          *)
Quiet ==
  \A u \in User :
    up[u] = <<>> /\ down[u] = <<>> /\ deferred[u] = <<>> /\ serializing[u] = None

Same(u, v) == items[u] = items[v] /\ Range(tasks[u]) = Range(tasks[v])

(* At rest all members who began the painting, or were synchronised by one  *)
(* who had it, know the same items and tasks: whatever was cast while a     *)
(* synchronisation was asked for, written and read, nothing is missing.     *)
(* Only a clear that crosses edits can make a difference.                   *)
SharedAtRest ==
  Quiet /\ ~crossed => \A u, v \in whole \cap room : Same(u, v)

(* Whoever may not edit because he is being synchronised may do so again in *)
(* the end, unless his connection or that of who synchronises him is lost.  *)
EditableAgain ==
  \A u \in User :
    ~enabled[u] ~> enabled[u] \/ broken \cap ({u} \cup runner[u]) # {}
=============================================================================
