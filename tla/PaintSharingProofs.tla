------------------------- MODULE PaintSharingProofs -------------------------
(***************************************************************************)
(* Proofs about PaintSharing: type correctness, and that at rest all who   *)
(* have the painting whole know the same of it.                            *)
(***************************************************************************)
EXTENDS PaintSharing, FiniteSetTheorems, TLAPS

(***************************************************************************)
(* Types.  NextKey counts the items a client knows; that the id it makes   *)
(* is below the bound needs that no client knows, and no packet carries,   *)
(* more keys than tasks were made.  So the types are stated over a set K   *)
(* of keys, which is small enough.                                         *)
(***************************************************************************)
EditOver(K) == [type : {"create"}, key : K] \cup [type : {"task"}, task : Task]
SyncOver(K) ==
  [type : {"start"}, target : User, runner : User]
    \cup [type : {"data"}, target : User, items : SUBSET K, tasks : Seq(Task)]
    \cup [type : {"complete"}, target : User, whole : BOOLEAN]
UpOver(K) ==
  [type : {"join", "syncRequest", "left"}] \cup EditOver(K) \cup Clearing \cup SyncOver(K)
DownOver(K) ==
  [type : {"resJoin"}, first : BOOLEAN] \cup [type : {"runSync"}, target : User]
    \cup EditOver(K) \cup Clearing \cup SyncOver(K)

Typed(K) ==
  /\ items \in [User -> SUBSET K]
  /\ tasks \in [User -> Seq(Task)]
  /\ enabled \in [User -> BOOLEAN]
  /\ syncStartedFlag \in [User -> BOOLEAN]
  /\ deferred \in [User -> Seq({"clear", "start", "complete"})]
  /\ serializing \in [User -> [target : {{}} \cup {{u} : u \in User}, items : SUBSET K]]
  /\ connected \subseteq User /\ room \subseteq User
  /\ up \in [User -> Seq(UpOver(K))]
  /\ down \in [User -> Seq(DownOver(K))]
  /\ made \in [{"task", "clear", "break", "join"} -> Nat]
  /\ whole \subseteq User /\ broken \subseteq User /\ strayed \subseteq User
  /\ crossed \in BOOLEAN
  /\ runner \in [User -> SUBSET User]

Few(K) == K \subseteq Key /\ IsFiniteSet(K) /\ Cardinality(K) <= made["task"]

TypeInv == \E K : Few(K) /\ Typed(K)

(* The packets that carry no key.                                           *)
LEMMA PlainPackets ==
  ASSUME NEW K, NEW u \in User, NEW v \in User, NEW b \in BOOLEAN, NEW t \in Task
  PROVE  /\ [type |-> "join"] \in UpOver(K) /\ [type |-> "syncRequest"] \in UpOver(K)
         /\ [type |-> "left"] \in UpOver(K) /\ [type |-> "clear"] \in UpOver(K)
         /\ [type |-> "task", task |-> t] \in UpOver(K)
         /\ [type |-> "start", target |-> u, runner |-> v] \in UpOver(K)
         /\ [type |-> "complete", target |-> u, whole |-> b] \in UpOver(K)
         /\ [type |-> "resJoin", first |-> b] \in DownOver(K)
         /\ [type |-> "runSync", target |-> u] \in DownOver(K)
  BY DEF UpOver, DownOver, EditOver, SyncOver, Clearing

LEMMA KeyedPackets ==
  ASSUME NEW K
  PROVE  /\ \A k \in K : [type |-> "create", key |-> k] \in UpOver(K)
         /\ \A u \in User, its \in SUBSET K, ts \in Seq(Task) :
              [type |-> "data", target |-> u, items |-> its, tasks |-> ts] \in UpOver(K)
  BY DEF UpOver, EditOver, SyncOver

(* What a packet to the server is, by its type.                             *)
LEMMA UpPacket ==
  ASSUME NEW K, NEW p \in UpOver(K)
  PROVE  /\ p.type \in {"join", "syncRequest", "left", "create", "task", "clear",
                        "start", "data", "complete"}
         /\ "target" \in DOMAIN p <=> p.type \in {"start", "data", "complete"}
         /\ p.type \in {"start", "data", "complete"} => p.target \in User
         /\ p.type \notin {"join", "syncRequest", "left"} => p \in DownOver(K)
  BY DEF UpOver, DownOver, EditOver, SyncOver, Clearing

LEMMA DownPacket ==
  ASSUME NEW K, NEW p \in DownOver(K)
  PROVE  /\ p.type \in {"resJoin", "runSync", "create", "task", "clear",
                        "start", "data", "complete"}
         /\ p.type = "resJoin" => p.first \in BOOLEAN
         /\ p.type \in {"runSync", "start", "data", "complete"} => p.target \in User
         /\ p.type = "start" => p.runner \in User
         /\ p.type = "create" => p.key \in K
         /\ p.type = "task" => p.task \in Task
         /\ p.type = "data" => p.items \subseteq K /\ p.tasks \in Seq(Task)
         /\ p.type = "complete" => p.whole \in BOOLEAN
  BY DEF DownOver, EditOver, SyncOver, Clearing

LEMMA WiderSeq ==
  ASSUME NEW S, NEW T, S \subseteq T, NEW f, f \in [User -> Seq(S)]
  PROVE  f \in [User -> Seq(T)]
<1>1. ASSUME NEW u \in User PROVE f[u] \in Seq(T)
  <2>1. f[u] \in Seq(S)
    OBVIOUS
  <2>2. Len(f[u]) \in Nat /\ \A i \in 1 .. Len(f[u]) : f[u][i] \in T
    BY <2>1
  <2>3. f[u] \in [1 .. Len(f[u]) -> T]
    BY <2>1, <2>2
  <2> QED BY <2>2, <2>3
<1> QED BY <1>1

LEMMA Widened ==
  ASSUME NEW K, NEW L, K \subseteq L
  PROVE  UpOver(K) \subseteq UpOver(L) /\ DownOver(K) \subseteq DownOver(L)
  BY DEF UpOver, DownOver, EditOver, SyncOver

LEMMA TypedOverKey ==
  ASSUME NEW K, K \subseteq Key, Typed(K)
  PROVE  TypeOK
<1>1. UpOver(K) \subseteq ToServer /\ DownOver(K) \subseteq FromServer
  BY DEF UpOver, DownOver, EditOver, SyncOver, ToServer, FromServer, Edit, SyncPacket
<1>2. up \in [User -> Seq(ToServer)] /\ down \in [User -> Seq(FromServer)]
  BY <1>1, WiderSeq DEF Typed
<1>3. items \in [User -> SUBSET Key]
  BY DEF Typed
<1>4. serializing \in [User -> [target : {{}} \cup {{u} : u \in User}, items : SUBSET Key]]
  BY DEF Typed
<1> QED BY <1>2, <1>3, <1>4 DEF Typed, TypeOK

-----------------------------------------------------------------------------
(* Gestures.                                                                *)

LEMMA TypedWidened ==
  ASSUME NEW K, NEW L, K \subseteq L, Typed(K)
  PROVE  Typed(L)
<1>1. UpOver(K) \subseteq UpOver(L) /\ DownOver(K) \subseteq DownOver(L)
  BY Widened
<1>2. up \in [User -> Seq(UpOver(L))] /\ down \in [User -> Seq(DownOver(L))]
  BY <1>1, WiderSeq DEF Typed
<1>3. items \in [User -> SUBSET L]
  BY DEF Typed
<1>4. serializing \in [User -> [target : {{}} \cup {{u} : u \in User}, items : SUBSET L]]
  BY DEF Typed
<1> QED BY <1>2, <1>3, <1>4 DEF Typed

LEMMA SentTyped ==
  ASSUME NEW K, Typed(K), NEW u \in User, NEW ps \in Seq(UpOver(K)), Sent(u, ps)
  PROVE  up' \in [User -> Seq(UpOver(K))]
BY DEF Typed, Sent

LEMMA AddItemTyped ==
  ASSUME PaintSharingAssumption, NEW K, Few(K), Typed(K), NEW u \in User, AddItem(u)
  PROVE  \E L : Few(L)' /\ Typed(L)'
<1> PICK k : k = NextKey(u)
  OBVIOUS
<1> PICK t : t = [key |-> k, no |-> made["task"] + 1]
  OBVIOUS
<1> PICK L : L = K \cup {k}
  OBVIOUS
<1>1. made["task"] \in Nat /\ made["task"] < MaxTask /\ made' = [made EXCEPT !["task"] = @ + 1]
  BY DEF AddItem, Count, Typed
<1>2. k \in Key
  <2>1. items[u] \subseteq K /\ IsFiniteSet(K)
    BY DEF Typed, Few
  <2>2. Cardinality(items[u]) \in Nat /\ Cardinality(items[u]) <= Cardinality(K)
    BY <2>1, FS_Subset, FS_CardinalityType
  <2>3. Cardinality(items[u]) + 1 \in 1 .. MaxTask
    BY <1>1, <2>1, <2>2, FS_CardinalityType DEF Few, PaintSharingAssumption
  <2> QED BY <2>3 DEF NextKey, Key
<1>3. t \in Task
  BY <1>1, <1>2 DEF Task, PaintSharingAssumption
<1>4. Few(L)'
  <2>1. IsFiniteSet(L) /\ Cardinality(L) <= Cardinality(K) + 1 /\ Cardinality(K) \in Nat
        /\ Cardinality(L) \in Nat
    <3>1. IsFiniteSet(K)
      BY DEF Few
    <3>2. IsFiniteSet(L) /\ (Cardinality(L) = Cardinality(K) \/ Cardinality(L) = Cardinality(K) + 1)
      BY <3>1, FS_AddElement
    <3>3. Cardinality(K) \in Nat /\ Cardinality(L) \in Nat
      BY <3>1, <3>2, FS_CardinalityType
    <3> QED BY <3>2, <3>3
  <2>2. made'["task"] = made["task"] + 1
    BY <1>1 DEF Typed
  <2>3. L \subseteq Key
    BY <1>2 DEF Few
  <2>4. Cardinality(K) <= made["task"]
    BY DEF Few
  <2>5. Cardinality(L) <= made'["task"]
    BY <1>1, <2>1, <2>2, <2>4
  <2>6. IsFiniteSet(L)
    BY <2>1
  <2> QED BY <2>3, <2>5, <2>6 DEF Few
<1>5. Typed(L)'
  <2>0. Typed(L)
    BY TypedWidened
  <2>1. AddPackets(k, t) \in Seq(UpOver(L))
    <3>1. [type |-> "create", key |-> k] \in UpOver(L)
      BY KeyedPackets
    <3>2. [type |-> "task", task |-> t] \in UpOver(L)
      BY <1>3, PlainPackets
    <3> QED BY <3>1, <3>2 DEF AddPackets
  <2>2. Sent(u, AddPackets(k, t))
    BY DEF AddItem
  <2>3. up' \in [User -> Seq(UpOver(L))]
    BY <2>0, <2>1, <2>2, SentTyped
  <2>4. tasks' \in [User -> Seq(Task)]
    BY <1>3 DEF AddItem, Record, Typed
  <2>5. items' \in [User -> SUBSET L]
    BY <2>0 DEF AddItem, Typed
  <2>6. crossed' \in BOOLEAN
    BY <2>0 DEF AddItem, Typed, ClearAhead, ClearDeferred, Coming, Holds
  <2>7. made' \in [{"task", "clear", "break", "join"} -> Nat]
    BY <1>1, <2>0 DEF Typed
  <2>8. UNCHANGED <<enabled, syncStartedFlag, deferred, serializing, connected,
                     down, room, whole, runner, broken, strayed>>
    BY DEF AddItem
  <2> QED BY <2>0, <2>3, <2>4, <2>5, <2>6, <2>7, <2>8 DEF Typed
<1> QED BY <1>4, <1>5

(* Whatever else happens, the keys stay the same and no number decreases.   *)
LEMMA FewKept ==
  ASSUME NEW K, Few(K), made["task"] \in Nat, made'["task"] >= made["task"],
         made'["task"] \in Nat
  PROVE  Few(K)'
BY FS_CardinalityType DEF Few

LEMMA EditItemTyped ==
  ASSUME PaintSharingAssumption, NEW K, Few(K), Typed(K), NEW u \in User, NEW k \in Key,
         EditItem(u, k)
  PROVE  Typed(K)' /\ made'["task"] >= made["task"]
<1> DEFINE t == [key |-> k, no |-> made["task"] + 1]
<1>1. made["task"] \in Nat /\ made["task"] < MaxTask /\ made' = [made EXCEPT !["task"] = @ + 1]
  BY DEF EditItem, Count, Typed
<1>2. t \in Task
  BY <1>1 DEF Task, PaintSharingAssumption
<1>3. <<[type |-> "task", task |-> t]>> \in Seq(UpOver(K))
  <2>1. [type |-> "task", task |-> t] \in UpOver(K)
    BY <1>2, PlainPackets
  <2> QED BY <2>1
<1>4. up' \in [User -> Seq(UpOver(K))]
  BY <1>3, SentTyped DEF EditItem
<1>5. tasks' \in [User -> Seq(Task)]
  BY <1>2 DEF EditItem, Record, Typed
<1>6. crossed' \in BOOLEAN
  BY DEF EditItem, Typed, ClearAhead, ClearDeferred, Coming, Holds
<1>7. made' \in [{"task", "clear", "break", "join"} -> Nat] /\ made'["task"] >= made["task"]
  BY <1>1 DEF Typed
<1>8. UNCHANGED <<items, enabled, syncStartedFlag, deferred, serializing, connected,
                   down, room, whole, runner, broken, strayed>>
  BY DEF EditItem
<1> HIDE DEF t
<1> QED BY <1>4, <1>5, <1>6, <1>7, <1>8 DEF Typed

LEMMA CountTyped ==
  ASSUME NEW K, Typed(K), NEW k \in {"task", "clear", "break", "join"}, NEW max, Count(k, max)
  PROVE  made' \in [{"task", "clear", "break", "join"} -> Nat] /\ made'["task"] >= made["task"]
BY DEF Typed, Count

LEMMA ClearScreenTyped ==
  ASSUME NEW K, Typed(K), NEW u \in User, ClearScreen(u)
  PROVE  Typed(K)' /\ made'["task"] >= made["task"]
<1>1. made' \in [{"task", "clear", "break", "join"} -> Nat] /\ made'["task"] >= made["task"]
  BY CountTyped DEF ClearScreen
<1>2. <<[type |-> "clear"]>> \in Seq(UpOver(K))
  BY DEF UpOver, Clearing
<1>3. up' \in [User -> Seq(UpOver(K))]
  BY <1>2, SentTyped DEF ClearScreen
<1>4. items' \in [User -> SUBSET K] /\ tasks' \in [User -> Seq(Task)]
  BY DEF ClearScreen, Typed
<1>5. crossed' \in BOOLEAN
  BY DEF ClearScreen, Typed, Serializing, Coming, Holds
<1>6. UNCHANGED <<enabled, syncStartedFlag, deferred, serializing, connected,
                   down, room, whole, runner, broken, strayed>>
  BY DEF ClearScreen
<1> QED BY <1>1, <1>3, <1>4, <1>5, <1>6 DEF Typed

-----------------------------------------------------------------------------
(* Connections and the server.                                              *)

LEMMA ConnectTyped ==
  ASSUME NEW K, Typed(K), NEW u \in User, Connect(u)
  PROVE  /\ up' \in [User -> Seq(UpOver(K))] /\ down' \in [User -> Seq(DownOver(K))]
         /\ connected' \subseteq User
<1>1. <<[type |-> "join"]>> \in Seq(UpOver(K))
  BY DEF UpOver
<1> QED BY <1>1 DEF Connect, Typed

LEMMA RequestJoinTyped ==
  ASSUME NEW K, Typed(K), NEW u \in User, RequestJoin(u)
  PROVE  Typed(K)' /\ made'["task"] >= made["task"]
<1>1. made' \in [{"task", "clear", "break", "join"} -> Nat] /\ made'["task"] >= made["task"]
  BY CountTyped DEF RequestJoin
<1>2. /\ up' \in [User -> Seq(UpOver(K))] /\ down' \in [User -> Seq(DownOver(K))]
      /\ connected' \subseteq User
  BY ConnectTyped DEF RequestJoin
<1>3. /\ items' \in [User -> SUBSET K] /\ tasks' \in [User -> Seq(Task)]
      /\ enabled' \in [User -> BOOLEAN] /\ syncStartedFlag' \in [User -> BOOLEAN]
      /\ runner' \in [User -> SUBSET User] /\ whole' \subseteq User
  BY DEF RequestJoin, Typed
<1>4. UNCHANGED <<deferred, serializing, room, crossed, broken, strayed>>
  BY DEF RequestJoin, Connect
<1> QED BY <1>1, <1>2, <1>3, <1>4 DEF Typed

LEMMA ReconnectTyped ==
  ASSUME NEW K, Typed(K), NEW u \in User, Reconnect(u)
  PROVE  Typed(K)' /\ made'["task"] >= made["task"]
<1>1. made'["task"] >= made["task"]
  BY DEF Reconnect, Typed
<1>2. /\ up' \in [User -> Seq(UpOver(K))] /\ down' \in [User -> Seq(DownOver(K))]
      /\ connected' \subseteq User
  BY ConnectTyped DEF Reconnect
<1>3. runner' \in [User -> SUBSET User]
  BY DEF Reconnect, Typed
<1>4. UNCHANGED <<client, made, whole, room, crossed, broken, strayed>>
  BY DEF Reconnect, Connect
<1> QED BY <1>1, <1>2, <1>3, <1>4 DEF Typed, client

LEMMA BreakTyped ==
  ASSUME NEW K, Typed(K), NEW u \in User, Break(u)
  PROVE  Typed(K)' /\ made'["task"] >= made["task"]
<1>1. made' \in [{"task", "clear", "break", "join"} -> Nat] /\ made'["task"] >= made["task"]
  BY CountTyped DEF Break
<1>2. up' \in [User -> Seq(UpOver(K))]
  <2>1. PICK n \in 0 .. Len(up[u]) :
          up' = [up EXCEPT ![u] = SubSeq(@, 1, n) \o <<[type |-> "left"]>>]
    BY DEF Break
  <2>2. up[u] \in Seq(UpOver(K)) /\ <<[type |-> "left"]>> \in Seq(UpOver(K))
    BY DEF UpOver, Typed
  <2>3. SubSeq(up[u], 1, n) \in Seq(UpOver(K))
    BY <2>2
  <2>4. SubSeq(up[u], 1, n) \o <<[type |-> "left"]>> \in Seq(UpOver(K))
    BY <2>2, <2>3
  <2> QED BY <2>1, <2>4 DEF Typed
<1>3. down' \in [User -> Seq(DownOver(K))]
  BY DEF Break, Typed
<1>4. connected' \subseteq User /\ whole' \subseteq User /\ broken' \subseteq User
      /\ strayed' \subseteq User
  BY DEF Break, Typed
<1>5. UNCHANGED <<client, room, crossed, runner>>
  BY DEF Break
<1> QED BY <1>1, <1>2, <1>3, <1>4, <1>5 DEF Typed, client

LEMMA WrittenTyped ==
  ASSUME NEW K, Typed(K), NEW users, NEW p \in DownOver(K)
  PROVE  Written(users, p) \in [User -> Seq(DownOver(K))]
BY DEF Written, Typed

LEMMA ServerTyped ==
  ASSUME NEW K, Typed(K), NEW u \in User, ServerHandles(u)
  PROVE  Typed(K)' /\ made'["task"] >= made["task"]
<1> PICK p : p = Head(up[u])
  OBVIOUS
<1>1. p \in UpOver(K) /\ up' \in [User -> Seq(UpOver(K))]
  BY DEF ServerHandles, Typed
<1>2. down' \in [User -> Seq(DownOver(K))] /\ room' \subseteq User
  <2>1. CASE p.type = "join"
    <3>1. Joins(u)
      BY <2>1 DEF ServerHandles
    <3>2. room' \subseteq User
      BY <3>1 DEF Joins, Typed
    <3>3. [type |-> "resJoin", first |-> room' = {u}] \in DownOver(K)
      BY DEF DownOver
    <3> QED BY <3>1, <3>2, <3>3, WrittenTyped DEF Joins
  <2>2. CASE p.type = "syncRequest"
    <3>1. AsksForSync(u)
      BY <2>2 DEF ServerHandles
    <3>2. [type |-> "runSync", target |-> u] \in DownOver(K)
      BY PlainPackets DEF DownOver
    <3>3. down' = down \/ \E w : down' = Written({w}, [type |-> "runSync", target |-> u])
      BY <3>1 DEF AsksForSync
    <3>4. down' \in [User -> Seq(DownOver(K))]
      <4>1. CASE down' = down
        BY <4>1 DEF Typed
      <4>2. ASSUME NEW w, down' = Written({w}, [type |-> "runSync", target |-> u])
            PROVE  down' \in [User -> Seq(DownOver(K))]
        BY <3>2, <4>2, WrittenTyped
      <4> QED BY <3>3, <4>1, <4>2
    <3> QED BY <3>1, <3>4 DEF AsksForSync, Typed
  <2>3. CASE p.type = "left"
    BY <2>3 DEF ServerHandles, Leaves, Typed
  <2>4. CASE p.type \notin {"join", "syncRequest", "left"}
    <3>1. Relays(u, p)
      BY <2>4 DEF ServerHandles
    <3>2. p \in DownOver(K)
      BY <1>1, <2>4, UpPacket
    <3> QED BY <3>1, <3>2, WrittenTyped DEF Relays, Typed
  <2> QED BY <2>1, <2>2, <2>3, <2>4
<1>3. UNCHANGED <<client, connected, aux>>
  BY DEF ServerHandles
<1>4. made'["task"] >= made["task"]
  BY <1>3 DEF Typed, aux
<1>5. Typed(K)'
  BY <1>1, <1>2, <1>3 DEF Typed, client, aux
<1> QED BY <1>4, <1>5

-----------------------------------------------------------------------------
(* The clients' threads.                                                    *)

LEMMA ReceiveTyped ==
  ASSUME NEW K, Typed(K), NEW u \in User, Receive(u)
  PROVE  Typed(K)' /\ made'["task"] >= made["task"]
<1> PICK p : p = Head(down[u])
  OBVIOUS
<1>1. p \in DownOver(K) /\ down' \in [User -> Seq(DownOver(K))]
  BY DEF Receive, Typed
<1>2. UNCHANGED <<connected, room, made, broken, strayed>> /\ made'["task"] >= made["task"]
  BY DEF Receive, Typed
<1> USE DEF Defer
<1>3. CASE p.type = "resJoin"
  <2>1. HandleResJoin(u, p.first)
    BY <1>3 DEF Receive
  <2>2. [type |-> "syncRequest"] \in UpOver(K)
    BY DEF UpOver
  <2>7. \/ deferred' = deferred /\ up' = up
        \/ /\ deferred' = [deferred EXCEPT ![u] = Append(@, "clear")]
           /\ up' = [up EXCEPT ![u] = Append(@, [type |-> "syncRequest"])]
    BY <2>1 DEF HandleResJoin, DeferredClearOfSync
  <2>3. deferred' \in [User -> Seq({"clear", "start", "complete"})]
    <3>1. [deferred EXCEPT ![u] = Append(@, "clear")]
            \in [User -> Seq({"clear", "start", "complete"})]
      BY DEF Typed
    <3> QED BY <2>7, <3>1 DEF Typed
  <2>4. up' \in [User -> Seq(UpOver(K))]
    <3>1. [up EXCEPT ![u] = Append(@, [type |-> "syncRequest"])] \in [User -> Seq(UpOver(K))]
      BY <2>2 DEF Typed
    <3> QED BY <2>7, <3>1 DEF Typed
  <2>5. whole' \subseteq User
    BY <2>1 DEF HandleResJoin, Typed
  <2>6. UNCHANGED <<items, tasks, enabled, syncStartedFlag, serializing, crossed, runner>>
    BY <2>1 DEF HandleResJoin
  <2> QED BY <1>1, <1>2, <2>3, <2>4, <2>5, <2>6 DEF Typed
<1>4. CASE p.type = "runSync"
  <2>1. HandleRunSync(u, p.target) /\ p.target \in User
    BY <1>1, <1>4, DownPacket DEF Receive
  <2>2. serializing' \in [User -> [target : {{}} \cup {{v} : v \in User}, items : SUBSET K]]
    BY <2>1 DEF HandleRunSync, Typed
  <2>3. crossed' \in BOOLEAN
    BY <2>1 DEF HandleRunSync, Typed, ClearAhead, ClearDeferred, Coming, Holds
  <2> QED BY <1>1, <1>2, <2>1, <2>2, <2>3 DEF HandleRunSync, Typed
<1>5. CASE p.type = "start"
  <2>1. HandleStart(u, p.runner) /\ p.runner \in User
    BY <1>1, <1>5, DownPacket DEF Receive
  <2>2. deferred' \in [User -> Seq({"clear", "start", "complete"})]
    BY <2>1 DEF HandleStart, Typed
  <2>3. syncStartedFlag' \in [User -> BOOLEAN] /\ runner' \in [User -> SUBSET User]
    BY <2>1 DEF HandleStart, Typed
  <2>4. UNCHANGED <<items, tasks, enabled, serializing, up, whole, crossed>>
    BY <2>1 DEF HandleStart
  <2> QED BY <1>1, <1>2, <2>2, <2>3, <2>4 DEF Typed
<1>6. CASE p.type = "complete"
  <2>1. HandleComplete(u, p.whole)
    BY <1>6 DEF Receive
  <2>2. deferred' \in [User -> Seq({"clear", "start", "complete"})]
    BY <2>1 DEF HandleComplete, Typed
  <2>3. syncStartedFlag' \in [User -> BOOLEAN] /\ whole' \subseteq User
    BY <2>1 DEF HandleComplete, Typed
  <2>4. UNCHANGED <<items, tasks, enabled, serializing, up, crossed, runner>>
    BY <2>1 DEF HandleComplete
  <2> QED BY <1>1, <1>2, <2>2, <2>3, <2>4 DEF Typed
<1>7. ASSUME NEW its \in SUBSET K, NEW ts \in Seq(Task), HandleEdits(u, its, ts)
      PROVE  Typed(K)'
  <2>1. items' \in [User -> SUBSET K] /\ tasks' \in [User -> Seq(Task)]
    BY <1>7 DEF HandleEdits, Typed
  <2>2. crossed' \in BOOLEAN
    BY <1>7 DEF HandleEdits, Typed, ClearDeferred
  <2> QED BY <1>1, <1>2, <1>7, <2>1, <2>2 DEF HandleEdits, Typed
<1>8. CASE p.type = "create"
  <2>1. HandleEdits(u, {p.key}, <<>>) /\ p.key \in K
    BY <1>1, <1>8, DownPacket DEF Receive
  <2>2. <<>> \in Seq(Task) /\ {p.key} \in SUBSET K
    BY <2>1
  <2> QED BY <1>2, <1>7, <2>1, <2>2
<1>9. CASE p.type = "task"
  <2>1. HandleEdits(u, {}, <<p.task>>) /\ p.task \in Task
    BY <1>1, <1>9, DownPacket DEF Receive
  <2>2. <<p.task>> \in Seq(Task) /\ {} \in SUBSET K
    BY <2>1
  <2> QED BY <1>2, <1>7, <2>1, <2>2
<1>10. CASE p.type = "data"
  <2>1. HandleEdits(u, p.items, p.tasks) /\ p.items \subseteq K /\ p.tasks \in Seq(Task)
    BY <1>1, <1>10, DownPacket DEF Receive
  <2> QED BY <1>2, <1>7, <2>1
<1>11. CASE p.type = "clear"
  <2>1. HandleClear(u)
    BY <1>11 DEF Receive
  <2>2. deferred' \in [User -> Seq({"clear", "start", "complete"})]
    BY <2>1 DEF HandleClear, Typed
  <2>3. UNCHANGED <<items, tasks, enabled, syncStartedFlag, serializing, up, whole,
                   crossed, runner>>
    BY <2>1 DEF HandleClear
  <2> QED BY <1>1, <1>2, <2>2, <2>3 DEF Typed
<1> QED BY <1>1, <1>2, <1>3, <1>4, <1>5, <1>6, <1>8, <1>9, <1>10, <1>11, DownPacket

LEMMA SendPackageTyped ==
  ASSUME NEW K, Typed(K), NEW u \in User, SendPackage(u)
  PROVE  Typed(K)' /\ made'["task"] >= made["task"]
<1>1. up' \in [User -> Seq(UpOver(K))]
  <2>1. PICK z \in serializing[u].target : Sent(u, Package(u, z, serializing[u].items, tasks[u]))
    BY DEF SendPackage
  <2>2. z \in User /\ serializing[u].items \in SUBSET K /\ tasks[u] \in Seq(Task)
    <3>1. serializing[u].target \in {{}} \cup {{v} : v \in User}
          /\ serializing[u].items \in SUBSET K /\ tasks[u] \in Seq(Task)
      BY DEF Typed
    <3> QED BY <3>1
  <2>3. /\ [type |-> "start", target |-> z, runner |-> u] \in UpOver(K)
        /\ [type |-> "data", target |-> z, items |-> serializing[u].items, tasks |-> tasks[u]]
             \in UpOver(K)
        /\ [type |-> "complete", target |-> z, whole |-> u \in whole] \in UpOver(K)
    BY <2>2, KeyedPackets DEF UpOver, SyncOver
  <2>4. Package(u, z, serializing[u].items, tasks[u]) \in Seq(UpOver(K))
    BY <2>3 DEF Package
  <2> QED BY <2>1, <2>4, SentTyped
<1>2. serializing' \in [User -> [target : {{}} \cup {{v} : v \in User}, items : SUBSET K]]
  BY DEF SendPackage, Typed, None
<1>3. crossed' \in BOOLEAN
  BY DEF SendPackage, Typed, ClearAhead, ClearDeferred, Coming, Holds
<1>4. UNCHANGED <<items, tasks, enabled, syncStartedFlag, deferred, connected,
                   down, room, made, whole, runner, broken, strayed>>
  BY DEF SendPackage
<1>5. made'["task"] >= made["task"]
  BY <1>4 DEF Typed
<1> QED BY <1>1, <1>2, <1>3, <1>4, <1>5 DEF Typed

LEMMA RunDeferredTyped ==
  ASSUME NEW K, Typed(K), NEW u \in User, RunDeferred(u)
  PROVE  Typed(K)' /\ made'["task"] >= made["task"]
<1>1. deferred' \in [User -> Seq({"clear", "start", "complete"})]
  BY DEF RunDeferred, Typed
<1>2. items' \in [User -> SUBSET K] /\ tasks' \in [User -> Seq(Task)]
      /\ enabled' \in [User -> BOOLEAN]
  BY DEF RunDeferred, Typed
<1>3. UNCHANGED <<syncStartedFlag, serializing, net, aux>> /\ made'["task"] >= made["task"]
  BY DEF RunDeferred, Typed, aux
<1> QED BY <1>1, <1>2, <1>3 DEF Typed, net, aux

-----------------------------------------------------------------------------
LEMMA TypedInit ==
  ASSUME PaintSharingAssumption, Init
  PROVE  TypeInv
<1>1. CASE Member = {}
  <2>1. FirstTask = <<>>
    BY <1>1 DEF FirstTask, Painted
  <2>2. Len(<<>>) = 0 /\ <<>> \in Seq(Task) /\ Range(<<>>) = {}
    BY DEF Range
  <2>3. Typed({})
    <3>1. items \in [User -> SUBSET {}] /\ tasks \in [User -> Seq(Task)]
      BY <1>1, <2>2 DEF Init
    <3>2. made \in [{"task", "clear", "break", "join"} -> Nat]
      BY <2>1, <2>2 DEF Init
    <3>3. up \in [User -> Seq(UpOver({}))] /\ down \in [User -> Seq(DownOver({}))]
      BY DEF Init
    <3>4. deferred \in [User -> Seq({"clear", "start", "complete"})]
      BY DEF Init
    <3>5. serializing \in [User -> [target : {{}} \cup {{u} : u \in User}, items : SUBSET {}]]
      BY DEF Init, None
    <3> QED BY <1>1, <3>1, <3>2, <3>3, <3>4, <3>5 DEF Init, Typed
  <2>4. Few({})
    BY <2>1, <2>2, FS_EmptySet DEF Few, Init
  <2> QED BY <2>3, <2>4 DEF TypeInv
<1>2. CASE Member # {}
  <2>1. PICK t : t \in Painted /\ FirstTask = <<t>>
    BY <1>2 DEF FirstTask, Painted
  <2>2. t \in Task /\ t.key \in Key
    BY <2>1 DEF Painted, Task, Key, PaintSharingAssumption
  <2>3. PICK K : K = {t.key}
    OBVIOUS
  <2>4. Range(FirstTask) = {t} /\ Len(FirstTask) = 1 /\ FirstTask \in Seq(Task)
    BY <2>1, <2>2 DEF Range
  <2>5. Few(K)
    <3>1. IsFiniteSet(K) /\ Cardinality(K) = 1
      BY <2>3, FS_Singleton
    <3>2. made["task"] = 1
      BY <2>4 DEF Init
    <3> QED BY <2>2, <2>3, <3>1, <3>2 DEF Few
  <2>6. items \in [User -> SUBSET K] /\ tasks \in [User -> Seq(Task)]
    BY <2>3, <2>4 DEF Init
  <2>7. Typed(K)
    <3>2. made \in [{"task", "clear", "break", "join"} -> Nat]
      BY <2>4 DEF Init
    <3>3. up \in [User -> Seq(UpOver(K))] /\ down \in [User -> Seq(DownOver(K))]
      BY DEF Init
    <3>4. deferred \in [User -> Seq({"clear", "start", "complete"})]
      BY DEF Init
    <3>5. serializing \in [User -> [target : {{}} \cup {{u} : u \in User}, items : SUBSET K]]
      BY DEF Init, None
    <3> QED BY <2>6, <3>2, <3>3, <3>4, <3>5 DEF Init, Typed, PaintSharingAssumption
  <2> QED BY <2>5, <2>7 DEF TypeInv
<1> QED BY <1>1, <1>2

LEMMA TypeStep ==
  ASSUME PaintSharingAssumption, TypeInv, [Next]_vars
  PROVE  TypeInv'
<1>1. PICK K : Few(K) /\ Typed(K)
  BY DEF TypeInv
<1>2. ASSUME Typed(K)', made'["task"] >= made["task"]
      PROVE  TypeInv'
  <2>1. made["task"] \in Nat /\ made'["task"] \in Nat
    BY <1>1, <1>2 DEF Typed
  <2>2. Few(K)'
    BY <1>1, <1>2, <2>1, FewKept
  <2> QED BY <1>2, <2>2 DEF TypeInv
<1>3. CASE UNCHANGED vars
  <2>1. made["task"] \in Nat /\ Typed(K)'
    BY <1>1, <1>3 DEF Typed, vars, client, net, aux
  <2>2. made'["task"] >= made["task"]
    BY <1>3, <2>1 DEF vars, aux
  <2> QED BY <1>2, <2>1, <2>2
<1>4. ASSUME NEW u \in User,
             Gestures(u) \/ Break(u) \/ Reconnect(u) \/ Progress(u)
      PROVE  TypeInv'
  <2>1. CASE AddItem(u)
    BY <1>1, <2>1, AddItemTyped DEF TypeInv
  <2>2. CASE \E k \in Key : EditItem(u, k)
    BY <1>1, <1>2, <2>2, EditItemTyped
  <2>3. CASE ClearScreen(u)
    BY <1>1, <1>2, <2>3, ClearScreenTyped
  <2>4. CASE RequestJoin(u)
    BY <1>1, <1>2, <2>4, RequestJoinTyped
  <2>5. CASE Break(u)
    BY <1>1, <1>2, <2>5, BreakTyped
  <2>6. CASE Reconnect(u)
    BY <1>1, <1>2, <2>6, ReconnectTyped
  <2>7. CASE ServerHandles(u)
    BY <1>1, <1>2, <2>7, ServerTyped
  <2>8. CASE Receive(u)
    BY <1>1, <1>2, <2>8, ReceiveTyped
  <2>9. CASE SendPackage(u)
    BY <1>1, <1>2, <2>9, SendPackageTyped
  <2>10. CASE RunDeferred(u)
    BY <1>1, <1>2, <2>10, RunDeferredTyped
  <2> QED BY <1>4, <2>1, <2>2, <2>3, <2>4, <2>5, <2>6, <2>7, <2>8, <2>9, <2>10
          DEF Gestures, Progress
<1> QED BY <1>3, <1>4 DEF Next

(* Every variable has its type: in particular an item's id is never above   *)
(* the number of tasks made, though generateItemId only counts the items    *)
(* this client happens to know.                                             *)
THEOREM SharingTypeCorrect == Spec => []TypeOK
<1>1. Init => TypeInv
  BY TypedInit, PaintSharingAssumption
<1>2. TypeInv /\ [Next]_vars => TypeInv'
  BY TypeStep, PaintSharingAssumption
<1>3. TypeInv => TypeOK
  BY TypedOverKey DEF TypeInv, Few
<1> QED BY <1>1, <1>2, <1>3, PTL DEF Spec

-----------------------------------------------------------------------------
(***************************************************************************)
(* SharedAtRest.  Its invariant speaks of what is on its way.              *)
(*                                                                         *)
(* First the connections (Conn), then who may still be synchronised (Steps:*)
(* of a user who has not strayed there is one request, one call to run it, *)
(* one package at most), at last the painting (Doc): there is a set D of   *)
(* items and tasks, what the server has cast since the last clear, and     *)
(* whoever has the painting whole has D and his own, or it is coming to    *)
(* him.                                                                    *)
(***************************************************************************)

(* A packet of a synchronisation.                                           *)
Bundled(p) == p.type \in {"start", "data", "complete"}

UpFits(u, i) ==
  /\ up[u][i].type = "join" => i = 1 /\ u \notin room \cup whole /\ down[u] = <<>>
  /\ up[u][i].type = "left" => u \notin connected
  /\ Bundled(up[u][i]) => up[u][i].target # u

DownFits(u, i) ==
  /\ down[u][i].type = "resJoin" => i = 1 /\ u \notin whole
  /\ down[u][i].type = "runSync" => down[u][i].target # u

Joining(u) == Len(up[u]) > 0 /\ up[u][1].type = "join"

(* One connection: JOIN is the first packet of it, and its answer the first *)
(* that comes back; nobody synchronises himself.                            *)
Line(u) ==
  /\ u \notin connected => down[u] = <<>>
  /\ u \in connected => u \in room \/ Joining(u)
  /\ \A i \in 1 .. Len(up[u]) : UpFits(u, i)
  /\ \A i \in 1 .. Len(down[u]) : DownFits(u, i)
  /\ u \notin serializing[u].target

Conn ==
  /\ \A u \in User : Line(u)
  /\ whole \subseteq connected \ strayed

-----------------------------------------------------------------------------
(* Sequences.                                                               *)

(* a is q with p behind it.                                                 *)
Appended(a, q, p) ==
  /\ Len(q) \in Nat /\ Len(a) = Len(q) + 1 /\ a[Len(q) + 1] = p
  /\ \A i \in 1 .. Len(q) : a[i] = q[i]
  /\ \A i \in 1 .. Len(a) : i \in 1 .. Len(q) \/ i = Len(q) + 1

LEMMA InAppend ==
  ASSUME NEW S, NEW q \in Seq(S), NEW p \in S, NEW a, a = Append(q, p)
  PROVE  a \in Seq(S) /\ Appended(a, q, p)
  BY DEF Appended

(* a is q without its first.                                                *)
Headless(a, q) ==
  /\ Len(q) \in Nat \ {0} /\ Len(a) = Len(q) - 1
  /\ \A i \in 1 .. Len(a) : i + 1 \in 1 .. Len(q) /\ a[i] = q[i + 1]

LEMMA InTail ==
  ASSUME NEW S, NEW q \in Seq(S), q # <<>>, NEW a, a = Tail(q)
  PROVE  a \in Seq(S) /\ Headless(a, q)
  BY DEF Headless

LEMMA InHead ==
  ASSUME NEW S, NEW q \in Seq(S), q # <<>>
  PROVE  Len(q) \in Nat /\ 1 \in 1 .. Len(q) /\ Head(q) = q[1] /\ q[1] \in S
  OBVIOUS

(* a is q with r behind it.                                                 *)
Joined(a, q, r) ==
  /\ Len(q) \in Nat /\ Len(r) \in Nat /\ Len(a) = Len(q) + Len(r)
  /\ \A i \in 1 .. Len(q) : a[i] = q[i]
  /\ \A i \in 1 .. Len(r) : a[Len(q) + i] = r[i]
  /\ \A i \in 1 .. Len(a) : i \in 1 .. Len(q) \/ \E j \in 1 .. Len(r) : i = Len(q) + j

LEMMA InConcat ==
  ASSUME NEW S, NEW q \in Seq(S), NEW r \in Seq(S), NEW a, a = q \o r
  PROVE  a \in Seq(S) /\ Joined(a, q, r)
<1>1. /\ a \in Seq(S) /\ Len(a) = Len(q) + Len(r) /\ Len(q) \in Nat /\ Len(r) \in Nat
      /\ \A i \in 1 .. Len(q) : a[i] = q[i]
      /\ \A i \in 1 .. Len(r) : a[Len(q) + i] = r[i]
  OBVIOUS
<1>2. ASSUME NEW i \in 1 .. Len(a), i \notin 1 .. Len(q)
      PROVE  \E j \in 1 .. Len(r) : i = Len(q) + j
  <2>1. i - Len(q) \in 1 .. Len(r) /\ i = Len(q) + (i - Len(q))
    BY <1>1, <1>2
  <2> QED BY <2>1
<1> QED BY <1>1, <1>2 DEF Joined

(* a is the first n of q and l behind them.                                 *)
CutOff(a, q, n, l) ==
  /\ n \in Nat /\ Len(q) \in Nat /\ n <= Len(q) /\ Len(a) = n + 1 /\ a[n + 1] = l
  /\ \A i \in 1 .. n : a[i] = q[i] /\ i \in 1 .. Len(q)
  /\ \A i \in 1 .. Len(a) : i \in 1 .. n \/ i = n + 1

LEMMA InCut ==
  ASSUME NEW S, NEW q \in Seq(S), NEW n \in 0 .. Len(q), NEW l \in S,
         NEW a, a = SubSeq(q, 1, n) \o <<l>>
  PROVE  a \in Seq(S) /\ CutOff(a, q, n, l)
<1> PICK c : c = SubSeq(q, 1, n)
  OBVIOUS
<1>1. c \in Seq(S) /\ Len(c) = n /\ \A i \in 1 .. n : c[i] = q[i]
  OBVIOUS
<1>2. <<l>> \in Seq(S) /\ Len(<<l>>) = 1 /\ <<l>>[1] = l
  OBVIOUS
<1>3. a \in Seq(S) /\ Joined(a, c, <<l>>)
  BY <1>1, <1>2, InConcat
<1> QED BY <1>1, <1>2, <1>3 DEF Joined, CutOff

-----------------------------------------------------------------------------
(* The connections fit whatever happens.                                    *)

(* A client writes something that is neither JOIN nor the end.              *)
LEMMA ConnSends ==
  ASSUME TypeOK, Conn, NEW u \in User, NEW r \in Seq(ToServer), Sent(u, r),
         \A i \in 1 .. Len(r) :
           r[i].type \notin {"join", "left"} /\ (Bundled(r[i]) => r[i].target # u),
         UNCHANGED <<connected, down, room, whole, strayed>>,
         \A v \in User : serializing'[v].target \subseteq serializing[v].target
  PROVE  Conn'
<1>1. ASSUME NEW v \in User PROVE Line(v)'
  <2>1. CASE up'[v] = up[v]
    BY <2>1 DEF Conn, Line, UpFits, DownFits, Joining
  <2>2. CASE u \in connected /\ v = u /\ up'[u] = up[u] \o r
    <3>1. up[u] \in Seq(ToServer)
      BY DEF TypeOK
    <3>4. Joined(up'[u], up[u], r)
      BY <2>2, <3>1, InConcat
    <3>2. \A i \in 1 .. Len(up'[u]) : UpFits(u, i)'
      <4> TAKE i \in 1 .. Len(up'[u])
      <4>1. CASE i \in 1 .. Len(up[u])
        BY <2>2, <3>4, <4>1 DEF Conn, Line, UpFits, Joined
      <4>2. ASSUME NEW j \in 1 .. Len(r), i = Len(up[u]) + j PROVE UpFits(u, i)'
        BY <2>2, <3>4, <4>2 DEF UpFits, Joined
      <4> QED BY <3>4, <4>1, <4>2 DEF Joined
    <3>3. (u \in room \/ Joining(u))'
      <4>1. CASE Joining(u)
        BY <2>2, <3>4, <4>1 DEF Joining, Joined
      <4> QED BY <2>2, <4>1 DEF Conn, Line
    <3> QED BY <2>2, <3>2, <3>3 DEF Conn, Line, DownFits
  <2> QED BY <2>1, <2>2 DEF Sent, TypeOK
<1> QED BY <1>1 DEF Conn

LEMMA ConnConnects ==
  ASSUME TypeOK, Conn, NEW u \in User, Connect(u), whole' \subseteq whole,
         UNCHANGED serializing
  PROVE  Conn'
<1>1. /\ up'[u] = <<[type |-> "join"]>> /\ down'[u] = <<>> /\ connected' = connected \cup {u}
      /\ room' = room /\ strayed' = strayed /\ u \notin room /\ u \notin connected
      /\ \A v \in User : v # u => up'[v] = up[v] /\ down'[v] = down[v]
  BY DEF Connect, TypeOK
<1>2. ASSUME NEW v \in User PROVE Line(v)'
  <2>1. CASE v # u
    BY <1>1, <2>1 DEF Conn, Line, UpFits, DownFits, Joining
  <2>2. CASE v = u
    <3>1. Len(up'[u]) = 1 /\ up'[u][1].type = "join"
      BY <1>1
    <3>2. \A i \in 1 .. Len(up'[u]) : UpFits(u, i)'
      BY <1>1, <3>1 DEF UpFits, Bundled, Conn
    <3>3. \A i \in 1 .. Len(down'[u]) : DownFits(u, i)'
      BY <1>1
    <3>4. Joining(u)'
      BY <3>1 DEF Joining
    <3> QED BY <1>1, <2>2, <3>2, <3>3, <3>4 DEF Conn, Line
  <2> QED BY <2>1, <2>2
<1>3. whole' \subseteq connected' \ strayed'
  BY <1>1 DEF Conn
<1> QED BY <1>2, <1>3 DEF Conn

(* What is left of the packets of who lost his connection.                  *)
LEMMA CutUp ==
  ASSUME TypeOK, NEW u \in User, Break(u)
  PROVE  \E n \in Nat : CutOff(up'[u], up[u], n, [type |-> "left"])
<1>1. PICK n \in 0 .. Len(up[u]) :
        up' = [up EXCEPT ![u] = SubSeq(@, 1, n) \o <<[type |-> "left"]>>]
  BY DEF Break
<1>2. up[u] \in Seq(ToServer) /\ [type |-> "left"] \in ToServer
  BY DEF TypeOK, ToServer
<1>3. up'[u] = SubSeq(up[u], 1, n) \o <<[type |-> "left"]>>
  BY <1>1 DEF TypeOK
<1>4. n \in Nat
  BY <1>2
<1> QED BY <1>2, <1>3, <1>4, InCut

LEMMA ConnBreak ==
  ASSUME TypeOK, Conn, NEW u \in User, Break(u)
  PROVE  Conn'
<1>1. /\ down'[u] = <<>> /\ connected' = connected \ {u} /\ room' = room
      /\ whole' = whole \ {u} /\ strayed' \subseteq strayed \cup {u}
      /\ UNCHANGED serializing
      /\ \A v \in User : v # u => up'[v] = up[v] /\ down'[v] = down[v]
  BY DEF Break, TypeOK, client
<1>2. ASSUME NEW v \in User PROVE Line(v)'
  <2>1. CASE v # u
    BY <1>1, <2>1 DEF Conn, Line, UpFits, DownFits, Joining
  <2>2. CASE v = u
    <3>2. \A i \in 1 .. Len(up'[u]) : UpFits(u, i)'
      <4>1. PICK n \in Nat : CutOff(up'[u], up[u], n, [type |-> "left"])
        BY CutUp
      <4>2. \A i \in 1 .. n : UpFits(u, i)'
        BY <1>1, <4>1 DEF UpFits, Conn, Line, CutOff
      <4>3. UpFits(u, n + 1)'
        BY <1>1, <4>1 DEF UpFits, Bundled, CutOff
      <4> QED BY <4>1, <4>2, <4>3 DEF CutOff
    <3>3. \A i \in 1 .. Len(down'[u]) : DownFits(u, i)'
      BY <1>1
    <3> QED BY <1>1, <2>2, <3>2, <3>3 DEF Conn, Line
  <2> QED BY <2>1, <2>2
<1>3. whole' \subseteq connected' \ strayed'
  BY <1>1 DEF Conn
<1> QED BY <1>2, <1>3 DEF Conn

(* What the server writes to v, if anything.                                *)
LEMMA WrittenIs ==
  ASSUME TypeOK, NEW users, NEW p, NEW v \in User
  PROVE  Written(users, p)[v] =
           IF v \in users /\ v \in connected THEN Append(down[v], p) ELSE down[v]
  BY DEF Written

(* What the server does with p, the first packet of u.                      *)
ServerEffect(u, p) ==
  /\ up[u] \in Seq(ToServer) /\ up[u] # <<>> /\ p \in ToServer
  /\ Len(up[u]) \in Nat /\ 1 \in 1 .. Len(up[u]) /\ p = up[u][1]
  /\ up'[u] = Tail(up[u]) /\ \A v \in User : v # u => up'[v] = up[v]
  /\ UNCHANGED <<client, connected, aux>>
  /\ p.type \in {"join", "syncRequest", "left", "create", "task", "clear",
                 "start", "data", "complete"}
  /\ p.type = "join" =>
       /\ room' = room \cup {u}
       /\ down' = Written({u}, [type |-> "resJoin", first |-> room' = {u}])
  /\ p.type = "syncRequest" =>
       /\ room' = room
       /\ \/ room \subseteq {u} /\ down' = down
          \/ \E w \in room \ {u} : down' = Written({w}, [type |-> "runSync", target |-> u])
  /\ p.type = "left" => room' = room \ {u} /\ down' = down
  /\ Bundled(p) => room' = room /\ down' = Written({p.target} \cap room, p)
  /\ p.type \in {"create", "task", "clear"} =>
       room' = room /\ down' = Written(room \ {u}, p)
  /\ Bundled(p) \/ p.type \in {"create", "task", "clear"} => p \in FromServer

LEMMA ServerCases ==
  ASSUME TypeOK, NEW u \in User, ServerHandles(u)
  PROVE  ServerEffect(u, up[u][1])
<1> PICK p : p = up[u][1]
  OBVIOUS
<1>1. up[u] \in Seq(ToServer) /\ up[u] # <<>>
  BY DEF ServerHandles, TypeOK
<1>2. Head(up[u]) = p /\ Len(up[u]) \in Nat /\ 1 \in 1 .. Len(up[u]) /\ p \in ToServer
  BY <1>1, InHead
<1>3. up'[u] = Tail(up[u]) /\ \A v \in User : v # u => up'[v] = up[v]
  BY DEF ServerHandles, TypeOK
<1>4. UNCHANGED <<client, connected, aux>>
  BY DEF ServerHandles
<1>5. p \in UpOver(Key)
  BY <1>2 DEF UpOver, EditOver, SyncOver, ToServer, Edit, SyncPacket
<1>6. ASSUME p.type = "join"
      PROVE  /\ room' = room \cup {u}
             /\ down' = Written({u}, [type |-> "resJoin", first |-> room' = {u}])
  <2>1. Joins(u)
    BY <1>2, <1>6 DEF ServerHandles
  <2>2. {u} \cap room' = {u} /\ room' = room \cup {u}
    BY <2>1 DEF Joins
  <2> QED BY <2>1, <2>2 DEF Joins
<1>7. p.type = "syncRequest" => AsksForSync(u)
  BY <1>2 DEF ServerHandles
<1>8. p.type = "left" => Leaves(u)
  BY <1>2 DEF ServerHandles
<1>9. Bundled(p) \/ p.type \in {"create", "task", "clear"} => Relays(u, p)
  BY <1>2 DEF ServerHandles, Bundled
<1>10. Bundled(p) => "target" \in DOMAIN p
  BY <1>5, UpPacket DEF Bundled
<1>11. p.type \in {"create", "task", "clear"} => ~("target" \in DOMAIN p)
  BY <1>5, UpPacket DEF Bundled
<1>12. Bundled(p) \/ p.type \in {"create", "task", "clear"} => p \in FromServer
  <2>1. Bundled(p) \/ p.type \in {"create", "task", "clear"} => p \in DownOver(Key)
    BY <1>5, UpPacket DEF Bundled
  <2> QED BY <2>1 DEF DownOver, EditOver, SyncOver, FromServer, Edit, SyncPacket
<1>13. p.type \in {"join", "syncRequest", "left", "create", "task", "clear",
                   "start", "data", "complete"}
  BY <1>5, UpPacket
<1>14. p.type = "syncRequest" =>
         /\ room' = room
         /\ \/ room \subseteq {u} /\ down' = down
            \/ \E w \in room \ {u} : down' = Written({w}, [type |-> "runSync", target |-> u])
  BY <1>7 DEF AsksForSync
<1>15. p.type = "left" => room' = room \ {u} /\ down' = down
  BY <1>8 DEF Leaves
<1>16. Bundled(p) => room' = room /\ down' = Written({p.target} \cap room, p)
  BY <1>9, <1>10 DEF Relays
<1>17. p.type \in {"create", "task", "clear"} => room' = room /\ down' = Written(room \ {u}, p)
  BY <1>9, <1>11 DEF Relays, RoomCast
<1> QED BY <1>1, <1>2, <1>3, <1>4, <1>6, <1>12, <1>13, <1>14, <1>15, <1>16, <1>17
        DEF ServerEffect

LEMMA ConnServer ==
  ASSUME TypeOK, Conn, NEW u \in User, ServerHandles(u)
  PROVE  Conn'
<1>0. PICK p : p = up[u][1] /\ ServerEffect(u, p)
  BY ServerCases
<1>1. /\ up[u] \in Seq(ToServer) /\ up[u] # <<>> /\ 1 \in 1 .. Len(up[u]) /\ p \in ToServer
      /\ up'[u] = Tail(up[u]) /\ \A v \in User : v # u => up'[v] = up[v]
      /\ UNCHANGED <<client, connected, aux>>
  BY <1>0 DEF ServerEffect
<1>2. UNCHANGED <<serializing, whole, strayed>>
  BY <1>1 DEF client, aux
(* The queue to the server.                                                 *)
<1>18. Headless(up'[u], up[u])
  BY <1>1, InTail
<1>3. \A v \in User : \A i \in 1 .. Len(up'[v]) :
        \E j \in 1 .. Len(up[v]) : up'[v][i] = up[v][j] /\ (v # u => j = i) /\ (v = u => j = i + 1)
  <2>1. ASSUME NEW i \in 1 .. Len(up'[u])
        PROVE  i + 1 \in 1 .. Len(up[u]) /\ up'[u][i] = up[u][i + 1]
    BY <1>1, <1>18 DEF Headless
  <2> QED BY <1>1, <2>1
<1>4. \A i \in 1 .. Len(up'[u]) : up'[u][i].type # "join"
  <2> TAKE i \in 1 .. Len(up'[u])
  <2>1. i + 1 # 1 /\ i + 1 \in 1 .. Len(up[u]) /\ up'[u][i] = up[u][i + 1]
    BY <1>18 DEF Headless
  <2>2. UpFits(u, i + 1)
    BY <2>1 DEF Conn, Line
  <2> QED BY <2>1, <2>2 DEF UpFits
<1>20. /\ p.type = "join" => room' = room \cup {u}
       /\ p.type = "left" => room' = room \ {u}
       /\ p.type \notin {"join", "left"} => room' = room
  BY <1>0 DEF Bundled, ServerEffect
<1>5. \A v \in User : v \in room \/ (v = u /\ p.type = "join") =>
        v \in room' \/ (v = u /\ p.type = "left")
  BY <1>20
<1>6. ASSUME NEW v \in User PROVE v \in connected' => (v \in room \/ Joining(v))'
  <2>1. CASE v = u
    <3>1. v \in connected => v \in room \/ p.type = "join"
      BY <1>0, <2>1 DEF Conn, Line, Joining
    <3>2. v \in connected => p.type # "left"
      <4>1. UpFits(u, 1)
        BY <1>1 DEF Conn, Line
      <4> QED BY <1>0, <2>1, <4>1 DEF UpFits
    <3> QED BY <1>1, <1>5, <2>1, <3>1, <3>2
  <2>2. CASE v # u
    BY <1>1, <1>5, <2>2 DEF Conn, Line, Joining
  <2> QED BY <2>1, <2>2
(* What is written to v.                                                    *)
<1>7. ASSUME NEW v \in User
      PROVE  \/ down'[v] = down[v]
             \/ \E q \in FromServer :
                  /\ v \in connected /\ down'[v] = Append(down[v], q)
                  /\ v \in room \/ (v = u /\ p.type = "join")
                  /\ q.type = "resJoin" => v = u /\ p.type = "join"
                  /\ q.type = "runSync" => q.target # v
  <2>1. CASE p.type = "join"
    <3>1. PICK q : q = [type |-> "resJoin", first |-> room' = {u}]
      OBVIOUS
    <3>2. q \in FromServer /\ q.type = "resJoin"
      BY <3>1 DEF FromServer
    <3>3. down' = Written({u}, q)
      BY <2>1, <3>1, <1>0 DEF ServerEffect
    <3>4. \/ down'[v] = down[v]
          \/ v = u /\ v \in connected /\ down'[v] = Append(down[v], q)
      BY <3>3, WrittenIs
    <3> QED BY <2>1, <3>2, <3>4
  <2>2. CASE p.type = "syncRequest"
    <3>1. [type |-> "runSync", target |-> u] \in FromServer
      BY DEF FromServer
    <3>2. CASE down' = down
      BY <3>2
    <3>3. ASSUME NEW w \in room \ {u},
                 down' = Written({w}, [type |-> "runSync", target |-> u])
          PROVE  \/ down'[v] = down[v]
                 \/ /\ v \in connected /\ v \in room /\ v # u
                    /\ down'[v] = Append(down[v], [type |-> "runSync", target |-> u])
      BY <3>3, WrittenIs
    <3>4. \/ room \subseteq {u} /\ down' = down
          \/ \E w \in room \ {u} : down' = Written({w}, [type |-> "runSync", target |-> u])
      BY <2>2, <1>0 DEF ServerEffect
    <3>5. [type |-> "runSync", target |-> u].type = "runSync"
          /\ [type |-> "runSync", target |-> u].target = u
      OBVIOUS
    <3> HIDE <2>2
    <3>6. \/ down'[v] = down[v]
          \/ /\ v \in connected /\ v \in room /\ v # u
             /\ down'[v] = Append(down[v], [type |-> "runSync", target |-> u])
      BY <3>2, <3>3, <3>4
    <3> QED BY <3>1, <3>5, <3>6
  <2>3. CASE p.type = "left"
    BY <2>3, <1>0 DEF Bundled, ServerEffect
  <2>4. CASE p.type \in {"create", "task", "clear"} \/ Bundled(p)
    <3>1. p \in FromServer /\ p.type \notin {"resJoin", "runSync"}
      BY <2>4, <1>0 DEF Bundled, ServerEffect
    <3>2. PICK users : users \subseteq room /\ down' = Written(users, p)
      <4>1. CASE Bundled(p)
        BY <4>1, <1>0 DEF ServerEffect
      <4>2. CASE p.type \in {"create", "task", "clear"}
        BY <4>2, <1>0 DEF ServerEffect
      <4> QED BY <2>4, <4>1, <4>2
    <3>3. \/ down'[v] = down[v]
          \/ v \in users /\ v \in connected /\ down'[v] = Append(down[v], p)
      BY <3>2, WrittenIs
    <3> QED BY <3>1, <3>2, <3>3
  <2> QED BY <2>1, <2>2, <2>3, <2>4, <1>0 DEF Bundled, ServerEffect
<1>8. ASSUME NEW v \in User PROVE Line(v)'
  <2>1. v \notin connected' => down'[v] = <<>>
    BY <1>1, <1>7 DEF Conn, Line
  <2>2. \A i \in 1 .. Len(up'[v]) : UpFits(v, i)'
    <3> TAKE i \in 1 .. Len(up'[v])
    <3> PICK j \in 1 .. Len(up[v]) : up'[v][i] = up[v][j] /\ (v # u => j = i)
      BY <1>3
    <3>1. UpFits(v, j)
      BY DEF Conn, Line
    <3>2. up'[v][i].type = "join" =>
          v # u /\ i = 1 /\ v \notin room \cup whole /\ down[v] = <<>>
      BY <1>4, <3>1 DEF UpFits
    <3>3. v # u => (v \in room' => v \in room)
      BY <1>20
    <3>4. v # u /\ v \notin room => down'[v] = down[v]
      BY <1>7
    <3> QED BY <1>1, <1>2, <3>1, <3>2, <3>3, <3>4 DEF UpFits
  <2>3. \A i \in 1 .. Len(down'[v]) : DownFits(v, i)'
    <3>1. CASE down'[v] = down[v]
      BY <1>2, <3>1 DEF Conn, Line, DownFits
    <3>2. ASSUME NEW q \in FromServer, v \in connected, down'[v] = Append(down[v], q),
                 q.type = "resJoin" => v = u /\ p.type = "join",
                 q.type = "runSync" => q.target # v
          PROVE  \A i \in 1 .. Len(down'[v]) : DownFits(v, i)'
      <4>1. down[v] \in Seq(FromServer)
        BY DEF TypeOK
      <4>2. q.type = "resJoin" => down[v] = <<>> /\ v \notin whole
        <5>1. UpFits(u, 1)
          BY <1>1 DEF Conn, Line
        <5> QED BY <1>0, <3>2, <5>1 DEF UpFits
      <4>6. Appended(down'[v], down[v], q)
        BY <3>2, <4>1, InAppend
      <4>5. /\ \A i \in 1 .. Len(down[v]) : down'[v][i] = down[v][i]
            /\ down'[v][Len(down[v]) + 1] = q /\ (down[v] = <<>> => Len(down[v]) + 1 = 1)
            /\ \A i \in 1 .. Len(down'[v]) : i \in 1 .. Len(down[v]) \/ i = Len(down[v]) + 1
        BY <4>1, <4>6 DEF Appended
      <4> TAKE i \in 1 .. Len(down'[v])
      <4>3. CASE i \in 1 .. Len(down[v])
        BY <1>2, <3>2, <4>3, <4>5 DEF Conn, Line, DownFits
      <4>4. CASE i = Len(down[v]) + 1
        BY <1>2, <3>2, <4>2, <4>4, <4>5 DEF DownFits
      <4> QED BY <4>3, <4>4, <4>5
    <3> QED BY <1>7, <3>1, <3>2
  <2>4. v \notin serializing'[v].target
    BY <1>2 DEF Conn, Line
  <2> QED BY <1>6, <2>1, <2>2, <2>3, <2>4 DEF Line
<1> QED BY <1>1, <1>2, <1>8 DEF Conn

(* A client receives.                                                       *)
ReceiveEffect(u, p) ==
  /\ down[u] \in Seq(FromServer) /\ down[u] # <<>> /\ p \in FromServer
  /\ Len(down[u]) \in Nat /\ 1 \in 1 .. Len(down[u]) /\ p = down[u][1]
  /\ down'[u] = Tail(down[u]) /\ \A v \in User : v # u => down'[v] = down[v]
  /\ UNCHANGED <<connected, room, made, broken, strayed>>
  /\ u \in connected /\ serializing[u] = None
  /\ p.type \in {"resJoin", "runSync", "create", "task", "clear", "start", "data", "complete"}
  /\ p.type = "resJoin" => HandleResJoin(u, p.first)
  /\ p.type = "runSync" => HandleRunSync(u, p.target)
  /\ p.type = "start" => HandleStart(u, p.runner)
  /\ p.type = "complete" => HandleComplete(u, p.whole)
  /\ p.type = "create" => HandleEdits(u, {p.key}, <<>>)
  /\ p.type = "task" => HandleEdits(u, {}, <<p.task>>)
  /\ p.type = "data" => HandleEdits(u, p.items, p.tasks)
  /\ p.type = "clear" => HandleClear(u)

LEMMA ReceiveCases ==
  ASSUME TypeOK, NEW u \in User, Receive(u)
  PROVE  ReceiveEffect(u, down[u][1])
<1> PICK p : p = down[u][1]
  OBVIOUS
<1>1. down[u] \in Seq(FromServer) /\ down[u] # <<>>
  BY DEF Receive, TypeOK
<1>2. Head(down[u]) = p /\ Len(down[u]) \in Nat /\ 1 \in 1 .. Len(down[u]) /\ p \in FromServer
  BY <1>1, InHead
<1>3. down'[u] = Tail(down[u]) /\ \A v \in User : v # u => down'[v] = down[v]
  BY DEF Receive, TypeOK
<1>4. p \in DownOver(Key)
  BY <1>2 DEF DownOver, EditOver, SyncOver, FromServer, Edit, SyncPacket
<1>5. p.type \in {"resJoin", "runSync", "create", "task", "clear", "start", "data", "complete"}
  BY <1>4, DownPacket
<1> QED BY <1>1, <1>2, <1>3, <1>5 DEF Receive, ReceiveEffect

LEMMA ConnReceive ==
  ASSUME TypeOK, Conn, NEW u \in User, Receive(u)
  PROVE  Conn'
<1>0. PICK p : p = down[u][1] /\ ReceiveEffect(u, p)
  BY ReceiveCases
<1>1. /\ down[u] \in Seq(FromServer) /\ down[u] # <<>> /\ 1 \in 1 .. Len(down[u])
      /\ down'[u] = Tail(down[u]) /\ \A v \in User : v # u => down'[v] = down[v]
      /\ UNCHANGED <<connected, room, strayed>> /\ u \in connected
  BY <1>0 DEF ReceiveEffect
<1>2. \/ up' = up
      \/ p.type = "resJoin" /\ up' = [up EXCEPT ![u] = Append(@, [type |-> "syncRequest"])]
  BY <1>0 DEF ReceiveEffect, HandleResJoin, HandleRunSync, HandleStart, HandleComplete, HandleEdits,
                      HandleClear
<1>3. \/ serializing' = serializing
      \/ /\ p.type = "runSync"
         /\ serializing' = [serializing EXCEPT ![u] = [target |-> {p.target}, items |-> items[u]]]
  BY <1>0 DEF ReceiveEffect, HandleResJoin, HandleRunSync, HandleStart, HandleComplete, HandleEdits,
                      HandleClear
<1>4. whole' = whole \/ (whole' = whole \cup {u} /\ u \notin strayed)
  BY <1>0 DEF ReceiveEffect, HandleResJoin, HandleRunSync, HandleStart, HandleComplete, HandleEdits,
                      HandleClear
<1>5. ASSUME NEW v \in User PROVE v \notin serializing'[v].target
  <2>1. CASE serializing' = serializing
    BY <2>1 DEF Conn, Line
  <2>2. CASE p.type = "runSync"
             /\ serializing' = [serializing EXCEPT ![u] = [target |-> {p.target}, items |-> items[u]]]
    <3>1. p.target # u
      <4>1. DownFits(u, 1)
        BY <1>1 DEF Conn, Line
      <4> QED BY <1>0, <2>2, <4>1 DEF DownFits
    <3> QED BY <2>2, <3>1 DEF Conn, Line, TypeOK
  <2> QED BY <1>3, <2>1, <2>2
<1>6. ASSUME NEW v \in User PROVE \A i \in 1 .. Len(down'[v]) : DownFits(v, i)'
  <2>1. CASE v # u
    BY <1>1, <1>4, <2>1 DEF Conn, Line, DownFits
  <2>2. CASE v = u
    <3>1. \A i \in 1 .. Len(down'[u]) :
            i + 1 \in 1 .. Len(down[u]) /\ down'[u][i] = down[u][i + 1] /\ i + 1 # 1
      BY <1>1, InTail DEF Headless
    <3> QED BY <2>2, <3>1 DEF Conn, Line, DownFits
  <2> QED BY <2>1, <2>2
<1>7. ASSUME NEW v \in User PROVE \A i \in 1 .. Len(up'[v]) : UpFits(v, i)'
  <2>1. v = u => \A i \in 1 .. Len(up[u]) : up[u][i].type # "join"
    BY <1>1 DEF Conn, Line, UpFits
  <2>2. \A i \in 1 .. Len(up[v]) : UpFits(v, i)
    BY DEF Conn, Line
  <2>3. CASE up'[v] = up[v]
    BY <1>1, <1>4, <2>1, <2>2, <2>3 DEF UpFits
  <2>4. CASE v = u /\ up'[u] = Append(up[u], [type |-> "syncRequest"])
    <3>1. up[u] \in Seq(ToServer) /\ [type |-> "syncRequest"] \in ToServer
      BY DEF TypeOK, ToServer
    <3>5. Appended(up'[u], up[u], [type |-> "syncRequest"])
      BY <2>4, <3>1, InAppend
    <3>2. ASSUME NEW i \in 1 .. Len(up'[u]) PROVE UpFits(u, i)'
      <4>1. CASE i \in 1 .. Len(up[u])
        BY <1>1, <2>1, <2>2, <2>4, <3>5, <4>1 DEF UpFits, Appended
      <4>2. CASE i = Len(up[u]) + 1
        BY <3>5, <4>2 DEF UpFits, Bundled, Appended
      <4> QED BY <3>5, <4>1, <4>2 DEF Appended
    <3> QED BY <2>4, <3>2
  <2> QED BY <1>2, <2>3, <2>4 DEF TypeOK
<1>8. ASSUME NEW v \in User PROVE v \in connected' => (v \in room \/ Joining(v))'
  <2>1. CASE up'[v] = up[v]
    BY <1>1, <2>1 DEF Conn, Line, Joining
  <2>2. CASE v = u
    BY <1>1, <2>2 DEF Conn, Line, Joining, UpFits
  <2> QED BY <1>2, <2>1, <2>2 DEF TypeOK
<1>9. ASSUME NEW v \in User PROVE v \notin connected' => down'[v] = <<>>
  BY <1>1 DEF Conn, Line
<1> QED BY <1>1, <1>4, <1>5, <1>6, <1>7, <1>8, <1>9 DEF Conn, Line

-----------------------------------------------------------------------------
(* How far the synchronisation of z has come, as far as it may still make   *)
(* his painting whole: a is the stage of it, s who runs it.  A packet on    *)
(* its way belongs to one stage only, so there is never a second one.       *)
UpMatters(z, v, p) ==
  (v = z /\ p.type \in {"join", "syncRequest"}) \/ (Bundled(p) /\ p.target = z)

DownMatters(z, v, p) ==
  (v = z /\ (p.type = "resJoin" \/ Bundled(p))) \/ (p.type = "runSync" /\ p.target = z)

UpStage(z, a, s, v, i) ==
  UpMatters(z, v, up[v][i]) =>
    /\ up[v][i].type = "join" => a = "none"
    /\ up[v][i].type = "syncRequest" =>
         /\ a = "ask"
         /\ \A j \in 1 .. Len(up[v]) : up[v][j].type = "syncRequest" => j = i
    /\ Bundled(up[v][i]) => a = "send" /\ s = v
    /\ up[v][i].type = "complete" =>
         \A j \in 1 .. Len(up[v]) : Bundled(up[v][j]) /\ up[v][j].target = z => j <= i

DownStage(z, a, s, v, i) ==
  DownMatters(z, v, down[v][i]) =>
    /\ down[v][i].type = "resJoin" => a = "none"
    /\ down[v][i].type = "runSync" =>
         /\ a = "run" /\ s = v
         /\ \A j \in 1 .. Len(down[v]) :
              down[v][j].type = "runSync" /\ down[v][j].target = z => j = i
    /\ Bundled(down[v][i]) => a \in {"send", "arrive"}
    /\ down[v][i].type = "complete" =>
         a = "arrive" /\ \A j \in 1 .. Len(down[v]) : Bundled(down[v][j]) => j <= i

Steps(z, a, s) ==
  /\ z \notin connected \/ z \in whole => a = "none"
  /\ \A v \in User :
       /\ \A i \in 1 .. Len(up[v]) : UpStage(z, a, s, v, i)
       /\ \A i \in 1 .. Len(down[v]) : DownStage(z, a, s, v, i)
       /\ z \in serializing[v].target => a = "write" /\ s = v
  /\ syncStartedFlag[z] => a # "none"

Stage == {"none", "ask", "run", "write", "send", "arrive"}

Synchronised == \A z \in User \ strayed : \E a \in Stage, s \in User : Steps(z, a, s)

-----------------------------------------------------------------------------
(* Nothing new that matters to z.                                           *)
UpLess(z, v) ==
  \E d \in Nat : \A i \in 1 .. Len(up'[v]) :
    UpMatters(z, v, up'[v][i]) => i + d \in 1 .. Len(up[v]) /\ up'[v][i] = up[v][i + d]

DownLess(z, v) ==
  \E d \in Nat : \A i \in 1 .. Len(down'[v]) :
    DownMatters(z, v, down'[v][i]) => i + d \in 1 .. Len(down[v]) /\ down'[v][i] = down[v][i + d]

LEMMA UpStageLess ==
  ASSUME NEW z, NEW a, NEW s, NEW v \in User, Steps(z, a, s), UpLess(z, v),
         NEW i \in 1 .. Len(up'[v])
  PROVE  UpStage(z, a, s, v, i)'
<1>1. PICK d \in Nat : \A j \in 1 .. Len(up'[v]) :
        UpMatters(z, v, up'[v][j]) => j + d \in 1 .. Len(up[v]) /\ up'[v][j] = up[v][j + d]
  BY DEF UpLess
<1>2. SUFFICES ASSUME UpMatters(z, v, up'[v][i])
               PROVE  UpStage(z, a, s, v, i)'
  BY DEF UpStage, UpMatters, Bundled
<1>3. i + d \in 1 .. Len(up[v]) /\ up'[v][i] = up[v][i + d]
  BY <1>1, <1>2
<1>4. UpStage(z, a, s, v, i + d)
  BY <1>3 DEF Steps
<1>5. ASSUME NEW j \in 1 .. Len(up'[v]), UpMatters(z, v, up'[v][j])
      PROVE  /\ up'[v][i].type = "syncRequest" /\ up'[v][j].type = "syncRequest" => j = i
             /\ up'[v][i].type = "complete" /\ Bundled(up'[v][j]) /\ up'[v][j].target = z => j <= i
  <2>1. j + d \in 1 .. Len(up[v]) /\ up'[v][j] = up[v][j + d]
    BY <1>1, <1>5
  <2>2. up'[v][i].type = "syncRequest" /\ up'[v][j].type = "syncRequest" => j + d = i + d
    BY <1>2, <1>3, <1>4, <2>1 DEF UpStage
  <2>3. up'[v][i].type = "complete" /\ Bundled(up'[v][j]) /\ up'[v][j].target = z => j + d <= i + d
    BY <1>2, <1>3, <1>4, <2>1 DEF UpStage
  <2> QED BY <2>2, <2>3
<1>6. \A j \in 1 .. Len(up'[v]) :
        /\ up'[v][i].type = "syncRequest" /\ up'[v][j].type = "syncRequest" => j = i
        /\ up'[v][i].type = "complete" /\ Bundled(up'[v][j]) /\ up'[v][j].target = z => j <= i
  <2> TAKE j \in 1 .. Len(up'[v])
  <2>1. CASE UpMatters(z, v, up'[v][j])
    BY <1>5, <2>1
  <2>2. CASE ~UpMatters(z, v, up'[v][j])
    BY <1>2, <2>2 DEF UpMatters, Bundled
  <2> QED BY <2>1, <2>2
<1> QED BY <1>2, <1>3, <1>4, <1>6 DEF UpStage

LEMMA DownStageLess ==
  ASSUME NEW z, NEW a, NEW s, NEW v \in User, Steps(z, a, s), DownLess(z, v),
         NEW i \in 1 .. Len(down'[v])
  PROVE  DownStage(z, a, s, v, i)'
<1>1. PICK d \in Nat : \A j \in 1 .. Len(down'[v]) :
        DownMatters(z, v, down'[v][j]) => j + d \in 1 .. Len(down[v]) /\ down'[v][j] = down[v][j + d]
  BY DEF DownLess
<1>2. SUFFICES ASSUME DownMatters(z, v, down'[v][i])
               PROVE  DownStage(z, a, s, v, i)'
  BY DEF DownStage, DownMatters, Bundled
<1>3. i + d \in 1 .. Len(down[v]) /\ down'[v][i] = down[v][i + d]
  BY <1>1, <1>2
<1>4. DownStage(z, a, s, v, i + d)
  BY <1>3 DEF Steps
<1>5. ASSUME NEW j \in 1 .. Len(down'[v]), DownMatters(z, v, down'[v][j])
      PROVE  /\ /\ down'[v][i].type = "runSync" /\ down'[v][j].type = "runSync"
                /\ down'[v][j].target = z
                => j = i
             /\ down'[v][i].type = "complete" /\ Bundled(down'[v][j]) => j <= i
  <2>1. j + d \in 1 .. Len(down[v]) /\ down'[v][j] = down[v][j + d]
    BY <1>1, <1>5
  <2>2. /\ down'[v][i].type = "runSync" /\ down'[v][j].type = "runSync"
        /\ down'[v][j].target = z
        => j + d = i + d
    BY <1>2, <1>3, <1>4, <2>1 DEF DownStage
  <2>3. down'[v][i].type = "complete" /\ Bundled(down'[v][j]) => j + d <= i + d
    BY <1>2, <1>3, <1>4, <2>1 DEF DownStage
  <2> QED BY <2>2, <2>3
<1>6. \A j \in 1 .. Len(down'[v]) :
        /\ /\ down'[v][i].type = "runSync" /\ down'[v][j].type = "runSync"
           /\ down'[v][j].target = z
           => j = i
        /\ down'[v][i].type = "complete" /\ Bundled(down'[v][j]) => j <= i
  <2> TAKE j \in 1 .. Len(down'[v])
  <2>1. CASE DownMatters(z, v, down'[v][j])
    BY <1>5, <2>1
  <2>2. CASE ~DownMatters(z, v, down'[v][j])
    BY <1>2, <2>2 DEF DownMatters, Bundled
  <2> QED BY <2>1, <2>2
<1> QED BY <1>2, <1>3, <1>4, <1>6 DEF DownStage

LEMMA StepsLess ==
  ASSUME NEW z, NEW a, NEW s, Steps(z, a, s),
         \A v \in User : /\ UpLess(z, v) /\ DownLess(z, v)
                         /\ z \in serializing'[v].target => z \in serializing[v].target,
         z \notin connected' \/ z \in whole' => a = "none",
         syncStartedFlag'[z] => a # "none"
  PROVE  Steps(z, a, s)'
<1>1. \A v \in User : /\ \A i \in 1 .. Len(up'[v]) : UpStage(z, a, s, v, i)'
                      /\ \A i \in 1 .. Len(down'[v]) : DownStage(z, a, s, v, i)'
  BY UpStageLess, DownStageLess
<1>2. ASSUME NEW v \in User PROVE z \in serializing'[v].target => a = "write" /\ s = v
  BY DEF Steps
<1> QED BY <1>1, <1>2 DEF Steps

LEMMA LessSame ==
  ASSUME NEW z, NEW v, Len(up[v]) \in Nat, Len(down[v]) \in Nat
  PROVE  /\ up'[v] = up[v] => UpLess(z, v)
         /\ down'[v] = down[v] => DownLess(z, v)
<1>1. 0 \in Nat /\ \A i \in 1 .. Len(up[v]) : i + 0 = i
  OBVIOUS
<1>2. \A i \in 1 .. Len(down[v]) : i + 0 = i
  OBVIOUS
<1>3. up'[v] = up[v] => UpLess(z, v)
  BY <1>1 DEF UpLess
<1>4. down'[v] = down[v] => DownLess(z, v)
  BY <1>1, <1>2 DEF DownLess
<1> QED BY <1>3, <1>4

LEMMA LessTail ==
  ASSUME NEW z, NEW v
  PROVE  /\ Headless(up'[v], up[v]) => UpLess(z, v)
         /\ Headless(down'[v], down[v]) => DownLess(z, v)
  BY DEF UpLess, DownLess, Headless

LEMMA LessAppended ==
  ASSUME NEW z, NEW v, NEW p
  PROVE  /\ Appended(up'[v], up[v], p) /\ ~UpMatters(z, v, p) => UpLess(z, v)
         /\ Appended(down'[v], down[v], p) /\ ~DownMatters(z, v, p) => DownLess(z, v)
<1>1. ASSUME Appended(up'[v], up[v], p), ~UpMatters(z, v, p)
      PROVE  UpLess(z, v)
  <2>1. 0 \in Nat /\ \A i \in 1 .. Len(up[v]) : i + 0 = i
    BY <1>1 DEF Appended
  <2>2. \A i \in 1 .. Len(up'[v]) :
          UpMatters(z, v, up'[v][i]) => i + 0 \in 1 .. Len(up[v]) /\ up'[v][i] = up[v][i + 0]
    BY <1>1, <2>1 DEF Appended
  <2> QED BY <2>1, <2>2 DEF UpLess
<1>2. ASSUME Appended(down'[v], down[v], p), ~DownMatters(z, v, p)
      PROVE  DownLess(z, v)
  <2>1. 0 \in Nat /\ \A i \in 1 .. Len(down[v]) : i + 0 = i
    BY <1>2 DEF Appended
  <2>2. \A i \in 1 .. Len(down'[v]) :
          DownMatters(z, v, down'[v][i])
            => i + 0 \in 1 .. Len(down[v]) /\ down'[v][i] = down[v][i + 0]
    BY <1>2, <2>1 DEF Appended
  <2> QED BY <2>1, <2>2 DEF DownLess
<1> QED BY <1>1, <1>2

LEMMA LessJoined ==
  ASSUME NEW z, NEW v, NEW r, Joined(up'[v], up[v], r),
         \A i \in 1 .. Len(r) : ~UpMatters(z, v, r[i])
  PROVE  UpLess(z, v)
<1>1. 0 \in Nat /\ \A i \in 1 .. Len(up[v]) : i + 0 = i
  BY DEF Joined
<1>2. ASSUME NEW i \in 1 .. Len(up'[v]), UpMatters(z, v, up'[v][i])
      PROVE  i + 0 \in 1 .. Len(up[v]) /\ up'[v][i] = up[v][i + 0]
  <2>1. CASE i \in 1 .. Len(up[v])
    BY <1>1, <2>1 DEF Joined
  <2>2. ASSUME NEW j \in 1 .. Len(r), i = Len(up[v]) + j PROVE FALSE
    BY <1>2, <2>2 DEF Joined
  <2> QED BY <2>1, <2>2 DEF Joined
<1> QED BY <1>1, <1>2 DEF UpLess

LEMMA LessCut ==
  ASSUME NEW z, NEW v, NEW n, CutOff(up'[v], up[v], n, [type |-> "left"])
  PROVE  UpLess(z, v)
<1>1. 0 \in Nat /\ \A i \in 1 .. n : i + 0 = i
  BY DEF CutOff
<1>2. ~UpMatters(z, v, [type |-> "left"])
  BY DEF UpMatters, Bundled
<1>3. ASSUME NEW i \in 1 .. Len(up'[v]), UpMatters(z, v, up'[v][i])
      PROVE  i + 0 \in 1 .. Len(up[v]) /\ up'[v][i] = up[v][i + 0]
  BY <1>1, <1>2, <1>3 DEF CutOff
<1> QED BY <1>1, <1>3 DEF UpLess

LEMMA Lens ==
  ASSUME TypeOK, NEW v \in User
  PROVE  Len(up[v]) \in Nat /\ Len(down[v]) \in Nat
         /\ up[v] \in Seq(ToServer) /\ down[v] \in Seq(FromServer)
<1>1. up[v] \in Seq(ToServer) /\ down[v] \in Seq(FromServer)
  BY DEF TypeOK
<1> QED BY <1>1

(* Packets that carry edits or a clear do not matter.                       *)
Edits(r) == \A i \in 1 .. Len(r) : r[i].type \in {"create", "task", "clear"}

LEMMA SyncSends ==
  ASSUME TypeOK, Synchronised, NEW u \in User, NEW r \in Seq(ToServer), Sent(u, r), Edits(r),
         UNCHANGED <<syncStartedFlag, serializing, connected, down, room, whole, strayed>>
  PROVE  Synchronised'
<1>1. ASSUME NEW z \in User \ strayed, NEW a \in Stage, NEW s \in User, Steps(z, a, s)
      PROVE  Steps(z, a, s)'
  <2>1. ASSUME NEW v \in User PROVE UpLess(z, v) /\ DownLess(z, v)
    <3>1. DownLess(z, v)
      BY LessSame, Lens
    <3>2. CASE up'[v] = up[v]
      BY <3>1, <3>2, LessSame, Lens
    <3>3. CASE up'[v] = up[v] \o r
      <4>1. Joined(up'[v], up[v], r)
        BY <3>3, Lens, InConcat
      <4>2. \A i \in 1 .. Len(r) : ~UpMatters(z, v, r[i])
        BY DEF Edits, UpMatters, Bundled
      <4> QED BY <3>1, <4>1, <4>2, LessJoined
    <3> QED BY <3>2, <3>3 DEF Sent, TypeOK
  <2>2. z \notin connected' \/ z \in whole' => a = "none"
    BY <1>1 DEF Steps
  <2>3. syncStartedFlag'[z] => a # "none"
    BY <1>1 DEF Steps
  <2> QED BY <1>1, <2>1, <2>2, <2>3, StepsLess
<1> QED BY <1>1 DEF Synchronised

LEMMA SyncConnects ==
  ASSUME TypeOK, Conn, Synchronised, NEW u \in User, Connect(u), whole' \subseteq whole,
         UNCHANGED serializing, \A v \in User : syncStartedFlag'[v] => syncStartedFlag[v]
  PROVE  Synchronised'
<1>1. /\ up'[u] = <<[type |-> "join"]>> /\ down'[u] = <<>> /\ connected' = connected \cup {u}
      /\ strayed' = strayed /\ u \notin connected
      /\ \A v \in User : v # u => up'[v] = up[v] /\ down'[v] = down[v]
  BY DEF Connect, TypeOK
<1>2. ASSUME NEW z \in User \ strayed, NEW a \in Stage, NEW s \in User, Steps(z, a, s)
      PROVE  Steps(z, a, s)'
  <2>1. Len(up'[u]) = 1 /\ up'[u][1] = [type |-> "join"] /\ Len(down'[u]) = 0
    BY <1>1
  <2>2. CASE z = u
    <3>1. a = "none"
      BY <1>1, <1>2, <2>2 DEF Steps
    <3>2. \A i \in 1 .. Len(up'[u]) : UpStage(z, a, s, u, i)'
      BY <2>1, <3>1 DEF UpStage, Bundled
    <3>3. \A i \in 1 .. Len(down'[u]) : DownStage(z, a, s, u, i)'
      BY <2>1
    <3>4. \A v \in User : v # u => /\ \A i \in 1 .. Len(up'[v]) : UpStage(z, a, s, v, i)'
                                   /\ \A i \in 1 .. Len(down'[v]) : DownStage(z, a, s, v, i)'
      BY <1>1, <1>2 DEF Steps, UpStage, DownStage
    <3>5. \A v \in User : z \in serializing'[v].target => a = "write" /\ s = v
      BY <1>2 DEF Steps
    <3>6. syncStartedFlag'[z] => a # "none"
      BY <1>2 DEF Steps
    <3> QED BY <3>1, <3>2, <3>3, <3>4, <3>5, <3>6 DEF Steps
  <2>3. CASE z # u
    <3>1. ASSUME NEW v \in User PROVE UpLess(z, v) /\ DownLess(z, v)
      <4>1. CASE v # u
        BY <1>1, <4>1, LessSame, Lens
      <4>2. CASE v = u
        BY <2>1, <2>3, <4>2 DEF UpLess, DownLess, UpMatters, Bundled
      <4> QED BY <4>1, <4>2
    <3>2. z \notin connected' \/ z \in whole' => a = "none"
      BY <1>1, <1>2, <2>3 DEF Steps
    <3>3. syncStartedFlag'[z] => a # "none"
      BY <1>2 DEF Steps
    <3> QED BY <1>2, <3>1, <3>2, <3>3, StepsLess
  <2> QED BY <2>2, <2>3
<1> QED BY <1>1, <1>2 DEF Synchronised

LEMMA SyncBreak ==
  ASSUME TypeOK, Conn, Synchronised, NEW u \in User, Break(u)
  PROVE  Synchronised'
<1>1. /\ down'[u] = <<>> /\ connected' = connected \ {u} /\ whole' = whole \ {u}
      /\ strayed' = IF u \in whole THEN strayed ELSE strayed \cup {u}
      /\ UNCHANGED <<serializing, syncStartedFlag>>
      /\ \A v \in User : v # u => up'[v] = up[v] /\ down'[v] = down[v]
  BY DEF Break, TypeOK, client
<1>2. ASSUME NEW z \in User \ strayed', NEW a \in Stage, NEW s \in User, Steps(z, a, s)
      PROVE  Steps(z, a, s)'
  <2>1. ASSUME NEW v \in User PROVE UpLess(z, v) /\ DownLess(z, v)
    <3>1. CASE v # u
      BY <1>1, <3>1, LessSame, Lens
    <3>2. CASE v = u
      <4>1. UpLess(z, u)
        BY CutUp, LessCut
      <4>2. Len(down'[u]) = 0
        BY <1>1
      <4> QED BY <3>2, <4>1, <4>2 DEF DownLess
    <3> QED BY <3>1, <3>2
  <2>2. z \notin connected' \/ z \in whole' => a = "none"
    BY <1>1, <1>2 DEF Steps
  <2>3. syncStartedFlag'[z] => a # "none"
    BY <1>1, <1>2 DEF Steps
  <2> QED BY <1>1, <1>2, <2>1, <2>2, <2>3, StepsLess
<1>3. \A z \in User \ strayed' : z \in User \ strayed
  BY <1>1
<1> QED BY <1>2, <1>3 DEF Synchronised

(* No other stage than a's: the packet that a is about is the only one.     *)
LEMMA OnlyAsked ==
  ASSUME NEW z \in User, NEW s, Steps(z, "ask", s), NEW v \in User
  PROVE  /\ \A i \in 1 .. Len(up[v]) :
              UpMatters(z, v, up[v][i]) => v = z /\ up[v][i].type = "syncRequest"
         /\ \A i, j \in 1 .. Len(up[v]) :
              up[v][i].type = "syncRequest" /\ up[v][j].type = "syncRequest" /\ v = z => i = j
         /\ \A i \in 1 .. Len(down[v]) : ~DownMatters(z, v, down[v][i])
         /\ z \notin serializing[v].target
<1>1. ASSUME NEW i \in 1 .. Len(up[v]), UpMatters(z, v, up[v][i])
      PROVE  /\ v = z /\ up[v][i].type = "syncRequest"
             /\ \A j \in 1 .. Len(up[v]) : up[v][j].type = "syncRequest" => j = i
  <2>1. UpStage(z, "ask", s, v, i)
    BY DEF Steps
  <2> QED BY <1>1, <2>1 DEF UpStage, UpMatters
<1>2. ASSUME NEW i \in 1 .. Len(down[v]), DownMatters(z, v, down[v][i]) PROVE FALSE
  <2>1. DownStage(z, "ask", s, v, i)
    BY DEF Steps
  <2> QED BY <1>2, <2>1 DEF DownStage, DownMatters
<1>3. z \notin serializing[v].target
  BY DEF Steps
<1>4. \A i, j \in 1 .. Len(up[v]) :
        up[v][i].type = "syncRequest" /\ up[v][j].type = "syncRequest" /\ v = z => i = j
  BY <1>1 DEF UpMatters
<1> QED BY <1>1, <1>2, <1>3, <1>4

LEMMA OnlyRun ==
  ASSUME NEW z \in User, NEW s, Steps(z, "run", s), NEW v \in User
  PROVE  /\ \A i \in 1 .. Len(up[v]) : ~UpMatters(z, v, up[v][i])
         /\ \A i \in 1 .. Len(down[v]) :
              DownMatters(z, v, down[v][i]) => v = s /\ down[v][i].type = "runSync"
         /\ \A i, j \in 1 .. Len(down[v]) :
              /\ down[v][i].type = "runSync" /\ down[v][j].type = "runSync"
              /\ down[v][i].target = z /\ down[v][j].target = z
              => i = j
         /\ z \notin serializing[v].target
<1>1. ASSUME NEW i \in 1 .. Len(up[v]), UpMatters(z, v, up[v][i]) PROVE FALSE
  <2>1. UpStage(z, "run", s, v, i)
    BY DEF Steps
  <2> QED BY <1>1, <2>1 DEF UpStage, UpMatters
<1>2. ASSUME NEW i \in 1 .. Len(down[v]), DownMatters(z, v, down[v][i])
      PROVE  /\ v = s /\ down[v][i].type = "runSync"
             /\ \A j \in 1 .. Len(down[v]) :
                  down[v][j].type = "runSync" /\ down[v][j].target = z => j = i
  <2>1. DownStage(z, "run", s, v, i)
    BY DEF Steps
  <2> QED BY <1>2, <2>1 DEF DownStage, DownMatters
<1>3. z \notin serializing[v].target
  BY DEF Steps
<1>4. \A i, j \in 1 .. Len(down[v]) :
        /\ down[v][i].type = "runSync" /\ down[v][j].type = "runSync"
        /\ down[v][i].target = z /\ down[v][j].target = z
        => i = j
  BY <1>2 DEF DownMatters
<1> QED BY <1>1, <1>2, <1>3, <1>4

LEMMA OnlyWritten ==
  ASSUME NEW z \in User, NEW s, Steps(z, "write", s), NEW v \in User
  PROVE  /\ \A i \in 1 .. Len(up[v]) : ~UpMatters(z, v, up[v][i])
         /\ \A i \in 1 .. Len(down[v]) : ~DownMatters(z, v, down[v][i])
         /\ z \in serializing[v].target => v = s
<1>1. ASSUME NEW i \in 1 .. Len(up[v]), UpMatters(z, v, up[v][i]) PROVE FALSE
  <2>1. UpStage(z, "write", s, v, i)
    BY DEF Steps
  <2> QED BY <1>1, <2>1 DEF UpStage, UpMatters
<1>2. ASSUME NEW i \in 1 .. Len(down[v]), DownMatters(z, v, down[v][i]) PROVE FALSE
  <2>1. DownStage(z, "write", s, v, i)
    BY DEF Steps
  <2> QED BY <1>2, <2>1 DEF DownStage, DownMatters
<1>3. z \in serializing[v].target => v = s
  BY DEF Steps
<1> QED BY <1>1, <1>2, <1>3

LEMMA OnlySent ==
  ASSUME NEW z \in User, NEW s, Steps(z, "send", s), NEW v \in User
  PROVE  /\ \A i \in 1 .. Len(up[v]) :
              UpMatters(z, v, up[v][i]) => v = s /\ Bundled(up[v][i]) /\ up[v][i].target = z
         /\ \A i \in 1 .. Len(up[v]) : \A j \in 1 .. Len(up[v]) :
              /\ up[v][i].type = "complete" /\ up[v][i].target = z
              /\ Bundled(up[v][j]) /\ up[v][j].target = z
              => j <= i
         /\ \A i \in 1 .. Len(down[v]) :
              DownMatters(z, v, down[v][i]) => v = z /\ down[v][i].type \in {"start", "data"}
         /\ z \notin serializing[v].target
<1>1. ASSUME NEW i \in 1 .. Len(up[v]), UpMatters(z, v, up[v][i])
      PROVE  /\ v = s /\ Bundled(up[v][i]) /\ up[v][i].target = z
             /\ up[v][i].type = "complete" =>
                  \A j \in 1 .. Len(up[v]) : Bundled(up[v][j]) /\ up[v][j].target = z => j <= i
  <2>1. UpStage(z, "send", s, v, i)
    BY DEF Steps
  <2> QED BY <1>1, <2>1 DEF UpStage, UpMatters
<1>2. ASSUME NEW i \in 1 .. Len(down[v]), DownMatters(z, v, down[v][i])
      PROVE  v = z /\ down[v][i].type \in {"start", "data"}
  <2>1. DownStage(z, "send", s, v, i)
    BY DEF Steps
  <2> QED BY <1>2, <2>1 DEF DownStage, DownMatters, Bundled
<1>3. z \notin serializing[v].target
  BY DEF Steps
<1>4. ASSUME NEW i \in 1 .. Len(up[v]), NEW j \in 1 .. Len(up[v]),
             up[v][i].type = "complete", up[v][i].target = z,
             Bundled(up[v][j]), up[v][j].target = z
      PROVE  j <= i
  BY <1>1, <1>4 DEF UpMatters, Bundled
<1> QED BY <1>1, <1>2, <1>3, <1>4

LEMMA OnlyArriving ==
  ASSUME NEW z \in User, NEW s, Steps(z, "arrive", s), NEW v \in User
  PROVE  /\ \A i \in 1 .. Len(up[v]) : ~UpMatters(z, v, up[v][i])
         /\ \A i \in 1 .. Len(down[v]) :
              DownMatters(z, v, down[v][i]) => v = z /\ Bundled(down[v][i])
         /\ v = z => \A i \in 1 .. Len(down[v]) : \A j \in 1 .. Len(down[v]) :
              down[v][i].type = "complete" /\ Bundled(down[v][j]) => j <= i
         /\ z \notin serializing[v].target
<1>1. ASSUME NEW i \in 1 .. Len(up[v]), UpMatters(z, v, up[v][i]) PROVE FALSE
  <2>1. UpStage(z, "arrive", s, v, i)
    BY DEF Steps
  <2> QED BY <1>1, <2>1 DEF UpStage, UpMatters
<1>2. ASSUME NEW i \in 1 .. Len(down[v]), DownMatters(z, v, down[v][i])
      PROVE  /\ v = z /\ Bundled(down[v][i])
             /\ down[v][i].type = "complete" =>
                  \A j \in 1 .. Len(down[v]) : Bundled(down[v][j]) => j <= i
  <2>1. DownStage(z, "arrive", s, v, i)
    BY DEF Steps
  <2> QED BY <1>2, <2>1 DEF DownStage, DownMatters
<1>3. z \notin serializing[v].target
  BY DEF Steps
<1>4. ASSUME v = z, NEW i \in 1 .. Len(down[v]), NEW j \in 1 .. Len(down[v]),
             down[v][i].type = "complete", Bundled(down[v][j])
      PROVE  j <= i
  BY <1>2, <1>4 DEF DownMatters, Bundled
<1> QED BY <1>1, <1>2, <1>3, <1>4

(* Without any packet that matters, it has not begun or is over.            *)
LEMMA StepsNone ==
  ASSUME NEW z \in User, NEW s,
         \A v \in User : /\ \A i \in 1 .. Len(up[v]) : ~UpMatters(z, v, up[v][i])
                         /\ \A i \in 1 .. Len(down[v]) : ~DownMatters(z, v, down[v][i])
                         /\ z \notin serializing[v].target,
         ~syncStartedFlag[z]
  PROVE  Steps(z, "none", s)
  BY DEF Steps, UpStage, DownStage

-----------------------------------------------------------------------------
(* The stages fit whatever the server does.                                 *)
LEMMA WrittenTo ==
  ASSUME TypeOK, NEW users, NEW q \in FromServer, down' = Written(users, q), NEW v \in User
  PROVE  \/ down'[v] = down[v] /\ ~(v \in users /\ v \in connected)
         \/ v \in users /\ v \in connected /\ Appended(down'[v], down[v], q)
<1>1. down'[v] = IF v \in users /\ v \in connected THEN Append(down[v], q) ELSE down[v]
  BY WrittenIs
<1>2. down[v] \in Seq(FromServer)
  BY Lens
<1>3. CASE v \in users /\ v \in connected
  BY <1>1, <1>2, <1>3, InAppend
<1> QED BY <1>1, <1>3

LEMMA SyncServer ==
  ASSUME TypeOK, Conn, Synchronised, NEW u \in User, ServerHandles(u)
  PROVE  Synchronised'
<1>0. PICK p : p = up[u][1] /\ ServerEffect(u, p)
  BY ServerCases
<1>1. /\ Headless(up'[u], up[u]) /\ \A v \in User : v # u => up'[v] = up[v]
      /\ UNCHANGED <<serializing, syncStartedFlag, connected, whole, strayed>>
      /\ 1 \in 1 .. Len(up[u])
  BY <1>0, InTail DEF ServerEffect, client, aux
<1>2. ASSUME NEW z \in User, NEW v \in User PROVE UpLess(z, v)
  BY <1>1, LessTail, LessSame, Lens
<1>3. ASSUME NEW z \in User \ strayed, NEW a \in Stage, NEW s \in User, Steps(z, a, s)
      PROVE  \E b \in Stage, w \in User : Steps(z, b, w)'
  <2>1. /\ z \notin connected' \/ z \in whole' => a = "none"
        /\ syncStartedFlag'[z] => a # "none"
        /\ UpStage(z, a, s, u, 1)
    BY <1>1, <1>3 DEF Steps
  <2>2. ASSUME \A v \in User : DownLess(z, v)
        PROVE  \E b \in Stage, w \in User : Steps(z, b, w)'
    BY <1>1, <1>2, <1>3, <2>1, <2>2, StepsLess
  <2>3. ASSUME down' = down
        PROVE  \E b \in Stage, w \in User : Steps(z, b, w)'
    BY <2>2, <2>3, LessSame, Lens
  <2>4. ASSUME NEW users, NEW q \in FromServer, down' = Written(users, q),
               \A v \in users : ~DownMatters(z, v, q)
        PROVE  \E b \in Stage, w \in User : Steps(z, b, w)'
    <3>1. \A v \in User : DownLess(z, v)
      BY <2>4, WrittenTo, LessSame, LessAppended, Lens
    <3> QED BY <2>2, <3>1
  <2>5. ASSUME p.type = "join" \/ Bundled(p), NEW q \in FromServer,
               NEW users, down' = Written(users, q), users \subseteq {z},
               q.type \in {"resJoin", "start", "data"},
               q.type = "resJoin" => a = "none", q.type # "resJoin" => a = "send"
        PROVE  \E b \in Stage, w \in User : Steps(z, b, w)'
    <3>1. ASSUME NEW v \in User, NEW i \in 1 .. Len(down'[v])
          PROVE  DownStage(z, a, s, v, i)'
      <4>1. CASE down'[v] = down[v]
        BY <1>3, <4>1, LessSame, Lens, DownStageLess
      <4>2. CASE v = z /\ Appended(down'[v], down[v], q)
        <5>1. \A j \in 1 .. Len(down[v]) : DownStage(z, a, s, v, j)
          BY <1>3 DEF Steps
        <5>2. CASE i \in 1 .. Len(down[v])
          <6>1. a \in {"none", "send"}
            BY <2>5
          <6>2. \/ down'[v][i] = down[v][i] /\ down[v][i].type \notin {"runSync", "complete"}
                \/ ~DownMatters(z, v, down'[v][i])
            BY <4>2, <5>1, <5>2, <6>1 DEF DownStage, Appended, DownMatters, Bundled
          <6> QED BY <5>1, <5>2, <6>2 DEF DownStage, Bundled
        <5>3. CASE i = Len(down[v]) + 1
          <6>1. down'[v][i] = q
            BY <4>2, <5>3 DEF Appended
          <6> QED BY <2>5, <6>1 DEF DownStage, Bundled
        <5> QED BY <4>2, <5>2, <5>3 DEF Appended
      <4> QED BY <2>5, <4>1, <4>2, WrittenTo
    <3>2. ASSUME NEW v \in User, NEW i \in 1 .. Len(up'[v]) PROVE UpStage(z, a, s, v, i)'
      BY <1>2, <1>3, UpStageLess
    <3>3. Steps(z, a, s)'
      BY <1>1, <1>3, <2>1, <3>1, <3>2 DEF Steps
    <3> QED BY <3>3
  <2>6. CASE p.type = "join"
    <3>1. PICK q : q = [type |-> "resJoin", first |-> room' = {u}]
      OBVIOUS
    <3>2. q \in FromServer /\ q.type = "resJoin" /\ down' = Written({u}, q)
      BY <1>0, <2>6, <3>1 DEF FromServer, ServerEffect
    <3>3. CASE u = z
      <4>1. a = "none"
        BY <1>0, <2>1, <2>6, <3>3 DEF UpStage, UpMatters
      <4> QED BY <2>5, <2>6, <3>2, <3>3, <4>1
    <3>4. CASE u # z
      <4>1. \A v \in {u} : ~DownMatters(z, v, q)
        BY <3>2, <3>4 DEF DownMatters, Bundled
      <4> QED BY <2>4, <3>2, <4>1
    <3> QED BY <3>3, <3>4
  <2>7. ASSUME p.type = "syncRequest", NEW w \in room \ {u},
               down' = Written({w}, [type |-> "runSync", target |-> u])
        PROVE  \E b \in Stage, y \in User : Steps(z, b, y)'
    <3>1. PICK q : q = [type |-> "runSync", target |-> u]
      OBVIOUS
    <3>2. /\ q \in FromServer /\ q.type = "runSync" /\ q.target = u /\ down' = Written({w}, q)
          /\ w \in User
      BY <2>7, <3>1 DEF FromServer, TypeOK
    <3>3. CASE u # z
      BY <2>4, <3>2, <3>3 DEF DownMatters, Bundled
    <3>4. CASE w \notin connected
      <4>1. \A v \in User : down'[v] = down[v]
        BY <3>2, <3>4, WrittenTo
      <4> QED BY <2>2, <4>1, LessSame, Lens
    <3>5. CASE u = z /\ w \in connected
      <4>1. a = "ask"
        BY <1>0, <2>1, <2>7, <3>5 DEF UpStage, UpMatters
      <4>2. Appended(down'[w], down[w], q) /\ \A v \in User : v # w => down'[v] = down[v]
        BY <3>2, <3>5, WrittenTo
      <4>3. ASSUME NEW v \in User, NEW i \in 1 .. Len(up'[v])
            PROVE  ~UpMatters(z, v, up'[v][i])
        <5>1. CASE v # u
          BY <1>1, <1>3, <3>5, <4>1, <5>1, OnlyAsked
        <5>2. CASE v = u
          <6>1. i + 1 \in 1 .. Len(up[u]) /\ up'[u][i] = up[u][i + 1] /\ i + 1 # 1
            BY <1>1, <5>2 DEF Headless
          <6> QED BY <1>0, <1>1, <1>3, <2>7, <3>5, <4>1, <5>2, <6>1, OnlyAsked
        <5> QED BY <5>1, <5>2
      <4>4. ASSUME NEW v \in User, NEW i \in 1 .. Len(down'[v]),
                   DownMatters(z, v, down'[v][i])
            PROVE  v = w /\ i = Len(down[w]) + 1 /\ down'[v][i] = q
        BY <1>3, <4>1, <4>2, <4>4, OnlyAsked DEF Appended
      <4>5. ASSUME NEW v \in User, NEW i \in 1 .. Len(down'[v])
            PROVE  DownStage(z, "run", w, v, i)'
        <5>1. SUFFICES ASSUME DownMatters(z, v, down'[v][i]) PROVE DownStage(z, "run", w, v, i)'
          BY DEF DownStage
        <5>2. v = w /\ i = Len(down[w]) + 1 /\ down'[v][i] = q
          BY <4>4, <5>1
        <5>3. \A j \in 1 .. Len(down'[v]) :
                down'[v][j].type = "runSync" /\ down'[v][j].target = z => j = i
          BY <4>4, <5>2 DEF DownMatters
        <5> QED BY <3>2, <5>2, <5>3 DEF DownStage, Bundled
      <4>6. \A v \in User : z \notin serializing'[v].target
        BY <1>1, <1>3, <4>1, OnlyAsked
      <4>7. Steps(z, "run", w)'
        BY <2>1, <4>1, <4>3, <4>5, <4>6 DEF Steps, UpStage
      <4> QED BY <3>2, <4>7 DEF Stage
    <3> QED BY <3>3, <3>4, <3>5
  <2>8. CASE p.type = "syncRequest"
    BY <1>0, <2>3, <2>7, <2>8 DEF ServerEffect
  <2>9. CASE p.type = "left"
    BY <1>0, <2>3, <2>9 DEF ServerEffect
  <2>10. CASE p.type \in {"create", "task", "clear"}
    <3>1. p \in FromServer /\ down' = Written(room \ {u}, p)
      BY <1>0, <2>10 DEF ServerEffect
    <3>2. \A v \in User : ~DownMatters(z, v, p)
      BY <2>10 DEF DownMatters, Bundled
    <3> QED BY <2>4, <3>1, <3>2 DEF TypeOK
  <2>11. CASE Bundled(p) /\ p.target # z
    <3>1. p \in FromServer /\ down' = Written({p.target} \cap room, p)
      BY <1>0, <2>11 DEF ServerEffect
    <3>2. \A v \in {p.target} \cap room : ~DownMatters(z, v, p)
      BY <2>11 DEF DownMatters, Bundled
    <3> QED BY <2>4, <3>1, <3>2
  <2>12. CASE Bundled(p) /\ p.target = z
    <3>1. p \in FromServer /\ down' = Written({z} \cap room, p)
      BY <1>0, <2>12 DEF ServerEffect
    <3>2. a = "send" /\ s = u
      BY <1>0, <2>1, <2>12 DEF UpStage, UpMatters
    <3>3. CASE p.type \in {"start", "data"}
      BY <2>5, <2>12, <3>1, <3>2, <3>3
    <3>4. CASE ~(z \in room /\ z \in connected)
      <4>1. \A v \in User : down'[v] = down[v]
        BY <3>1, <3>4, WrittenTo
      <4> QED BY <2>2, <4>1, LessSame, Lens
    <3>5. CASE p.type = "complete" /\ z \in room /\ z \in connected
      <4>2. Appended(down'[z], down[z], p) /\ \A v \in User : v # z => down'[v] = down[v]
        BY <3>1, <3>5, WrittenTo
      <4>3. ASSUME NEW v \in User, NEW i \in 1 .. Len(up'[v])
            PROVE  ~UpMatters(z, v, up'[v][i])
        <5>1. CASE v # u
          BY <1>1, <1>3, <3>2, <5>1, OnlySent
        <5>2. CASE v = u
          <6>1. i + 1 \in 1 .. Len(up[u]) /\ up'[u][i] = up[u][i + 1] /\ ~(i + 1 <= 1)
            BY <1>1, <5>2 DEF Headless
          <6>2. ~UpMatters(z, u, up[u][i + 1])
            BY <1>0, <1>1, <1>3, <2>12, <3>2, <3>5, <6>1, OnlySent
          <6> QED BY <5>2, <6>1, <6>2
        <5> QED BY <5>1, <5>2
      <4>4. ASSUME NEW v \in User, NEW i \in 1 .. Len(down'[v]),
                   DownMatters(z, v, down'[v][i])
            PROVE  /\ v = z
                   /\ \/ i = Len(down[z]) + 1 /\ down'[v][i] = p
                      \/ i \in 1 .. Len(down[z]) /\ down'[v][i].type \in {"start", "data"}
        BY <1>3, <3>2, <4>2, <4>4, OnlySent DEF Appended
      <4>5. ASSUME NEW v \in User, NEW i \in 1 .. Len(down'[v])
            PROVE  DownStage(z, "arrive", s, v, i)'
        <5>1. SUFFICES ASSUME DownMatters(z, v, down'[v][i])
                       PROVE  DownStage(z, "arrive", s, v, i)'
          BY DEF DownStage
        <5>2. CASE v = z /\ i = Len(down[z]) + 1 /\ down'[v][i] = p
          <6>1. \A j \in 1 .. Len(down'[v]) : j <= i
            BY <4>2, <5>2 DEF Appended
          <6> QED BY <3>5, <5>2, <6>1 DEF DownStage, Bundled
        <5>3. CASE v = z /\ down'[v][i].type \in {"start", "data"}
          BY <5>3 DEF DownStage, Bundled
        <5> QED BY <4>4, <5>1, <5>2, <5>3
      <4>6. \A v \in User : z \notin serializing'[v].target
        BY <1>1, <1>3, <3>2, OnlySent
      <4>7. Steps(z, "arrive", s)'
        BY <2>1, <3>2, <4>3, <4>5, <4>6 DEF Steps, UpStage
      <4> QED BY <4>7 DEF Stage
    <3> QED BY <2>12, <3>3, <3>4, <3>5 DEF Bundled
  <2>13. \/ p.type \in {"join", "syncRequest", "left", "create", "task", "clear"}
         \/ Bundled(p)
    BY <1>0 DEF ServerEffect, Bundled
  <2> QED BY <2>6, <2>8, <2>9, <2>10, <2>11, <2>12, <2>13
<1> QED BY <1>1, <1>3 DEF Synchronised

(* The stages fit whatever a client receives.                               *)
LEMMA SyncReceive ==
  ASSUME TypeOK, Conn, Synchronised, NEW u \in User, Receive(u)
  PROVE  Synchronised'
<1>0. PICK p : p = down[u][1] /\ ReceiveEffect(u, p)
  BY ReceiveCases
<1>1. /\ Headless(down'[u], down[u]) /\ \A v \in User : v # u => down'[v] = down[v]
      /\ UNCHANGED <<connected, strayed>> /\ u \in connected
      /\ 1 \in 1 .. Len(down[u])
  BY <1>0, InTail DEF ReceiveEffect
<1>2. ASSUME NEW z \in User, NEW v \in User PROVE DownLess(z, v)
  BY <1>1, LessTail, LessSame, Lens
<1>3. ASSUME NEW z \in User \ strayed, NEW a \in Stage, NEW s \in User, Steps(z, a, s)
      PROVE  \E b \in Stage, w \in User : Steps(z, b, w)'
  <2>1. DownStage(z, a, s, u, 1) /\ (z \notin connected \/ z \in whole => a = "none")
        /\ (syncStartedFlag[z] => a # "none")
    BY <1>1, <1>3 DEF Steps
  <2>2. ASSUME \A v \in User : UpLess(z, v),
               \A v \in User : z \in serializing'[v].target => z \in serializing[v].target,
               z \in whole' => a = "none", syncStartedFlag'[z] => a # "none"
        PROVE  \E b \in Stage, w \in User : Steps(z, b, w)'
    <3>1. z \notin connected' => a = "none"
      BY <1>1, <2>1
    <3> QED BY <1>2, <1>3, <2>2, <3>1, StepsLess
  <2>3. up' = up => \A v \in User : UpLess(z, v)
    BY LessSame, Lens
  <2>4. CASE p.type = "resJoin" /\ (p.first \/ syncStartedFlag[u])
    <3>1. /\ up' = up /\ UNCHANGED <<serializing, syncStartedFlag>>
          /\ whole' \subseteq whole \cup {u}
      BY <1>0, <2>4 DEF ReceiveEffect, HandleResJoin
    <3>2. z = u => a = "none"
      BY <1>0, <2>1, <2>4 DEF DownStage, DownMatters
    <3> QED BY <2>1, <2>2, <2>3, <3>1, <3>2
  <2>5. CASE p.type = "resJoin" /\ ~(p.first \/ syncStartedFlag[u])
    <3>1. PICK q : q = [type |-> "syncRequest"]
      OBVIOUS
    <3>2. /\ up'[u] = Append(up[u], q) /\ \A v \in User : v # u => up'[v] = up[v]
          /\ UNCHANGED <<serializing, syncStartedFlag, whole>>
      BY <1>0, <2>5, <3>1 DEF ReceiveEffect, HandleResJoin, TypeOK
    <3>3. q \in ToServer /\ q.type = "syncRequest"
      BY <3>1 DEF ToServer
    <3>4. Appended(up'[u], up[u], q)
      BY <3>2, <3>3, Lens, InAppend
    <3>5. CASE z # u
      <4>1. \A v \in User : ~UpMatters(z, u, q)
        BY <3>3, <3>5 DEF UpMatters, Bundled
      <4>2. \A v \in User : UpLess(z, v)
        BY <3>2, <3>4, <4>1, LessSame, LessAppended, Lens
      <4> QED BY <2>1, <2>2, <3>2, <4>2
    <3>6. CASE z = u
      <4>1. a = "none"
        BY <1>0, <2>1, <2>5, <3>6 DEF DownStage, DownMatters
      <4>2. u \notin whole /\ \A i \in 1 .. Len(up[u]) : up[u][i].type # "join"
        <5>1. DownFits(u, 1) /\ \A i \in 1 .. Len(up[u]) : UpFits(u, i)
          BY <1>1 DEF Conn, Line
        <5>2. down[u] # <<>>
          BY <1>0 DEF ReceiveEffect
        <5> QED BY <1>0, <2>5, <5>1, <5>2 DEF DownFits, UpFits
      <4>3. ASSUME NEW v \in User, NEW i \in 1 .. Len(up[v]) PROVE ~UpMatters(z, v, up[v][i])
        <5>1. UpStage(z, a, s, v, i)
          BY <1>3 DEF Steps
        <5> QED BY <3>6, <4>1, <4>2, <5>1 DEF UpStage, UpMatters
      <4>4. ASSUME NEW v \in User, NEW i \in 1 .. Len(up'[v]), UpMatters(z, v, up'[v][i])
            PROVE  v = u /\ i = Len(up[u]) + 1 /\ up'[v][i] = q
        <5>1. v = u
          BY <3>2, <4>3, <4>4
        <5> QED BY <3>4, <4>3, <4>4, <5>1 DEF Appended
      <4>5. ASSUME NEW v \in User, NEW i \in 1 .. Len(up'[v]) PROVE UpStage(z, "ask", s, v, i)'
        <5>1. SUFFICES ASSUME UpMatters(z, v, up'[v][i]) PROVE UpStage(z, "ask", s, v, i)'
          BY DEF UpStage
        <5>2. v = u /\ i = Len(up[u]) + 1 /\ up'[v][i] = q
          BY <4>4, <5>1
        <5>3. \A j \in 1 .. Len(up'[v]) : up'[v][j].type = "syncRequest" => j = i
          BY <3>6, <4>4, <5>2 DEF UpMatters
        <5> QED BY <3>3, <5>2, <5>3 DEF UpStage, Bundled
      <4>6. ASSUME NEW v \in User, NEW i \in 1 .. Len(down'[v]),
                   DownMatters(z, v, down'[v][i])
            PROVE  FALSE
        <5>1. DownStage(z, a, s, v, i)'
          BY <1>2, <1>3, DownStageLess
        <5>2. v = u /\ down'[v][i].type = "resJoin"
          BY <3>6, <4>1, <4>6, <5>1 DEF DownStage, DownMatters
        <5>3. i + 1 \in 1 .. Len(down[u]) /\ down'[u][i] = down[u][i + 1] /\ i + 1 # 1
          BY <1>1, <5>2 DEF Headless
        <5>4. DownFits(u, i + 1)
          BY <5>3 DEF Conn, Line
        <5> QED BY <5>2, <5>3, <5>4 DEF DownFits
      <4>7. \A v \in User : z \notin serializing'[v].target
        BY <1>3, <3>2, <4>1 DEF Steps
      <4>8. z \in connected' /\ z \notin whole'
        BY <1>1, <3>2, <3>6, <4>2
      <4>9. Steps(z, "ask", s)'
        BY <4>5, <4>6, <4>7, <4>8 DEF Steps, DownStage
      <4> QED BY <4>9 DEF Stage
    <3> QED BY <3>5, <3>6
  <2>6. CASE p.type = "runSync"
    <3>1. /\ serializing' = [serializing EXCEPT ![u] = [target |-> {p.target}, items |-> items[u]]]
          /\ UNCHANGED <<up, whole, syncStartedFlag>>
      BY <1>0, <2>6 DEF ReceiveEffect, HandleRunSync
    <3>2. serializing'[u].target = {p.target}
          /\ \A v \in User : v # u => serializing'[v] = serializing[v]
      BY <3>1 DEF TypeOK
    <3>3. CASE z # p.target
      <4>1. \A v \in User : z \in serializing'[v].target => z \in serializing[v].target
        BY <3>2, <3>3
      <4> QED BY <2>1, <2>2, <2>3, <3>1, <4>1
    <3>4. CASE z = p.target
      <4>1. a = "run" /\ s = u
        BY <1>0, <2>1, <2>6, <3>4 DEF DownStage, DownMatters
      <4>2. \A v \in User : \A i \in 1 .. Len(up'[v]) : ~UpMatters(z, v, up'[v][i])
        BY <1>3, <3>1, <4>1, OnlyRun
      <4>3. ASSUME NEW v \in User, NEW i \in 1 .. Len(down'[v]),
                   DownMatters(z, v, down'[v][i])
            PROVE  FALSE
        <5>1. CASE v # u
          BY <1>1, <1>3, <4>1, <4>3, <5>1, OnlyRun
        <5>2. CASE v = u
          <6>1. i + 1 \in 1 .. Len(down[u]) /\ down'[u][i] = down[u][i + 1] /\ i + 1 # 1
            BY <1>1, <5>2 DEF Headless
          <6>3. DownMatters(z, u, down[u][i + 1])
            BY <4>3, <5>2, <6>1
          <6>4. down[u][i + 1].type = "runSync"
            BY <1>3, <4>1, <6>1, <6>3, OnlyRun
          <6>2. down[u][i + 1].type = "runSync" /\ down[u][i + 1].target = z
            BY <6>3, <6>4 DEF DownMatters, Bundled
          <6> QED BY <1>0, <1>1, <1>3, <2>6, <3>4, <4>1, <6>1, <6>2, OnlyRun
        <5> QED BY <5>1, <5>2
      <4>4. \A v \in User : z \in serializing'[v].target => v = u
        BY <1>3, <3>2, <4>1, OnlyRun
      <4>5. Steps(z, "write", u)'
        BY <1>1, <2>1, <3>1, <4>1, <4>2, <4>3, <4>4 DEF Steps, UpStage, DownStage
      <4> QED BY <4>5 DEF Stage
    <3> QED BY <3>3, <3>4
  <2>7. CASE p.type = "start"
    <3>1. /\ syncStartedFlag' = [syncStartedFlag EXCEPT ![u] = TRUE]
          /\ UNCHANGED <<up, whole, serializing>>
      BY <1>0, <2>7 DEF ReceiveEffect, HandleStart
    <3>2. z = u => a \in {"send", "arrive"}
      BY <1>0, <2>1, <2>7 DEF DownStage, DownMatters, Bundled
    <3>3. syncStartedFlag'[z] => a # "none"
      BY <2>1, <3>1, <3>2 DEF TypeOK
    <3> QED BY <2>1, <2>2, <2>3, <3>1, <3>3
  <2>8. CASE p.type = "complete"
    <3>1. /\ syncStartedFlag' = [syncStartedFlag EXCEPT ![u] = FALSE]
          /\ UNCHANGED <<up, serializing>> /\ whole' \subseteq whole \cup {u}
      BY <1>0, <2>8 DEF ReceiveEffect, HandleComplete
    <3>2. CASE z # u
      <4>1. syncStartedFlag'[z] => a # "none"
        BY <2>1, <3>1, <3>2 DEF TypeOK
      <4> QED BY <2>1, <2>2, <2>3, <3>1, <3>2, <4>1
    <3>3. CASE z = u
      <4>1. a = "arrive"
        BY <1>0, <2>1, <2>8, <3>3 DEF DownStage, DownMatters, Bundled
      <4>2. \A v \in User : \A i \in 1 .. Len(up'[v]) : ~UpMatters(z, v, up'[v][i])
        BY <1>3, <3>1, <4>1, OnlyArriving
      <4>3. ASSUME NEW v \in User, NEW i \in 1 .. Len(down'[v]),
                   DownMatters(z, v, down'[v][i])
            PROVE  FALSE
        <5>1. CASE v # u
          BY <1>1, <1>3, <3>3, <4>1, <4>3, <5>1, OnlyArriving
        <5>2. CASE v = u
          <6>1. i + 1 \in 1 .. Len(down[u]) /\ down'[u][i] = down[u][i + 1] /\ ~(i + 1 <= 1)
            BY <1>1, <5>2 DEF Headless
          <6>2. Bundled(down[u][i + 1])
            BY <1>3, <4>1, <4>3, <5>2, <6>1, OnlyArriving
          <6> QED BY <1>0, <1>1, <1>3, <2>8, <3>3, <4>1, <6>1, <6>2, OnlyArriving
        <5> QED BY <5>1, <5>2
      <4>4. \A v \in User : z \notin serializing'[v].target
        BY <1>3, <3>1, <4>1, OnlyArriving
      <4>5. ~syncStartedFlag'[z]
        BY <3>1, <3>3 DEF TypeOK
      <4>6. Steps(z, "none", s)'
        BY <4>2, <4>3, <4>4, <4>5 DEF Steps, UpStage, DownStage
      <4> QED BY <4>6 DEF Stage
    <3> QED BY <3>2, <3>3
  <2>9. CASE p.type \in {"create", "task", "data", "clear"}
    <3>1. UNCHANGED <<up, whole, serializing, syncStartedFlag>>
      BY <1>0, <2>9 DEF ReceiveEffect, HandleEdits, HandleClear
    <3> QED BY <2>1, <2>2, <2>3, <3>1
  <2>10. p.type \in {"resJoin", "runSync", "create", "task", "clear", "start", "data", "complete"}
    BY <1>0 DEF ReceiveEffect
  <2> QED BY <2>4, <2>5, <2>6, <2>7, <2>8, <2>9, <2>10
<1> QED BY <1>1, <1>3 DEF Synchronised

(* The three packets of a synchronisation.                                  *)
Packed(r, u, z, its, ts) ==
  /\ Len(r) = 3
  /\ r[1] = [type |-> "start", target |-> z, runner |-> u]
  /\ r[2] = [type |-> "data", target |-> z, items |-> its, tasks |-> ts]
  /\ r[3] = [type |-> "complete", target |-> z, whole |-> u \in whole]
  /\ \A i \in 1 .. Len(r) : i \in {1, 2, 3} /\ Bundled(r[i]) /\ r[i].target = z

LEMMA PackageIs ==
  ASSUME TypeOK, NEW u \in User, NEW z \in User, NEW its \in SUBSET Key, NEW ts \in Seq(Task),
         NEW r, r = Package(u, z, its, ts)
  PROVE  r \in Seq(ToServer) /\ Packed(r, u, z, its, ts)
<1>1. PICK p1 : p1 = [type |-> "start", target |-> z, runner |-> u]
  OBVIOUS
<1>2. PICK p2 : p2 = [type |-> "data", target |-> z, items |-> its, tasks |-> ts]
  OBVIOUS
<1>3. PICK p3 : p3 = [type |-> "complete", target |-> z, whole |-> u \in whole]
  OBVIOUS
<1>4. p1 \in ToServer /\ p2 \in ToServer /\ p3 \in ToServer
  BY <1>1, <1>2, <1>3 DEF ToServer, SyncPacket
<1>5. r = <<p1, p2, p3>>
  BY <1>1, <1>2, <1>3 DEF Package
<1>6. Bundled(p1) /\ Bundled(p2) /\ Bundled(p3) /\ p1.target = z /\ p2.target = z /\ p3.target = z
  BY <1>1, <1>2, <1>3 DEF Bundled
<1>7. r \in Seq(ToServer) /\ Len(r) = 3 /\ r[1] = p1 /\ r[2] = p2 /\ r[3] = p3
  BY <1>4, <1>5
<1>8. \A i \in 1 .. Len(r) : i \in {1, 2, 3} /\ Bundled(r[i]) /\ r[i].target = z
  <2> TAKE i \in 1 .. Len(r)
  <2>1. i = 1 \/ i = 2 \/ i = 3
    BY <1>7
  <2> QED BY <1>6, <1>7, <2>1
<1> QED BY <1>1, <1>2, <1>3, <1>7, <1>8 DEF Packed

(* What a client does that sends the package.                               *)
PackageEffect(u, z, r) ==
  /\ z \in User /\ serializing[u] # None /\ serializing[u].target = {z}
  /\ r \in Seq(ToServer) /\ Packed(r, u, z, serializing[u].items, tasks[u])
  /\ Sent(u, r)
  /\ serializing'[u] = None /\ \A v \in User : v # u => serializing'[v] = serializing[v]
  /\ crossed' = (crossed \/ ClearAhead(u))
  /\ UNCHANGED <<items, tasks, enabled, syncStartedFlag, deferred, connected,
                 down, room, made, whole, runner, broken, strayed>>

LEMMA PackageCases ==
  ASSUME TypeOK, NEW u \in User, SendPackage(u)
  PROVE  \E z, r : PackageEffect(u, z, r)
<1>1. PICK z \in serializing[u].target : Sent(u, Package(u, z, serializing[u].items, tasks[u]))
  BY DEF SendPackage
<1>2. /\ serializing[u].target \in {{}} \cup {{v} : v \in User}
      /\ serializing[u].items \in SUBSET Key /\ tasks[u] \in Seq(Task)
  BY DEF TypeOK
<1>3. z \in User /\ serializing[u].target = {z}
  BY <1>2
<1>4. PICK r : r = Package(u, z, serializing[u].items, tasks[u])
  OBVIOUS
<1>5. r \in Seq(ToServer) /\ Packed(r, u, z, serializing[u].items, tasks[u])
  BY <1>2, <1>3, <1>4, PackageIs
<1>6. serializing'[u] = None /\ \A v \in User : v # u => serializing'[v] = serializing[v]
  BY DEF SendPackage, TypeOK
<1>7. PackageEffect(u, z, r)
  BY <1>1, <1>3, <1>4, <1>5, <1>6 DEF SendPackage, PackageEffect
<1> QED BY <1>7

(* The stages fit when the package is sent.                                 *)
LEMMA SyncSendPackage ==
  ASSUME TypeOK, Conn, Synchronised, NEW u \in User, SendPackage(u)
  PROVE  Synchronised'
<1>0. PICK t, r : PackageEffect(u, t, r)
  BY PackageCases
<1>1. /\ t \in User /\ serializing[u].target = {t} /\ r \in Seq(ToServer) /\ Sent(u, r)
      /\ Packed(r, u, t, serializing[u].items, tasks[u])
      /\ serializing'[u] = None /\ \A v \in User : v # u => serializing'[v] = serializing[v]
      /\ UNCHANGED <<syncStartedFlag, connected, down, whole, strayed>>
  BY <1>0 DEF PackageEffect
<1>2. \A i \in 1 .. Len(r) : i \in {1, 2, 3} /\ Bundled(r[i]) /\ r[i].target = t
  BY <1>1 DEF Packed
<1>3. ASSUME NEW z \in User \ strayed, NEW a \in Stage, NEW s \in User, Steps(z, a, s)
      PROVE  \E b \in Stage, w \in User : Steps(z, b, w)'
  <2>1. /\ z \notin connected' \/ z \in whole' => a = "none"
        /\ syncStartedFlag'[z] => a # "none"
        /\ \A v \in User : z \in serializing'[v].target =>
             v # u /\ z \in serializing[v].target
    BY <1>1, <1>3 DEF Steps, None
  <2>2. \A v \in User : DownLess(z, v)
    BY <1>1, LessSame, Lens
  <2>3. ASSUME \A v \in User : UpLess(z, v)
        PROVE  \E b \in Stage, w \in User : Steps(z, b, w)'
    BY <1>3, <2>1, <2>2, <2>3, StepsLess
  <2>4. CASE u \notin connected
    <3>1. up' = up
      BY <1>1, <2>4 DEF Sent
    <3> QED BY <2>3, <3>1, LessSame, Lens
  <2>5. ASSUME u \in connected
        PROVE  Joined(up'[u], up[u], r) /\ \A v \in User : v # u => up'[v] = up[v]
    <3>1. up'[u] = up[u] \o r /\ \A v \in User : v # u => up'[v] = up[v]
      BY <1>1, <2>5 DEF Sent, TypeOK
    <3> QED BY <1>1, <3>1, Lens, InConcat
  <2>6. CASE u \in connected /\ z # t
    <3>1. \A i \in 1 .. Len(r) : ~UpMatters(z, u, r[i])
      BY <1>2, <2>6 DEF UpMatters, Bundled
    <3>2. \A v \in User : UpLess(z, v)
      BY <2>5, <2>6, <3>1, LessJoined, LessSame, Lens
    <3> QED BY <2>3, <3>2
  <2>7. CASE u \in connected /\ z = t
    <3>1. a = "write" /\ s = u
      BY <1>1, <1>3, <2>7 DEF Steps
    <3>2. ASSUME NEW v \in User, NEW i \in 1 .. Len(up'[v]), UpMatters(z, v, up'[v][i])
          PROVE  v = u /\ \E j \in 1 .. Len(r) : i = Len(up[u]) + j /\ up'[u][i] = r[j]
      <4>1. v = u
        BY <1>3, <2>5, <2>7, <3>1, <3>2, OnlyWritten
      <4>2. ~(i \in 1 .. Len(up[u]))
        BY <1>3, <2>5, <2>7, <3>1, <3>2, <4>1, OnlyWritten DEF Joined
      <4> QED BY <2>5, <2>7, <4>1, <4>2 DEF Joined
    <3>3. ASSUME NEW v \in User, NEW i \in 1 .. Len(up'[v]) PROVE UpStage(z, "send", u, v, i)'
      <4>1. SUFFICES ASSUME UpMatters(z, v, up'[v][i]) PROVE UpStage(z, "send", u, v, i)'
        BY DEF UpStage
      <4>2. PICK j \in 1 .. Len(r) : v = u /\ i = Len(up[u]) + j /\ up'[u][i] = r[j]
        BY <3>2, <4>1
      <4>3. up'[u][i].type = "complete" => \A k \in 1 .. Len(up'[u]) : k <= i
        <5>1. r[1].type = "start" /\ r[2].type = "data" /\ Len(r) = 3
          BY <1>1 DEF Packed
        <5>2. up'[u][i].type = "complete" => j = 3
          BY <1>2, <4>2, <5>1
        <5>3. Len(up'[u]) = Len(up[u]) + 3 /\ Len(up[u]) \in Nat
          BY <2>5, <2>7, <5>1 DEF Joined
        <5> QED BY <4>2, <5>2, <5>3
      <4> QED BY <1>2, <4>2, <4>3 DEF UpStage, Bundled
    <3>4. \A v \in User : \A i \in 1 .. Len(down'[v]) : ~DownMatters(z, v, down'[v][i])
      BY <1>1, <1>3, <3>1, OnlyWritten
    <3>5. \A v \in User : z \notin serializing'[v].target
      BY <1>3, <2>1, <3>1, OnlyWritten
    <3>6. Steps(z, "send", u)'
      BY <1>1, <2>1, <3>1, <3>3, <3>4, <3>5 DEF Steps, DownStage
    <3> QED BY <3>6 DEF Stage
  <2> QED BY <2>4, <2>6, <2>7
<1> QED BY <1>1, <1>3 DEF Synchronised

-----------------------------------------------------------------------------
(***************************************************************************)
(* The painting.  x stands for an item or a task.                          *)
(***************************************************************************)
Content(its, ts) ==
  {<<"item", k>> : k \in its} \cup {<<"task", t>> : t \in Range(ts)}

(* What a packet casts to the room, and what it brings.                     *)
Cast(p) ==
  IF p.type = "create" THEN Content({p.key}, <<>>)
  ELSE IF p.type = "task" THEN Content({}, <<p.task>>) ELSE {}

Carried(p) == IF p.type = "data" THEN Content(p.items, p.tasks) ELSE Cast(p)

Known(u) == Content(items[u], tasks[u])

(* Packets that make their receiver clear, and that make his painting whole. *)
Asked(p) == p.type = "resJoin" /\ ~p.first
Wipes(p) == p.type = "clear" \/ Asked(p)
Grants(p) == (p.type = "resJoin" /\ p.first) \/ (p.type = "complete" /\ p.whole)

(* The first n packets of q wipe nothing; x is among them and not wiped.    *)
Open(q, n) == \A i \in 1 .. n : ~Wipes(q[i])
Reaches(q, n, x) ==
  \E i \in 1 .. n : x \in Carried(q[i]) /\ \A j \in (i + 1) .. n : ~Wipes(q[j])

(* u will know x once he has received n packets and run what is deferred.   *)
ArrivesBy(u, n, x) ==
  \/ Reaches(down[u], n, x)
  \/ Open(down[u], n) /\ ~ClearDeferred(u) /\ x \in Known(u)
Arrives(u, x) == ArrivesBy(u, Len(down[u]), x)

(* Packets to the server: x is cast by the first n of q, and nothing behind *)
(* it takes it away from its sender.                                        *)
Barrier(p) == p.type \in {"clear", "syncRequest"}
Unbarred(q, n) == \A i \in 1 .. n : ~Barrier(q[i])
Lasts(q, n, x) ==
  \E i \in 1 .. n : x \in Cast(q[i]) /\ \A j \in (i + 1) .. n : ~Barrier(q[j])
Clearless(q, n) == \A i \in 1 .. n : q[i].type # "clear"
NoClear(u) == Clearless(up[u], Len(up[u]))

(* What is on its way from u and will stay his own.                         *)
Unasked(u) == \A i \in 1 .. Len(down[u]) : ~Asked(down[u][i])
Mine(u, x) == Unasked(u) /\ Lasts(up[u], Len(up[u]), x)

(* u has the painting whole, or will with n packets; he still may get it.   *)
HolderBy(u, n) ==
  u \notin strayed /\ (u \in whole \/ \E i \in 1 .. n : Grants(down[u][i]))
Holder(u) == HolderBy(u, Len(down[u]))

RunsFor(z, p) == p.type = "runSync" /\ p.target = z
Completes(z, p) == p.type = "complete" /\ p.target = z /\ p.whole
DataFor(z, p) == p.type = "data" /\ p.target = z

Hopeful(z) ==
  \/ ~Unasked(z)
  \/ \E i \in 1 .. Len(up[z]) : up[z][i].type = "syncRequest"
  \/ \E s \in User :
       \/ \E i \in 1 .. Len(down[s]) : RunsFor(z, down[s][i])
       \/ z \in serializing[s].target
       \/ \E i \in 1 .. Len(up[s]) : Completes(z, up[s][i])

(* Who has the painting will know D, unless he clears it, and his own; who  *)
(* may get it will know nothing else.                                       *)
PaintingAt(D, v) ==
  /\ Holder(v) => \A x : Arrives(v, x) <=> Mine(v, x) \/ (x \in D /\ NoClear(v))
  /\ Hopeful(v) => \A x : Arrives(v, x) => Mine(v, x) \/ (x \in D /\ NoClear(v))
  /\ v \in connected =>
       \A x : (Mine(v, x) => Arrives(v, x)) /\ (~NoClear(v) /\ Arrives(v, x) => Mine(v, x))

(* No clear crosses an edit.                                                *)
ApartAt(u) ==
  /\ Holds(up[u], EditTypes) =>
       ~Holds(down[u], {"clear"}) /\ \A v \in User \ {u} : NoClear(v)
  /\ Holds(down[u], EditTypes) => NoClear(u)
  /\ serializing[u] # None =>
       ~ClearAhead(u) /\ (u \in whole => serializing[u].items \subseteq items[u])

(* What z does not get by itself, s knows when he is to read it, has read,  *)
(* or has sent.                                                             *)
Needs(D, z, x) == x \in D /\ NoClear(z) /\ ~Arrives(z, x)

ToRead(D, z, s) ==
  \A i \in 1 .. Len(down[s]) :
    RunsFor(z, down[s][i]) /\ HolderBy(s, i - 1) /\ NoClear(s) =>
      \A x : Needs(D, z, x) => ArrivesBy(s, i - 1, x)

Reading(D, z, s) ==
  s \in whole /\ z \in serializing[s].target /\ NoClear(s) =>
    \A x : Needs(D, z, x) => x \in Content(serializing[s].items, tasks[s])

OnItsWay(D, z, s) ==
  \A i \in 1 .. Len(up[s]) :
    Completes(z, up[s][i]) =>
      /\ Clearless(up[s], i - 1) =>
           \A x : Needs(D, z, x) =>
             \E j \in 1 .. (i - 1) : DataFor(z, up[s][j]) /\ x \in Carried(up[s][j])
      /\ \A j \in 1 .. Len(up[s]) : DataFor(z, up[s][j]) =>
           \A x \in Carried(up[s][j]) :
             (x \in D /\ Clearless(up[s], j - 1)) \/ Lasts(up[s], j - 1, x)

Doc(D) ==
  /\ \A v \in User \ strayed : PaintingAt(D, v)
  /\ \A u \in User : ApartAt(u)
  /\ \A z \in User \ strayed, s \in User :
       ToRead(D, z, s) /\ Reading(D, z, s) /\ OnItsWay(D, z, s)

-----------------------------------------------------------------------------
(* The first packets of a queue.                                            *)

(* The first n are the same.                                                *)
SameTo(a, q, n) ==
  /\ Open(a, n) <=> Open(q, n)
  /\ Clearless(a, n) <=> Clearless(q, n)
  /\ Unbarred(a, n) <=> Unbarred(q, n)
  /\ \A x : Reaches(a, n, x) <=> Reaches(q, n, x)
  /\ \A x : Lasts(a, n, x) <=> Lasts(q, n, x)

LEMMA SameFront ==
  ASSUME NEW a, NEW q, NEW n \in Nat, \A i \in 1 .. n : a[i] = q[i]
  PROVE  SameTo(a, q, n)
<1>1. \A i \in 1 .. n : \A j \in (i + 1) .. n : a[j] = q[j]
  OBVIOUS
<1>2. ASSUME NEW x PROVE Reaches(a, n, x) <=> Reaches(q, n, x)
  BY <1>1 DEF Reaches
<1>3. ASSUME NEW x PROVE Lasts(a, n, x) <=> Lasts(q, n, x)
  BY <1>1 DEF Lasts
<1>4. Open(a, n) <=> Open(q, n)
  BY DEF Open
<1>5. Clearless(a, n) <=> Clearless(q, n)
  BY DEF Clearless
<1>6. Unbarred(a, n) <=> Unbarred(q, n)
  BY DEF Unbarred
<1> QED BY <1>2, <1>3, <1>4, <1>5, <1>6 DEF SameTo

(* One packet more behind the first n.                                      *)
Grown(q, n) ==
  /\ Open(q, n + 1) <=> Open(q, n) /\ ~Wipes(q[n + 1])
  /\ Clearless(q, n + 1) <=> Clearless(q, n) /\ q[n + 1].type # "clear"
  /\ Unbarred(q, n + 1) <=> Unbarred(q, n) /\ ~Barrier(q[n + 1])
  /\ \A x : Reaches(q, n + 1, x) <=>
              x \in Carried(q[n + 1]) \/ (Reaches(q, n, x) /\ ~Wipes(q[n + 1]))
  /\ \A x : Lasts(q, n + 1, x) <=>
              x \in Cast(q[n + 1]) \/ (Lasts(q, n, x) /\ ~Barrier(q[n + 1]))

LEMMA OneMore ==
  ASSUME NEW q, NEW n \in Nat
  PROVE  Grown(q, n)
<1>1. \A i \in 1 .. (n + 1) : i \in 1 .. n \/ i = n + 1
  OBVIOUS
<1>2. \A i \in 1 .. n : i \in 1 .. (n + 1) /\ n + 1 \in (i + 1) .. (n + 1)
  OBVIOUS
<1>3. \A i \in 1 .. n : \A j \in (i + 1) .. (n + 1) : j \in (i + 1) .. n \/ j = n + 1
  OBVIOUS
<1>4. \A i \in 1 .. n : \A j \in (i + 1) .. n : j \in (i + 1) .. (n + 1)
  OBVIOUS
<1>5. n + 1 \in 1 .. (n + 1) /\ \A j \in (n + 1 + 1) .. (n + 1) : FALSE
  OBVIOUS
<1>6. ASSUME NEW x
      PROVE  Reaches(q, n + 1, x) <=>
               x \in Carried(q[n + 1]) \/ (Reaches(q, n, x) /\ ~Wipes(q[n + 1]))
  <2>1. ASSUME Reaches(q, n + 1, x)
        PROVE  x \in Carried(q[n + 1]) \/ (Reaches(q, n, x) /\ ~Wipes(q[n + 1]))
    <3>1. PICK i \in 1 .. (n + 1) :
            x \in Carried(q[i]) /\ \A j \in (i + 1) .. (n + 1) : ~Wipes(q[j])
      BY <2>1 DEF Reaches
    <3>2. CASE i = n + 1
      BY <3>1, <3>2
    <3>3. CASE i \in 1 .. n
      BY <1>2, <1>4, <3>1, <3>3 DEF Reaches
    <3> QED BY <1>1, <3>2, <3>3
  <2>2. ASSUME Reaches(q, n, x), ~Wipes(q[n + 1])
        PROVE  Reaches(q, n + 1, x)
    <3>1. PICK i \in 1 .. n : x \in Carried(q[i]) /\ \A j \in (i + 1) .. n : ~Wipes(q[j])
      BY <2>2 DEF Reaches
    <3> QED BY <1>2, <1>3, <2>2, <3>1 DEF Reaches
  <2>3. x \in Carried(q[n + 1]) => Reaches(q, n + 1, x)
    BY <1>5 DEF Reaches
  <2> QED BY <2>1, <2>2, <2>3
<1>7. ASSUME NEW x
      PROVE  Lasts(q, n + 1, x) <=>
               x \in Cast(q[n + 1]) \/ (Lasts(q, n, x) /\ ~Barrier(q[n + 1]))
  <2>1. ASSUME Lasts(q, n + 1, x)
        PROVE  x \in Cast(q[n + 1]) \/ (Lasts(q, n, x) /\ ~Barrier(q[n + 1]))
    <3>1. PICK i \in 1 .. (n + 1) :
            x \in Cast(q[i]) /\ \A j \in (i + 1) .. (n + 1) : ~Barrier(q[j])
      BY <2>1 DEF Lasts
    <3>2. CASE i = n + 1
      BY <3>1, <3>2
    <3>3. CASE i \in 1 .. n
      BY <1>2, <1>4, <3>1, <3>3 DEF Lasts
    <3> QED BY <1>1, <3>2, <3>3
  <2>2. ASSUME Lasts(q, n, x), ~Barrier(q[n + 1])
        PROVE  Lasts(q, n + 1, x)
    <3>1. PICK i \in 1 .. n : x \in Cast(q[i]) /\ \A j \in (i + 1) .. n : ~Barrier(q[j])
      BY <2>2 DEF Lasts
    <3> QED BY <1>2, <1>3, <2>2, <3>1 DEF Lasts
  <2>3. x \in Cast(q[n + 1]) => Lasts(q, n + 1, x)
    BY <1>5 DEF Lasts
  <2> QED BY <2>1, <2>2, <2>3
<1>8. Open(q, n + 1) <=> Open(q, n) /\ ~Wipes(q[n + 1])
  BY <1>1, <1>2, <1>5 DEF Open
<1>9. Clearless(q, n + 1) <=> Clearless(q, n) /\ q[n + 1].type # "clear"
  BY <1>1, <1>2, <1>5 DEF Clearless
<1>10. Unbarred(q, n + 1) <=> Unbarred(q, n) /\ ~Barrier(q[n + 1])
  BY <1>1, <1>2, <1>5 DEF Unbarred
<1> QED BY <1>6, <1>7, <1>8, <1>9, <1>10 DEF Grown

(* The first n of a are those of q behind the first.                        *)
Shifted(a, q, n) ==
  /\ Open(q, n + 1) <=> ~Wipes(q[1]) /\ Open(a, n)
  /\ Clearless(q, n + 1) <=> q[1].type # "clear" /\ Clearless(a, n)
  /\ \A x : Reaches(q, n + 1, x) <=> Reaches(a, n, x) \/ (x \in Carried(q[1]) /\ Open(a, n))
  /\ \A x : Lasts(q, n + 1, x) <=> Lasts(a, n, x) \/ (x \in Cast(q[1]) /\ Unbarred(a, n))

LEMMA OneLess ==
  ASSUME NEW a, NEW q, NEW n \in Nat, \A i \in 1 .. n : a[i] = q[i + 1]
  PROVE  Shifted(a, q, n)
<1>1. \A i \in 1 .. (n + 1) : i = 1 \/ (i - 1 \in 1 .. n /\ a[i - 1] = q[i])
  OBVIOUS
<1>2. 1 \in 1 .. (n + 1) /\ \A i \in 1 .. n : i + 1 \in 1 .. (n + 1) /\ a[i] = q[i + 1]
  OBVIOUS
<1>3. \A j \in (1 + 1) .. (n + 1) : j - 1 \in 1 .. n /\ a[j - 1] = q[j]
  OBVIOUS
<1>4. \A j \in 1 .. n : j + 1 \in (1 + 1) .. (n + 1)
  OBVIOUS
<1>5. \A i \in 1 .. n : \A j \in (i + 1) .. n :
        j + 1 \in ((i + 1) + 1) .. (n + 1) /\ a[j] = q[j + 1]
  OBVIOUS
<1>6. \A i \in 1 .. n : \A j \in ((i + 1) + 1) .. (n + 1) :
        j - 1 \in (i + 1) .. n /\ a[j - 1] = q[j]
  OBVIOUS
<1>7. ASSUME NEW x
      PROVE  Reaches(q, n + 1, x) <=> Reaches(a, n, x) \/ (x \in Carried(q[1]) /\ Open(a, n))
  <2>1. ASSUME Reaches(q, n + 1, x)
        PROVE  Reaches(a, n, x) \/ (x \in Carried(q[1]) /\ Open(a, n))
    <3>1. PICK i \in 1 .. (n + 1) :
            x \in Carried(q[i]) /\ \A j \in (i + 1) .. (n + 1) : ~Wipes(q[j])
      BY <2>1 DEF Reaches
    <3>2. CASE i = 1
      BY <1>4, <1>2, <3>1, <3>2 DEF Open
    <3>3. CASE i # 1
      <4>1. PICK k \in 1 .. n : k = i - 1 /\ a[k] = q[i] /\ i = k + 1
        BY <1>1, <3>3
      <4> QED BY <1>5, <3>1, <4>1 DEF Reaches
    <3> QED BY <3>2, <3>3
  <2>2. ASSUME Reaches(a, n, x) PROVE Reaches(q, n + 1, x)
    <3>1. PICK i \in 1 .. n : x \in Carried(a[i]) /\ \A j \in (i + 1) .. n : ~Wipes(a[j])
      BY <2>2 DEF Reaches
    <3>2. x \in Carried(q[i + 1]) /\ i + 1 \in 1 .. (n + 1)
      BY <1>2, <3>1
    <3>3. \A j \in ((i + 1) + 1) .. (n + 1) : ~Wipes(q[j])
      BY <1>6, <3>1
    <3> QED BY <3>2, <3>3 DEF Reaches
  <2>3. ASSUME x \in Carried(q[1]), Open(a, n) PROVE Reaches(q, n + 1, x)
    <3>1. \A j \in (1 + 1) .. (n + 1) : ~Wipes(q[j])
      BY <1>3, <2>3 DEF Open
    <3> QED BY <1>2, <2>3, <3>1 DEF Reaches
  <2> QED BY <2>1, <2>2, <2>3
<1>8. ASSUME NEW x
      PROVE  Lasts(q, n + 1, x) <=> Lasts(a, n, x) \/ (x \in Cast(q[1]) /\ Unbarred(a, n))
  <2>1. ASSUME Lasts(q, n + 1, x)
        PROVE  Lasts(a, n, x) \/ (x \in Cast(q[1]) /\ Unbarred(a, n))
    <3>1. PICK i \in 1 .. (n + 1) :
            x \in Cast(q[i]) /\ \A j \in (i + 1) .. (n + 1) : ~Barrier(q[j])
      BY <2>1 DEF Lasts
    <3>2. CASE i = 1
      BY <1>4, <1>2, <3>1, <3>2 DEF Unbarred
    <3>3. CASE i # 1
      <4>1. PICK k \in 1 .. n : k = i - 1 /\ a[k] = q[i] /\ i = k + 1
        BY <1>1, <3>3
      <4> QED BY <1>5, <3>1, <4>1 DEF Lasts
    <3> QED BY <3>2, <3>3
  <2>2. ASSUME Lasts(a, n, x) PROVE Lasts(q, n + 1, x)
    <3>1. PICK i \in 1 .. n : x \in Cast(a[i]) /\ \A j \in (i + 1) .. n : ~Barrier(a[j])
      BY <2>2 DEF Lasts
    <3>2. x \in Cast(q[i + 1]) /\ i + 1 \in 1 .. (n + 1)
      BY <1>2, <3>1
    <3>3. \A j \in ((i + 1) + 1) .. (n + 1) : ~Barrier(q[j])
      BY <1>6, <3>1
    <3> QED BY <3>2, <3>3 DEF Lasts
  <2>3. ASSUME x \in Cast(q[1]), Unbarred(a, n) PROVE Lasts(q, n + 1, x)
    <3>1. \A j \in (1 + 1) .. (n + 1) : ~Barrier(q[j])
      BY <1>3, <2>3 DEF Unbarred
    <3> QED BY <1>2, <2>3, <3>1 DEF Lasts
  <2> QED BY <2>1, <2>2, <2>3
<1>9. Open(q, n + 1) <=> ~Wipes(q[1]) /\ Open(a, n)
  BY <1>1, <1>2 DEF Open
<1>10. Clearless(q, n + 1) <=> q[1].type # "clear" /\ Clearless(a, n)
  BY <1>1, <1>2 DEF Clearless
<1> QED BY <1>7, <1>8, <1>9, <1>10 DEF Shifted

LEMMA NoPackets ==
  ASSUME NEW q
  PROVE  /\ Open(q, 0) /\ Clearless(q, 0) /\ Unbarred(q, 0)
         /\ \A x : ~Reaches(q, 0, x) /\ ~Lasts(q, 0, x)
  BY DEF Open, Clearless, Unbarred, Reaches, Lasts

-----------------------------------------------------------------------------
(* What is carried.                                                         *)
LEMMA RangeJoined ==
  ASSUME NEW S, NEW ts \in Seq(S), NEW rs \in Seq(S), NEW c \in Seq(S), Joined(c, ts, rs)
  PROVE  Range(c) = Range(ts) \cup Range(rs)
<1>1. /\ Range(c) = {c[i] : i \in 1 .. Len(c)} /\ Range(ts) = {ts[i] : i \in 1 .. Len(ts)}
      /\ Range(rs) = {rs[i] : i \in 1 .. Len(rs)}
  BY DEF Range
<1>2. \A i \in 1 .. Len(ts) : i \in 1 .. Len(c) /\ c[i] = ts[i]
  BY DEF Joined
<1>3. \A i \in 1 .. Len(rs) : Len(ts) + i \in 1 .. Len(c) /\ c[Len(ts) + i] = rs[i]
  BY DEF Joined
<1>4. ASSUME NEW i \in 1 .. Len(c) PROVE c[i] \in Range(ts) \cup Range(rs)
  <2>1. CASE i \in 1 .. Len(ts)
    BY <1>1, <1>2, <2>1
  <2>2. ASSUME NEW j \in 1 .. Len(rs), i = Len(ts) + j PROVE c[i] \in Range(rs)
    BY <1>1, <1>3, <2>2
  <2> QED BY <2>1, <2>2 DEF Joined
<1> QED BY <1>1, <1>2, <1>3, <1>4

(* What u knows when he learns more.                                        *)
LEMMA KnownGrows ==
  ASSUME TypeOK, NEW u \in User, NEW jts, NEW rs \in Seq(Task), items'[u] = items[u] \cup jts,
         tasks'[u] \in Seq(Task), Joined(tasks'[u], tasks[u], rs)
  PROVE  /\ Known(u)' = Known(u) \cup Content(jts, rs)
         /\ Range(tasks[u]) \subseteq Range(tasks'[u])
<1>1. tasks[u] \in Seq(Task)
  BY DEF TypeOK
<1>2. Range(tasks'[u]) = Range(tasks[u]) \cup Range(rs)
  BY <1>1, RangeJoined
<1>3. Content(items'[u], tasks'[u]) = Content(items[u], tasks[u]) \cup Content(jts, rs)
  BY <1>2 DEF Content
<1> QED BY <1>2, <1>3 DEF Known

LEMMA ContentNone == Content({}, <<>>) = {}
  BY DEF Content, Range

(* The same content means the same items and the same tasks.                *)
LEMMA ContentSame ==
  ASSUME NEW its, NEW jts, NEW ts, NEW rs, Content(its, ts) = Content(jts, rs)
  PROVE  its = jts /\ Range(ts) = Range(rs)
<1>1. "item" # "task"
  OBVIOUS
<1>2. \A k : (k \in its <=> <<"item", k>> \in Content(its, ts))
             /\ (k \in jts <=> <<"item", k>> \in Content(jts, rs))
  BY DEF Content
<1>3. \A t : (t \in Range(ts) <=> <<"task", t>> \in Content(its, ts))
             /\ (t \in Range(rs) <=> <<"task", t>> \in Content(jts, rs))
  BY DEF Content
<1>4. its = jts
  BY <1>2
<1>5. Range(ts) = Range(rs)
  BY <1>3
<1> QED BY <1>4, <1>5

LEMMA PacketBrings ==
  ASSUME NEW p
  PROVE  /\ p.type \notin {"create", "task"} => Cast(p) = {}
         /\ p.type \notin {"create", "task", "data"} => Carried(p) = {}
         /\ p.type # "data" => Carried(p) = Cast(p)
         /\ p.type \notin {"clear", "resJoin"} => ~Wipes(p)
         /\ p.type \notin {"complete", "resJoin"} => ~Grants(p)
         /\ Wipes(p) => Carried(p) = {}
  BY DEF Cast, Carried, Wipes, Asked, Grants

-----------------------------------------------------------------------------
(* Who is being synchronised, and who is not.                               *)
Settled(u) ==
  /\ Unasked(u)
  /\ \A i \in 1 .. Len(up[u]) : up[u][i].type # "syncRequest"
  /\ \A v \in User :
       /\ \A i \in 1 .. Len(up[v]) : ~(Bundled(up[v][i]) /\ up[v][i].target = u)
       /\ \A i \in 1 .. Len(down[v]) : ~RunsFor(u, down[v][i])
       /\ u \notin serializing[v].target

LEMMA StepsSettled ==
  ASSUME NEW u \in User, NEW a, NEW s, Steps(u, a, s), a \in {"none", "arrive"}, Unasked(u)
  PROVE  Settled(u)
<1>1. ASSUME NEW v \in User, NEW i \in 1 .. Len(up[v])
      PROVE  /\ ~(Bundled(up[v][i]) /\ up[v][i].target = u)
             /\ v = u => up[v][i].type # "syncRequest"
  <2>1. UpStage(u, a, s, v, i)
    BY DEF Steps
  <2> QED BY <2>1 DEF UpStage, UpMatters, Bundled
<1>2. ASSUME NEW v \in User, NEW i \in 1 .. Len(down[v])
      PROVE  ~RunsFor(u, down[v][i])
  <2>1. DownStage(u, a, s, v, i)
    BY DEF Steps
  <2> QED BY <2>1 DEF DownStage, DownMatters, RunsFor
<1>3. \A v \in User : u \notin serializing[v].target
  BY DEF Steps
<1> QED BY <1>1, <1>2, <1>3 DEF Settled

LEMMA OutsideSettled ==
  ASSUME TypeOK, Conn, Synchronised, NEW u \in User \ strayed,
         u \notin connected \/ Joining(u) \/ u \notin room
  PROVE  Settled(u) /\ ~Holder(u) /\ Len(down[u]) = 0
<1>1. PICK a \in Stage, s \in User : Steps(u, a, s)
  BY DEF Synchronised
<1>2. u \notin connected \/ Joining(u)
  BY DEF Conn, Line
<1>3. CASE Joining(u)
  <2>1. 1 \in 1 .. Len(up[u]) /\ up[u][1].type = "join"
    BY <1>3, Lens DEF Joining
  <2>2. UpFits(u, 1) /\ UpStage(u, a, s, u, 1)
    BY <1>1, <2>1 DEF Conn, Line, Steps
  <2>3. a = "none" /\ u \notin whole /\ down[u] = <<>>
    BY <2>1, <2>2 DEF UpFits, UpStage, UpMatters
  <2>4. Len(down[u]) = 0
    BY <2>3
  <2>5. Unasked(u)
    BY <2>4 DEF Unasked
  <2>6. ~Holder(u)
    BY <2>3, <2>4 DEF Holder, HolderBy
  <2> QED BY <1>1, <2>3, <2>4, <2>5, <2>6, StepsSettled
<1>4. CASE u \notin connected
  <2>1. a = "none" /\ u \notin whole /\ down[u] = <<>>
    BY <1>1, <1>4 DEF Conn, Line, Steps
  <2>2. Len(down[u]) = 0
    BY <2>1
  <2>3. Unasked(u)
    BY <2>2 DEF Unasked
  <2>4. ~Holder(u)
    BY <2>1, <2>2 DEF Holder, HolderBy
  <2> QED BY <1>1, <2>1, <2>2, <2>3, <2>4, StepsSettled
<1> QED BY <1>2, <1>3, <1>4

LEMMA HolderSettled ==
  ASSUME TypeOK, Conn, Synchronised, NEW u \in User, Holder(u)
  PROVE  Settled(u) /\ u \in connected /\ u \in room /\ u \notin strayed
<1>1. u \notin strayed
  BY DEF Holder, HolderBy
<1>2. u \in connected /\ u \in room
  BY <1>1, OutsideSettled
<1>3. PICK a \in Stage, s \in User : Steps(u, a, s)
  BY <1>1 DEF Synchronised
<1>4. ASSUME NEW i \in 1 .. Len(down[u]), down[u][i].type = "resJoin"
      PROVE  i = 1 /\ u \notin whole /\ a = "none"
  <2>1. DownFits(u, i) /\ DownStage(u, a, s, u, i)
    BY <1>3 DEF Conn, Line, Steps
  <2> QED BY <1>4, <2>1 DEF DownFits, DownStage, DownMatters
<1>5. CASE u \in whole
  <2>1. a = "none"
    BY <1>3, <1>5 DEF Steps
  <2>2. Unasked(u)
    BY <1>4, <1>5 DEF Unasked, Asked
  <2> QED BY <1>1, <1>2, <1>3, <2>1, <2>2, StepsSettled
<1>6. ASSUME NEW i \in 1 .. Len(down[u]), Grants(down[u][i])
      PROVE  Settled(u)
  <2>1. DownStage(u, a, s, u, i)
    BY <1>3 DEF Steps
  <2>2. CASE down[u][i].type = "resJoin" /\ down[u][i].first
    <3>1. i = 1 /\ a = "none"
      BY <1>4, <2>2
    <3>2. Unasked(u)
      BY <1>4, <2>2, <3>1 DEF Unasked, Asked
    <3> QED BY <1>3, <3>1, <3>2, StepsSettled
  <2>3. CASE down[u][i].type = "complete"
    <3>1. a = "arrive"
      BY <2>1, <2>3 DEF DownStage, DownMatters, Bundled
    <3>2. Unasked(u)
      BY <1>4, <3>1 DEF Unasked, Asked
    <3> QED BY <1>3, <3>1, <3>2, StepsSettled
  <2> QED BY <1>6, <2>2, <2>3 DEF Grants
<1> QED BY <1>1, <1>2, <1>5, <1>6 DEF Holder, HolderBy

(* Some s is, or will be, synchronising z.                                  *)
Pending(z, s) ==
  \/ \E i \in 1 .. Len(down[s]) : RunsFor(z, down[s][i])
  \/ z \in serializing[s].target
  \/ \E i \in 1 .. Len(up[s]) : Bundled(up[s][i]) /\ up[s][i].target = z

LEMMA PendingFacts ==
  ASSUME TypeOK, Conn, Synchronised, NEW z \in User \ strayed, NEW s \in User, Pending(z, s)
  PROVE  /\ s # z /\ z \in connected /\ z \in room /\ ~Holder(z) /\ Unasked(z)
         /\ \A i \in 1 .. Len(up[z]) : up[z][i].type # "syncRequest"
<1>1. ~Settled(z)
  BY DEF Pending, Settled
<1>2. z \in connected /\ z \in room /\ ~Holder(z)
  BY <1>1, OutsideSettled, HolderSettled
<1>3. s # z
  BY DEF Pending, RunsFor, Conn, Line, DownFits, UpFits
<1>4. PICK a \in Stage, w \in User : Steps(z, a, w)
  BY DEF Synchronised
<1>5. a \in {"run", "write", "send"}
  <2>1. CASE z \in serializing[s].target
    BY <1>4, <2>1 DEF Steps
  <2>2. ASSUME NEW i \in 1 .. Len(down[s]), RunsFor(z, down[s][i]) PROVE a = "run"
    <3>1. DownStage(z, a, w, s, i)
      BY <1>4 DEF Steps
    <3> QED BY <2>2, <3>1 DEF DownStage, DownMatters, RunsFor
  <2>3. ASSUME NEW i \in 1 .. Len(up[s]), Bundled(up[s][i]), up[s][i].target = z PROVE a = "send"
    <3>1. UpStage(z, a, w, s, i)
      BY <1>4 DEF Steps
    <3> QED BY <2>3, <3>1 DEF UpStage, UpMatters
  <2> QED BY <2>1, <2>2, <2>3 DEF Pending
<1>6. Unasked(z)
  <2>1. ASSUME NEW i \in 1 .. Len(down[z]), down[z][i].type = "resJoin" PROVE FALSE
    <3>1. DownStage(z, a, w, z, i)
      BY <1>4 DEF Steps
    <3> QED BY <1>5, <2>1, <3>1 DEF DownStage, DownMatters
  <2> QED BY <2>1 DEF Unasked, Asked
<1>7. \A i \in 1 .. Len(up[z]) : up[z][i].type # "syncRequest"
  <2>1. ASSUME NEW i \in 1 .. Len(up[z]), up[z][i].type = "syncRequest" PROVE FALSE
    <3>1. UpStage(z, a, w, z, i)
      BY <1>4 DEF Steps
    <3> QED BY <1>5, <2>1, <3>1 DEF UpStage, UpMatters
  <2> QED BY <2>1
<1> QED BY <1>2, <1>3, <1>6, <1>7

LEMMA HopefulUnsettled ==
  ASSUME NEW z \in User, Hopeful(z)
  PROVE  ~Settled(z)
  BY DEF Hopeful, Settled, Completes, Bundled

-----------------------------------------------------------------------------
(* What stays so where nothing moves to the front: z is to get from s what  *)
(* he lacks, D before and E after the step.                                 *)
DownFront(z, s) ==
  \A i \in 1 .. Len(down'[s]) : RunsFor(z, down'[s][i]) =>
    i \in 1 .. Len(down[s]) /\ \A j \in 1 .. i : down'[s][j] = down[s][j]

UpFront(z, s) ==
  \A i \in 1 .. Len(up'[s]) : DataFor(z, up'[s][i]) \/ Completes(z, up'[s][i]) =>
    i \in 1 .. Len(up[s]) /\ \A j \in 1 .. i : up'[s][j] = up[s][j]

NeedsLess(D, E, z) == \A x : Needs(E, z, x)' => Needs(D, z, x)

LEMMA FrontBy ==
  ASSUME TypeOK, NEW s \in User, NEW n \in Nat, \A j \in 1 .. n : down'[s][j] = down[s][j],
         s \in whole' => s \in whole, s \notin strayed' => s \notin strayed,
         ~ClearDeferred(s) => ~ClearDeferred(s)' /\ Known(s) \subseteq Known(s)'
  PROVE  /\ HolderBy(s, n)' => HolderBy(s, n)
         /\ \A x : ArrivesBy(s, n, x) => ArrivesBy(s, n, x)'
<1>1. SameTo(down'[s], down[s], n)
  BY SameFront
<1>2. HolderBy(s, n)' => HolderBy(s, n)
  BY DEF HolderBy
<1>3. ASSUME NEW x, ArrivesBy(s, n, x) PROVE ArrivesBy(s, n, x)'
  <2>1. (Reaches(down[s], n, x) <=> Reaches(down'[s], n, x))
        /\ (Open(down[s], n) <=> Open(down'[s], n))
    BY <1>1 DEF SameTo
  <2> QED BY <1>3, <2>1 DEF ArrivesBy
<1> QED BY <1>2, <1>3

LEMMA ToReadFrame ==
  ASSUME TypeOK, NEW D, NEW E, NEW z, NEW s \in User, ToRead(D, z, s), DownFront(z, s),
         NeedsLess(D, E, z),
         s \in whole' => s \in whole, s \notin strayed' => s \notin strayed,
         Len(down'[s]) # 0 /\ NoClear(s)' =>
           /\ NoClear(s)
           /\ ~ClearDeferred(s) => ~ClearDeferred(s)' /\ Known(s) \subseteq Known(s)'
  PROVE  ToRead(E, z, s)'
<1>1. ASSUME NEW i \in 1 .. Len(down'[s]), RunsFor(z, down'[s][i]), HolderBy(s, i - 1)',
             NoClear(s)', NEW x, Needs(E, z, x)'
      PROVE  ArrivesBy(s, i - 1, x)'
  <2>1. i \in 1 .. Len(down[s]) /\ \A j \in 1 .. i : down'[s][j] = down[s][j]
    BY <1>1 DEF DownFront
  <2>2. i - 1 \in Nat /\ \A j \in 1 .. (i - 1) : j \in 1 .. i
    BY <2>1
  <2>3. Len(down'[s]) # 0
    BY <1>1
  <2>4. NoClear(s) /\ (~ClearDeferred(s) => ~ClearDeferred(s)' /\ Known(s) \subseteq Known(s)')
    BY <1>1, <2>3
  <2>5. PICK n \in Nat : n = i - 1
    BY <2>2
  <2>6. \A j \in 1 .. n : down'[s][j] = down[s][j]
    BY <2>1, <2>2, <2>5
  <2>7. HolderBy(s, n)' => HolderBy(s, n)
    BY <2>4, <2>6, FrontBy
  <2>8. ArrivesBy(s, n, x) => ArrivesBy(s, n, x)'
    BY <2>4, <2>6, FrontBy
  <2>9. HolderBy(s, n)
    BY <1>1, <2>5, <2>7
  <2>10. RunsFor(z, down[s][i])
    <3>1. i \in 1 .. i
      BY <2>1
    <3> QED BY <1>1, <2>1, <3>1
  <2>11. ArrivesBy(s, n, x)
    BY <1>1, <2>1, <2>4, <2>5, <2>9, <2>10 DEF ToRead, NeedsLess
  <2> QED BY <2>5, <2>8, <2>11
<1> QED BY <1>1 DEF ToRead

LEMMA ReadingFrame ==
  ASSUME NEW D, NEW E, NEW z, NEW s, Reading(D, z, s), NeedsLess(D, E, z),
         s \in whole' /\ z \in serializing'[s].target /\ NoClear(s)' =>
           /\ s \in whole /\ z \in serializing[s].target /\ NoClear(s)
           /\ Content(serializing[s].items, tasks[s])
                \subseteq Content(serializing'[s].items, tasks'[s])
  PROVE  Reading(E, z, s)'
  BY DEF Reading, NeedsLess

LEMMA OnItsWayFrame ==
  ASSUME NEW D, NEW E, NEW z, NEW s, OnItsWay(D, z, s), UpFront(z, s), NeedsLess(D, E, z),
         D \subseteq E
  PROVE  OnItsWay(E, z, s)'
<1>0. ASSUME NEW i \in 1 .. Len(up'[s]), DataFor(z, up'[s][i]) \/ Completes(z, up'[s][i])
      PROVE  /\ i \in 1 .. Len(up[s]) /\ up'[s][i] = up[s][i] /\ i - 1 \in Nat
             /\ \A j \in 1 .. (i - 1) : up'[s][j] = up[s][j]
             /\ SameTo(up'[s], up[s], i - 1)
  <2>1. i \in 1 .. Len(up[s]) /\ \A j \in 1 .. i : up'[s][j] = up[s][j]
    BY <1>0 DEF UpFront
  <2>2. i \in 1 .. i /\ i - 1 \in Nat /\ \A j \in 1 .. (i - 1) : j \in 1 .. i
    BY <2>1
  <2> QED BY <2>1, <2>2, SameFront
<1>1. ASSUME NEW i \in 1 .. Len(up'[s]), Completes(z, up'[s][i]), Clearless(up'[s], i - 1),
             NEW x, Needs(E, z, x)'
      PROVE  \E j \in 1 .. (i - 1) : DataFor(z, up'[s][j]) /\ x \in Carried(up'[s][j])
  <2>1. /\ i \in 1 .. Len(up[s]) /\ Completes(z, up[s][i]) /\ Clearless(up[s], i - 1)
        /\ \A j \in 1 .. (i - 1) : up'[s][j] = up[s][j]
    BY <1>0, <1>1 DEF SameTo
  <2>2. Needs(D, z, x)
    BY <1>1 DEF NeedsLess
  <2>3. \E j \in 1 .. (i - 1) : DataFor(z, up[s][j]) /\ x \in Carried(up[s][j])
    BY <2>1, <2>2 DEF OnItsWay
  <2> QED BY <2>1, <2>3
<1>2. ASSUME NEW i \in 1 .. Len(up'[s]), Completes(z, up'[s][i]),
             NEW j \in 1 .. Len(up'[s]), DataFor(z, up'[s][j]), NEW x \in Carried(up'[s][j])
      PROVE  (x \in E /\ Clearless(up'[s], j - 1)) \/ Lasts(up'[s], j - 1, x)
  <2>1. i \in 1 .. Len(up[s]) /\ Completes(z, up[s][i])
    BY <1>0, <1>2
  <2>2. /\ j \in 1 .. Len(up[s]) /\ DataFor(z, up[s][j]) /\ x \in Carried(up[s][j])
        /\ SameTo(up'[s], up[s], j - 1)
    BY <1>0, <1>2
  <2>3. (x \in D /\ Clearless(up[s], j - 1)) \/ Lasts(up[s], j - 1, x)
    BY <2>1, <2>2 DEF OnItsWay
  <2> QED BY <2>2, <2>3 DEF SameTo
<1> QED BY <1>1, <1>2 DEF OnItsWay

(* s receives: what he will know by a packet does not change.               *)
LEMMA ToReadShift ==
  ASSUME NEW D, NEW z, NEW s, ToRead(D, z, s), Headless(down'[s], down[s]),
         NeedsLess(D, D, z), NoClear(s)' => NoClear(s),
         \A n \in Nat : n < Len(down[s]) /\ HolderBy(s, n)' =>
           HolderBy(s, n + 1) /\ \A x : ArrivesBy(s, n + 1, x) => ArrivesBy(s, n, x)'
  PROVE  ToRead(D, z, s)'
<1>1. ASSUME NEW i \in 1 .. Len(down'[s]), RunsFor(z, down'[s][i]), HolderBy(s, i - 1)',
             NoClear(s)', NEW x, Needs(D, z, x)'
      PROVE  ArrivesBy(s, i - 1, x)'
  <2>1. i + 1 \in 1 .. Len(down[s]) /\ down'[s][i] = down[s][i + 1]
    BY DEF Headless
  <2>2. PICK n \in Nat : n = i - 1 /\ n + 1 = (i + 1) - 1 /\ n < Len(down[s])
    <3>1. i - 1 \in Nat /\ (i - 1) + 1 = (i + 1) - 1 /\ i - 1 < Len(down[s])
      BY DEF Headless
    <3> QED BY <3>1
  <2>3. HolderBy(s, n)'
    BY <1>1, <2>2
  <2>4. HolderBy(s, n + 1) /\ (ArrivesBy(s, n + 1, x) => ArrivesBy(s, n, x)')
    BY <2>2, <2>3
  <2>5. Needs(D, z, x)
    BY <1>1 DEF NeedsLess
  <2>6. ArrivesBy(s, n + 1, x)
    BY <1>1, <2>1, <2>2, <2>4, <2>5 DEF ToRead
  <2> QED BY <2>2, <2>4, <2>6
<1> QED BY <1>1 DEF ToRead

(* The server takes a packet p of s that is not a clear.                    *)
LEMMA OnItsWayShift ==
  ASSUME NEW D, NEW E, NEW z, NEW s, OnItsWay(D, z, s), Headless(up'[s], up[s]),
         NEW p, p = up[s][1], p.type # "clear", D \cup Cast(p) \subseteq E,
         \A x : Needs(E, z, x)' => Needs(D, z, x) /\ (DataFor(z, p) => x \notin Carried(p))
  PROVE  OnItsWay(E, z, s)'
<1>0. ASSUME NEW i \in 1 .. Len(up'[s])
      PROVE  /\ i + 1 \in 1 .. Len(up[s]) /\ up'[s][i] = up[s][i + 1] /\ i - 1 \in Nat
             /\ Shifted(up'[s], up[s], i - 1) /\ (i - 1) + 1 = (i + 1) - 1
  <2>1. i + 1 \in 1 .. Len(up[s]) /\ up'[s][i] = up[s][i + 1]
    BY DEF Headless
  <2>2. i - 1 \in Nat /\ (i - 1) + 1 = (i + 1) - 1
    OBVIOUS
  <2>3. \A j \in 1 .. (i - 1) : up'[s][j] = up[s][j + 1]
    BY DEF Headless
  <2> QED BY <2>1, <2>2, <2>3, OneLess
<1>1. ASSUME NEW i \in 1 .. Len(up'[s]), Completes(z, up'[s][i]), Clearless(up'[s], i - 1),
             NEW x, Needs(E, z, x)'
      PROVE  \E j \in 1 .. (i - 1) : DataFor(z, up'[s][j]) /\ x \in Carried(up'[s][j])
  <2>1. /\ i + 1 \in 1 .. Len(up[s]) /\ Completes(z, up[s][i + 1])
        /\ Clearless(up[s], (i + 1) - 1)
    BY <1>0, <1>1 DEF Shifted
  <2>2. Needs(D, z, x) /\ (DataFor(z, p) => x \notin Carried(p))
    BY <1>1
  <2>3. PICK j \in 1 .. ((i + 1) - 1) : DataFor(z, up[s][j]) /\ x \in Carried(up[s][j])
    BY <2>1, <2>2 DEF OnItsWay
  <2>4. j # 1
    BY <2>2, <2>3
  <2>5. j - 1 \in 1 .. (i - 1) /\ up'[s][j - 1] = up[s][j]
    <3>1. j - 1 \in 1 .. Len(up'[s]) /\ (j - 1) + 1 = j /\ j - 1 \in 1 .. (i - 1)
      BY <2>4 DEF Headless
    <3> QED BY <3>1 DEF Headless
  <2> QED BY <2>3, <2>5
<1>2. ASSUME NEW i \in 1 .. Len(up'[s]), Completes(z, up'[s][i]),
             NEW j \in 1 .. Len(up'[s]), DataFor(z, up'[s][j]), NEW x \in Carried(up'[s][j])
      PROVE  (x \in E /\ Clearless(up'[s], j - 1)) \/ Lasts(up'[s], j - 1, x)
  <2>1. i + 1 \in 1 .. Len(up[s]) /\ Completes(z, up[s][i + 1])
    BY <1>0, <1>2
  <2>2. /\ j + 1 \in 1 .. Len(up[s]) /\ DataFor(z, up[s][j + 1]) /\ x \in Carried(up[s][j + 1])
        /\ Shifted(up'[s], up[s], j - 1) /\ (j - 1) + 1 = (j + 1) - 1
    BY <1>0, <1>2
  <2>3. (x \in D /\ Clearless(up[s], (j + 1) - 1)) \/ Lasts(up[s], (j + 1) - 1, x)
    BY <2>1, <2>2 DEF OnItsWay
  <2>4. CASE x \in D /\ Clearless(up[s], (j + 1) - 1)
    BY <2>2, <2>4 DEF Shifted
  <2>5. CASE Lasts(up[s], (j + 1) - 1, x)
    <3>1. Lasts(up'[s], j - 1, x) \/ (x \in Cast(up[s][1]) /\ Unbarred(up'[s], j - 1))
      BY <2>2, <2>5 DEF Shifted
    <3>2. Unbarred(up'[s], j - 1) => Clearless(up'[s], j - 1)
      BY DEF Unbarred, Clearless, Barrier
    <3> QED BY <3>1, <3>2
  <2> QED BY <2>3, <2>4, <2>5
<1> QED BY <1>1, <1>2 DEF OnItsWay

(* The server takes a clear of s: nothing is left to be got.                *)
LEMMA OnItsWayCleared ==
  ASSUME NEW D, NEW z, NEW s, OnItsWay(D, z, s), Headless(up'[s], up[s]), up[s][1].type = "clear"
  PROVE  OnItsWay({}, z, s)'
<1>0. ASSUME NEW i \in 1 .. Len(up'[s])
      PROVE  /\ i + 1 \in 1 .. Len(up[s]) /\ up'[s][i] = up[s][i + 1] /\ i - 1 \in Nat
             /\ Shifted(up'[s], up[s], i - 1) /\ (i - 1) + 1 = (i + 1) - 1
  <2>1. i + 1 \in 1 .. Len(up[s]) /\ up'[s][i] = up[s][i + 1]
    BY DEF Headless
  <2>2. i - 1 \in Nat /\ (i - 1) + 1 = (i + 1) - 1
    OBVIOUS
  <2>3. \A j \in 1 .. (i - 1) : up'[s][j] = up[s][j + 1]
    BY DEF Headless
  <2> QED BY <2>1, <2>2, <2>3, OneLess
<1>1. ASSUME NEW i \in 1 .. Len(up'[s]), Completes(z, up'[s][i]),
             NEW j \in 1 .. Len(up'[s]), DataFor(z, up'[s][j]), NEW x \in Carried(up'[s][j])
      PROVE  Lasts(up'[s], j - 1, x)
  <2>1. i + 1 \in 1 .. Len(up[s]) /\ Completes(z, up[s][i + 1])
    BY <1>0, <1>1
  <2>2. /\ j + 1 \in 1 .. Len(up[s]) /\ DataFor(z, up[s][j + 1]) /\ x \in Carried(up[s][j + 1])
        /\ Shifted(up'[s], up[s], j - 1) /\ (j - 1) + 1 = (j + 1) - 1
    BY <1>0, <1>1
  <2>3. (x \in D /\ Clearless(up[s], (j + 1) - 1)) \/ Lasts(up[s], (j + 1) - 1, x)
    BY <2>1, <2>2 DEF OnItsWay
  <2>4. ~Clearless(up[s], (j + 1) - 1)
    BY <2>2 DEF Shifted
  <2>5. Lasts(up'[s], j - 1, x) \/ (x \in Cast(up[s][1]) /\ Unbarred(up'[s], j - 1))
    BY <2>2, <2>3, <2>4 DEF Shifted
  <2> QED BY <2>5, PacketBrings
<1>2. \A x : ~Needs({}, z, x)'
  BY DEF Needs
<1> QED BY <1>1, <1>2 DEF OnItsWay

-----------------------------------------------------------------------------
(* What a step leaves to a user.                                            *)
Alike(v) ==
  /\ \A x : (Arrives(v, x)' <=> Arrives(v, x)) /\ (Mine(v, x)' <=> Mine(v, x))
  /\ NoClear(v)' <=> NoClear(v)

LEMMA PaintingAlike ==
  ASSUME NEW D, NEW v, PaintingAt(D, v), Alike(v),
         Holder(v)' => Holder(v), Hopeful(v)' => Hopeful(v), v \in connected' => v \in connected
  PROVE  PaintingAt(D, v)'
  BY DEF PaintingAt, Alike

LEMMA NeedsAlike ==
  ASSUME NEW D, NEW z, Alike(z)
  PROVE  NeedsLess(D, D, z)
  BY DEF NeedsLess, Needs, Alike

Untouched(v) ==
  /\ up'[v] = up[v] /\ down'[v] = down[v] /\ deferred'[v] = deferred[v]
  /\ items'[v] = items[v] /\ tasks'[v] = tasks[v]

LEMMA UntouchedAlike ==
  ASSUME NEW v, Untouched(v)
  PROVE  Alike(v)
<1>1. ASSUME NEW x PROVE Arrives(v, x)' <=> Arrives(v, x)
  BY DEF Untouched, Arrives, ArrivesBy, ClearDeferred, Known
<1>2. ASSUME NEW x PROVE Mine(v, x)' <=> Mine(v, x)
  BY DEF Untouched, Mine, Unasked
<1>3. NoClear(v)' <=> NoClear(v)
  BY DEF Untouched, NoClear
<1> QED BY <1>1, <1>2, <1>3 DEF Alike

LEMMA PathIdle ==
  ASSUME NEW D, NEW z, NEW s
  PROVE  /\ ~Pending(z, s) => ToRead(D, z, s) /\ Reading(D, z, s) /\ OnItsWay(D, z, s)
         /\ ~Pending(z, s)' => ToRead(D, z, s)' /\ Reading(D, z, s)' /\ OnItsWay(D, z, s)'
<1>1. ~Pending(z, s) => ToRead(D, z, s) /\ Reading(D, z, s) /\ OnItsWay(D, z, s)
  BY DEF Pending, ToRead, Reading, OnItsWay, Completes, Bundled
<1>2. ~Pending(z, s)' => ToRead(D, z, s)' /\ Reading(D, z, s)' /\ OnItsWay(D, z, s)'
  BY DEF Pending, ToRead, Reading, OnItsWay, Completes, Bundled
<1> QED BY <1>1, <1>2

LEMMA FrontSame ==
  ASSUME NEW z, NEW s
  PROVE  /\ up'[s] = up[s] => UpFront(z, s)
         /\ down'[s] = down[s] => DownFront(z, s)
  BY DEF UpFront, DownFront

LEMMA FrontAppended ==
  ASSUME NEW z, NEW s, NEW p
  PROVE  /\ Appended(up'[s], up[s], p) /\ ~DataFor(z, p) /\ ~Completes(z, p) => UpFront(z, s)
         /\ Appended(down'[s], down[s], p) /\ ~RunsFor(z, p) => DownFront(z, s)
<1>1. ASSUME Appended(up'[s], up[s], p), ~DataFor(z, p), ~Completes(z, p)
      PROVE  UpFront(z, s)
  <2>1. \A i \in 1 .. Len(up'[s]) : i \in 1 .. Len(up[s]) \/ up'[s][i] = p
    BY <1>1 DEF Appended
  <2>2. \A i \in 1 .. Len(up[s]) : \A j \in 1 .. i : up'[s][j] = up[s][j]
    BY <1>1 DEF Appended
  <2> QED BY <1>1, <2>1, <2>2 DEF UpFront
<1>2. ASSUME Appended(down'[s], down[s], p), ~RunsFor(z, p)
      PROVE  DownFront(z, s)
  <2>1. \A i \in 1 .. Len(down'[s]) : i \in 1 .. Len(down[s]) \/ down'[s][i] = p
    BY <1>2 DEF Appended
  <2>2. \A i \in 1 .. Len(down[s]) : \A j \in 1 .. i : down'[s][j] = down[s][j]
    BY <1>2 DEF Appended
  <2> QED BY <1>2, <2>1, <2>2 DEF DownFront
<1> QED BY <1>1, <1>2

LEMMA FrontJoined ==
  ASSUME NEW z, NEW s, NEW r, Joined(up'[s], up[s], r),
         \A i \in 1 .. Len(r) : ~DataFor(z, r[i]) /\ ~Completes(z, r[i])
  PROVE  UpFront(z, s)
<1>1. ASSUME NEW i \in 1 .. Len(up'[s]), DataFor(z, up'[s][i]) \/ Completes(z, up'[s][i])
      PROVE  i \in 1 .. Len(up[s])
  BY <1>1 DEF Joined
<1>2. \A i \in 1 .. Len(up[s]) : \A j \in 1 .. i : up'[s][j] = up[s][j]
  BY DEF Joined
<1> QED BY <1>1, <1>2 DEF UpFront

LEMMA RangeQueue ==
  ASSUME NEW S, NEW q \in Seq(S)
  PROVE  /\ \A c \in S : \A d : d \in Range(Append(q, c)) <=> d \in Range(q) \/ d = c
         /\ q # <<>> => \A d : d \in Range(q) <=> d \in Range(Tail(q)) \/ d = Head(q)
<1>1. ASSUME NEW c \in S, NEW d
      PROVE  d \in Range(Append(q, c)) <=> d \in Range(q) \/ d = c
  <2>1. PICK a : a = Append(q, c)
    OBVIOUS
  <2>2. a \in Seq(S) /\ Appended(a, q, c)
    BY <2>1, InAppend
  <2>3. Range(a) = {a[i] : i \in 1 .. Len(a)} /\ Range(q) = {q[i] : i \in 1 .. Len(q)}
    BY <2>2 DEF Range
  <2>4. \A i \in 1 .. Len(q) : i \in 1 .. Len(a) /\ a[i] = q[i]
    BY <2>2 DEF Appended
  <2>5. Len(q) + 1 \in 1 .. Len(a) /\ a[Len(q) + 1] = c
    BY <2>2 DEF Appended
  <2>6. \A i \in 1 .. Len(a) : i \in 1 .. Len(q) \/ i = Len(q) + 1
    BY <2>2 DEF Appended
  <2> QED BY <2>1, <2>3, <2>4, <2>5, <2>6
<1>2. ASSUME q # <<>>, NEW d
      PROVE  d \in Range(q) <=> d \in Range(Tail(q)) \/ d = Head(q)
  <2>1. PICK a : a = Tail(q)
    OBVIOUS
  <2>2. a \in Seq(S) /\ Headless(a, q) /\ Head(q) = q[1] /\ 1 \in 1 .. Len(q)
    BY <1>2, <2>1, InTail, InHead
  <2>3. Range(a) = {a[i] : i \in 1 .. Len(a)} /\ Range(q) = {q[i] : i \in 1 .. Len(q)}
    BY <2>2 DEF Range
  <2>4. \A i \in 1 .. Len(a) : i + 1 \in 1 .. Len(q) /\ a[i] = q[i + 1]
    BY <2>2 DEF Headless
  <2>5. ASSUME NEW i \in 1 .. Len(q) PROVE i = 1 \/ q[i] \in Range(a)
    <3>1. CASE i # 1
      <4>1. i - 1 \in 1 .. Len(a) /\ (i - 1) + 1 = i
        BY <2>2, <3>1 DEF Headless
      <4> QED BY <2>3, <2>4, <4>1
    <3> QED BY <3>1
  <2>6. d \in Range(q) => d \in Range(a) \/ d = q[1]
    BY <2>3, <2>5
  <2>7. d \in Range(a) \/ d = q[1] => d \in Range(q)
    BY <2>2, <2>3, <2>4
  <2> QED BY <2>1, <2>2, <2>6, <2>7
<1> QED BY <1>1, <1>2

-----------------------------------------------------------------------------
(* A deferred call runs.                                                    *)
LEMMA DocRunDeferred ==
  ASSUME TypeOK, NEW D, Doc(D), NEW u \in User, RunDeferred(u)
  PROVE  Doc(D)'
<1>1. /\ UNCHANGED <<up, down, serializing, whole, strayed, connected>>
      /\ \A v \in User : v # u => /\ deferred'[v] = deferred[v] /\ items'[v] = items[v]
                                  /\ tasks'[v] = tasks[v]
  BY DEF RunDeferred, net, aux, TypeOK
<1>2. PICK c : c = Head(deferred[u])
  OBVIOUS
<1>3. /\ c = "clear" => items'[u] = {} /\ tasks'[u] = <<>>
      /\ c # "clear" => items'[u] = items[u] /\ tasks'[u] = tasks[u]
      /\ ClearDeferred(u) <=> ClearDeferred(u)' \/ c = "clear"
  <2>1. deferred[u] \in Seq({"clear", "start", "complete"}) /\ deferred[u] # <<>>
    BY DEF TypeOK, RunDeferred
  <2>2. deferred'[u] = Tail(deferred[u])
    BY DEF RunDeferred, TypeOK
  <2>3. ClearDeferred(u) <=> ClearDeferred(u)' \/ c = "clear"
    BY <1>2, <2>1, <2>2, RangeQueue DEF ClearDeferred
  <2> QED BY <1>2, <2>3 DEF RunDeferred, TypeOK
<1>4. ASSUME NEW v \in User PROVE Alike(v)
  <2>1. CASE v # u
    BY <1>1, <2>1, UntouchedAlike DEF Untouched
  <2>2. CASE v = u
    <3>1. c = "clear" => Known(u)' = {}
      BY <1>3, ContentNone DEF Known
    <3>2. c # "clear" => Known(u)' = Known(u)
      BY <1>3 DEF Known
    <3>3. \A x : Arrives(u, x)' <=> Arrives(u, x)
      BY <1>1, <1>3, <3>1, <3>2 DEF Arrives, ArrivesBy
    <3>4. \A x : Mine(u, x)' <=> Mine(u, x)
      BY <1>1 DEF Mine, Unasked
    <3>5. NoClear(u)' <=> NoClear(u)
      BY <1>1 DEF NoClear
    <3> QED BY <2>2, <3>3, <3>4, <3>5 DEF Alike
  <2> QED BY <2>1, <2>2
<1>5. ASSUME NEW v \in User \ strayed' PROVE PaintingAt(D, v)'
  <2>1. (Holder(v)' => Holder(v)) /\ (v \in connected' => v \in connected)
    BY <1>1 DEF Holder, HolderBy
  <2>2. Hopeful(v)' => Hopeful(v)
    BY <1>1 DEF Hopeful, Unasked
  <2>3. PaintingAt(D, v)
    BY <1>1 DEF Doc
  <2> QED BY <1>4, <2>1, <2>2, <2>3, PaintingAlike
<1>6. ASSUME NEW v \in User PROVE ApartAt(v)'
  <2>1. ApartAt(v)
    BY DEF Doc
  <2>2. /\ Holds(up'[v], EditTypes) <=> Holds(up[v], EditTypes)
        /\ Holds(down'[v], EditTypes) <=> Holds(down[v], EditTypes)
        /\ Holds(down'[v], {"clear"}) <=> Holds(down[v], {"clear"})
    BY <1>1
  <2>3. \A w \in User : NoClear(w)' <=> NoClear(w)
    BY <1>1 DEF NoClear
  <2>4. ClearAhead(v)' => ClearAhead(v)
    <3>1. Coming(v, {"clear"})' <=> Coming(v, {"clear"})
      BY <1>1 DEF Coming
    <3>2. ClearDeferred(v)' => ClearDeferred(v)
      BY <1>1, <1>3 DEF ClearDeferred
    <3> QED BY <3>1, <3>2 DEF ClearAhead
  <2>5. ~ClearAhead(v) => items'[v] = items[v]
    BY <1>1, <1>3 DEF ClearAhead
  <2> QED BY <1>1, <2>1, <2>2, <2>3, <2>4, <2>5 DEF ApartAt
<1>7. ASSUME NEW z \in User \ strayed', NEW s \in User
      PROVE  ToRead(D, z, s)' /\ Reading(D, z, s)' /\ OnItsWay(D, z, s)'
  <2>1. ToRead(D, z, s) /\ Reading(D, z, s) /\ OnItsWay(D, z, s)
    BY <1>1 DEF Doc
  <2>2. NeedsLess(D, D, z) /\ UpFront(z, s) /\ DownFront(z, s)
    BY <1>1, <1>4, NeedsAlike, FrontSame
  <2>3. NoClear(s)' => NoClear(s)
    BY <1>1 DEF NoClear
  <2>4. ~ClearDeferred(s) => ~ClearDeferred(s)' /\ Known(s)' = Known(s)
    BY <1>1, <1>3 DEF ClearDeferred, Known
  <2>5. ToRead(D, z, s)'
    BY <1>1, <2>1, <2>2, <2>3, <2>4, ToReadFrame
  <2>6. serializing[s] # None => tasks'[s] = tasks[s]
    <3>1. serializing[s] # None => ~ClearDeferred(s)
      BY DEF Doc, ApartAt, ClearAhead
    <3> QED BY <1>1, <1>3, <3>1
  <2>7. z \in serializing[s].target => serializing[s] # None
    BY DEF None
  <2>8. Reading(D, z, s)'
    BY <1>1, <2>1, <2>2, <2>3, <2>6, <2>7, ReadingFrame
  <2> QED BY <2>1, <2>2, <2>5, <2>8, OnItsWayFrame
<1> QED BY <1>5, <1>6, <1>7 DEF Doc

(* Fewer packets, and no more of what is deferred.                          *)
LEMMA ApartLess ==
  ASSUME NEW v \in User, ApartAt(v),
         Holds(up'[v], EditTypes) => Holds(up[v], EditTypes),
         Holds(down'[v], EditTypes) => Holds(down[v], EditTypes),
         Holds(down'[v], {"clear"}) => Holds(down[v], {"clear"}),
         \A w \in User : NoClear(w) => NoClear(w)',
         ClearDeferred(v)' => ClearDeferred(v),
         serializing'[v] # None => serializing'[v] = serializing[v],
         v \in whole' => v \in whole /\ items[v] \subseteq items'[v]
  PROVE  ApartAt(v)'
<1>1. \A w \in User : Holds(up'[w], {"clear"}) => Holds(up[w], {"clear"})
  BY DEF NoClear, Clearless, Holds
<1>2. ClearAhead(v)' => ClearAhead(v)
  BY <1>1 DEF ClearAhead, Coming
<1>3. Holds(up'[v], EditTypes) =>
        ~Holds(down'[v], {"clear"}) /\ \A w \in User \ {v} : NoClear(w)'
  BY DEF ApartAt
<1>4. Holds(down'[v], EditTypes) => NoClear(v)'
  BY DEF ApartAt
<1>5. serializing'[v] # None =>
        ~ClearAhead(v)' /\ (v \in whole' => serializing'[v].items \subseteq items'[v])
  BY <1>2 DEF ApartAt
<1> QED BY <1>3, <1>4, <1>5 DEF ApartAt

LEMMA SettledIdle ==
  ASSUME NEW z \in User, NEW s \in User, Settled(z)
  PROVE  ~Pending(z, s)
  BY DEF Settled, Pending

(* A connection is lost.                                                    *)
LEMMA DocBreak ==
  ASSUME TypeOK, Conn, Synchronised, NEW D, Doc(D), NEW u \in User, Break(u)
  PROVE  Doc(D)'
<1>1. /\ down'[u] = <<>> /\ connected' = connected \ {u} /\ whole' = whole \ {u}
      /\ strayed' = IF u \in whole THEN strayed ELSE strayed \cup {u}
      /\ UNCHANGED <<serializing, items, tasks, deferred>>
      /\ \A v \in User : v # u => up'[v] = up[v] /\ down'[v] = down[v]
  BY DEF Break, TypeOK, client
<1>2. PICK n \in Nat : CutOff(up'[u], up[u], n, [type |-> "left"])
  BY CutUp
<1>3. Len(down'[u]) = 0
  BY <1>1
<1>4. ASSUME NEW v \in User, NEW i \in 1 .. Len(up'[v])
      PROVE  \/ up'[v][i].type = "left"
             \/ i \in 1 .. Len(up[v]) /\ \A j \in 1 .. i : up'[v][j] = up[v][j]
  <2>1. CASE v # u
    BY <1>1, <2>1
  <2>2. CASE v = u
    <3>1. CASE i \in 1 .. n
      <4>1. \A j \in 1 .. i : j \in 1 .. n
        BY <3>1
      <4> QED BY <1>2, <2>2, <3>1, <4>1 DEF CutOff
    <3>2. CASE i = n + 1
      BY <1>2, <2>2, <3>2 DEF CutOff
    <3> QED BY <1>2, <2>2, <3>1, <3>2 DEF CutOff
  <2> QED BY <2>1, <2>2
<1>5. ASSUME NEW v \in User, NEW i \in 1 .. Len(up'[v])
      PROVE  up'[v][i].type = "left" \/ (i \in 1 .. Len(up[v]) /\ up'[v][i] = up[v][i])
  <2>1. i \in 1 .. i
    OBVIOUS
  <2> QED BY <1>4, <2>1
<1>6. ASSUME NEW v \in User, v # u PROVE Untouched(v) /\ Alike(v)
  <2>1. Untouched(v)
    BY <1>1, <1>6 DEF Untouched
  <2> QED BY <2>1, UntouchedAlike
<1>7. ASSUME NEW v \in User PROVE NoClear(v) => NoClear(v)'
  BY <1>5 DEF NoClear, Clearless
<1>8. ASSUME NEW z \in User, NEW s \in User PROVE Pending(z, s)' => Pending(z, s)
  BY <1>1, <1>3, <1>5 DEF Pending, Bundled
<1>9. ASSUME NEW v \in User PROVE Hopeful(v)' => Hopeful(v)
  <2>1. ~Unasked(v)' => ~Unasked(v)
    BY <1>1, <1>3 DEF Unasked
  <2>2. \A i \in 1 .. Len(up'[v]) : up'[v][i].type = "syncRequest" =>
          \E j \in 1 .. Len(up[v]) : up[v][j].type = "syncRequest"
    BY <1>5
  <2>3. ASSUME NEW s \in User
        PROVE  /\ \A i \in 1 .. Len(down'[s]) : RunsFor(v, down'[s][i]) =>
                    \E j \in 1 .. Len(down[s]) : RunsFor(v, down[s][j])
               /\ \A i \in 1 .. Len(up'[s]) : Completes(v, up'[s][i]) =>
                    \E j \in 1 .. Len(up[s]) : Completes(v, up[s][j])
    BY <1>1, <1>3, <1>5 DEF Completes
  <2> QED BY <1>1, <2>1, <2>2, <2>3 DEF Hopeful
<1>10. u \in whole => Settled(u)
  <2>1. u \in whole => Holder(u)
    BY DEF Conn, Holder, HolderBy
  <2> QED BY <2>1, HolderSettled
<1>11. ASSUME NEW v \in User \ strayed' PROVE PaintingAt(D, v)'
  <2>1. v \in User \ strayed /\ (v = u => u \in whole)
    BY <1>1
  <2>2. CASE v # u
    <3>1. (Holder(v)' => Holder(v)) /\ (v \in connected' => v \in connected)
      BY <1>1, <2>1, <2>2 DEF Holder, HolderBy
    <3> QED BY <1>6, <1>9, <2>1, <2>2, <3>1, PaintingAlike DEF Doc
  <2>3. CASE v = u
    <3>1. ~Hopeful(u)'
      BY <1>9, <1>10, <2>1, <2>3, HopefulUnsettled
    <3>2. ~Holder(u)' /\ u \notin connected'
      BY <1>1, <1>3 DEF Holder, HolderBy
    <3> QED BY <2>3, <3>1, <3>2 DEF PaintingAt
  <2> QED BY <2>2, <2>3
<1>12. ASSUME NEW v \in User PROVE ApartAt(v)'
  <2>1. Holds(up'[v], EditTypes) => Holds(up[v], EditTypes)
    BY <1>5 DEF Holds, EditTypes
  <2>2. /\ Holds(down'[v], EditTypes) => Holds(down[v], EditTypes)
        /\ Holds(down'[v], {"clear"}) => Holds(down[v], {"clear"})
    BY <1>1, <1>3 DEF Holds
  <2>3. ClearDeferred(v)' => ClearDeferred(v)
    BY <1>1 DEF ClearDeferred
  <2>4. ApartAt(v)
    BY DEF Doc
  <2> QED BY <1>1, <1>7, <2>1, <2>2, <2>3, <2>4, ApartLess
<1>13. ASSUME NEW z \in User \ strayed', NEW s \in User
       PROVE  ToRead(D, z, s)' /\ Reading(D, z, s)' /\ OnItsWay(D, z, s)'
  <2>1. z \in User \ strayed /\ (z = u => u \in whole)
    BY <1>1
  <2>2. CASE z = u
    BY <1>8, <1>10, <2>1, <2>2, SettledIdle, PathIdle
  <2>3. CASE z # u
    <3>1. ToRead(D, z, s) /\ Reading(D, z, s) /\ OnItsWay(D, z, s) /\ NeedsLess(D, D, z)
      BY <1>6, <2>1, <2>3, NeedsAlike DEF Doc
    <3>2. DownFront(z, s)
      BY <1>1, <1>3 DEF DownFront
    <3>3. UpFront(z, s)
      BY <1>4 DEF UpFront, DataFor, Completes
    <3>4. Len(down'[s]) # 0 => s # u
      BY <1>3
    <3>5. s # u => /\ NoClear(s)' => NoClear(s)
                   /\ ClearDeferred(s)' <=> ClearDeferred(s)
                   /\ Known(s)' = Known(s)
      BY <1>1 DEF NoClear, ClearDeferred, Known
    <3>6. ToRead(D, z, s)'
      BY <1>1, <3>1, <3>2, <3>4, <3>5, ToReadFrame
    <3>7. Reading(D, z, s)'
      BY <1>1, <3>1, <3>5, ReadingFrame
    <3> QED BY <3>1, <3>3, <3>6, <3>7, OnItsWayFrame
  <2> QED BY <2>2, <2>3
<1> QED BY <1>11, <1>12, <1>13 DEF Doc

(* A connection is made.                                                    *)
LEMMA DocConnects ==
  ASSUME TypeOK, Conn, Synchronised, NEW D, Doc(D), NEW u \in User, Connect(u),
         whole' \subseteq whole, UNCHANGED <<serializing, deferred>>,
         \A v \in User : v # u => items'[v] = items[v] /\ tasks'[v] = tasks[v]
  PROVE  Doc(D)'
<1>1. /\ up'[u] = <<[type |-> "join"]>> /\ down'[u] = <<>> /\ connected' = connected \cup {u}
      /\ strayed' = strayed /\ u \notin connected
      /\ \A v \in User : v # u => up'[v] = up[v] /\ down'[v] = down[v]
  BY DEF Connect, TypeOK
<1>2. /\ Len(up'[u]) = 1 /\ up'[u][1].type = "join" /\ Len(down'[u]) = 0
      /\ u \notin whole'
  BY <1>1 DEF Conn
<1>3. ASSUME NEW v \in User, v # u PROVE Untouched(v) /\ Alike(v)
  <2>1. Untouched(v)
    BY <1>1, <1>3 DEF Untouched
  <2> QED BY <2>1, UntouchedAlike
<1>4. NoClear(u)'
  BY <1>2 DEF NoClear, Clearless
<1>5. ASSUME NEW v \in User PROVE NoClear(v) => NoClear(v)'
  BY <1>3, <1>4 DEF Alike
<1>6. ASSUME NEW z \in User, NEW s \in User PROVE Pending(z, s)' => Pending(z, s)
  BY <1>1, <1>2 DEF Pending, Bundled
<1>7. ASSUME NEW v \in User PROVE Hopeful(v)' => Hopeful(v)
  <2>1. ~Unasked(v)' => ~Unasked(v)
    BY <1>1, <1>2 DEF Unasked
  <2>2. \A i \in 1 .. Len(up'[v]) : up'[v][i].type = "syncRequest" =>
          \E j \in 1 .. Len(up[v]) : up[v][j].type = "syncRequest"
    BY <1>1, <1>2
  <2>3. ASSUME NEW s \in User
        PROVE  /\ \A i \in 1 .. Len(down'[s]) : RunsFor(v, down'[s][i]) =>
                    \E j \in 1 .. Len(down[s]) : RunsFor(v, down[s][j])
               /\ \A i \in 1 .. Len(up'[s]) : Completes(v, up'[s][i]) =>
                    \E j \in 1 .. Len(up[s]) : Completes(v, up[s][j])
    BY <1>1, <1>2 DEF Completes
  <2> QED BY <2>1, <2>2, <2>3 DEF Hopeful
<1>8. u \notin strayed => Settled(u)
  BY <1>1, OutsideSettled
<1>9. ASSUME NEW v \in User \ strayed' PROVE PaintingAt(D, v)'
  <2>1. CASE v # u
    <3>1. (Holder(v)' => Holder(v)) /\ (v \in connected' => v \in connected)
      BY <1>1, <2>1 DEF Holder, HolderBy
    <3> QED BY <1>1, <1>3, <1>7, <2>1, <3>1, PaintingAlike DEF Doc
  <2>2. CASE v = u
    <3>1. ~Hopeful(u)'
      BY <1>1, <1>7, <1>8, <2>2, HopefulUnsettled
    <3>2. ~Holder(u)'
      BY <1>2 DEF Holder, HolderBy
    <3>3. \A x : ~Mine(u, x)'
      BY <1>2, PacketBrings DEF Mine, Lasts
    <3> QED BY <1>4, <2>2, <3>1, <3>2, <3>3 DEF PaintingAt
  <2> QED BY <2>1, <2>2
<1>10. ASSUME NEW v \in User PROVE ApartAt(v)'
  <2>1. Holds(up'[v], EditTypes) => Holds(up[v], EditTypes)
    BY <1>1, <1>2 DEF Holds, EditTypes
  <2>2. /\ Holds(down'[v], EditTypes) => Holds(down[v], EditTypes)
        /\ Holds(down'[v], {"clear"}) => Holds(down[v], {"clear"})
    BY <1>1, <1>2 DEF Holds
  <2>3. ClearDeferred(v)' => ClearDeferred(v)
    BY <1>1 DEF ClearDeferred
  <2>4. ApartAt(v)
    BY DEF Doc
  <2>5. v \in whole' => v \in whole /\ items[v] \subseteq items'[v]
    BY <1>2
  <2> QED BY <1>5, <2>1, <2>2, <2>3, <2>4, <2>5, ApartLess
<1>11. ASSUME NEW z \in User \ strayed', NEW s \in User
       PROVE  ToRead(D, z, s)' /\ Reading(D, z, s)' /\ OnItsWay(D, z, s)'
  <2>1. CASE z = u
    BY <1>1, <1>6, <1>8, <2>1, SettledIdle, PathIdle
  <2>2. CASE z # u
    <3>1. ToRead(D, z, s) /\ Reading(D, z, s) /\ OnItsWay(D, z, s) /\ NeedsLess(D, D, z)
      BY <1>1, <1>3, <2>2, NeedsAlike DEF Doc
    <3>2. DownFront(z, s)
      BY <1>1, <1>2 DEF DownFront
    <3>3. UpFront(z, s)
      BY <1>1, <1>2 DEF UpFront, DataFor, Completes
    <3>4. Len(down'[s]) # 0 => s # u
      BY <1>2
    <3>5. s # u => /\ NoClear(s)' => NoClear(s)
                   /\ ClearDeferred(s)' <=> ClearDeferred(s)
                   /\ Known(s)' = Known(s)
      BY <1>1 DEF NoClear, ClearDeferred, Known
    <3>6. ToRead(D, z, s)'
      BY <1>1, <3>1, <3>2, <3>4, <3>5, ToReadFrame
    <3>7. Reading(D, z, s)'
      BY <1>1, <1>2, <3>1, <3>5, ReadingFrame
    <3> QED BY <3>1, <3>3, <3>6, <3>7, OnItsWayFrame
  <2> QED BY <2>1, <2>2
<1> QED BY <1>9, <1>10, <1>11 DEF Doc

-----------------------------------------------------------------------------
(* Gestures.                                                                *)
LEMMA LastsJoined ==
  ASSUME NEW a, NEW q, NEW r, Joined(a, q, r), \A i \in 1 .. Len(r) : ~Barrier(r[i])
  PROVE  \A x : Lasts(a, Len(a), x) <=>
                  Lasts(q, Len(q), x) \/ \E i \in 1 .. Len(r) : x \in Cast(r[i])
<1>1. Len(q) \in Nat /\ Len(r) \in Nat /\ Len(a) = Len(q) + Len(r)
  BY DEF Joined
<1>2. \A i \in 1 .. Len(q) : i \in 1 .. Len(a) /\ a[i] = q[i]
  BY <1>1 DEF Joined
<1>3. \A i \in 1 .. Len(r) : Len(q) + i \in 1 .. Len(a) /\ a[Len(q) + i] = r[i]
  BY <1>1 DEF Joined
<1>4. \A i \in 1 .. Len(a) : i \in 1 .. Len(q) \/ (a[i] \in {r[j] : j \in 1 .. Len(r)} /\ ~Barrier(a[i]))
  <2> TAKE i \in 1 .. Len(a)
  <2>1. ASSUME NEW j \in 1 .. Len(r), i = Len(q) + j
        PROVE  a[i] \in {r[k] : k \in 1 .. Len(r)} /\ ~Barrier(a[i])
    BY <1>3, <2>1
  <2> QED BY <2>1 DEF Joined
<1>5. \A i \in 1 .. Len(q) : \A j \in (i + 1) .. Len(q) : j \in (i + 1) .. Len(a)
  BY <1>1
<1>6. \A i \in 1 .. Len(q) : \A j \in (i + 1) .. Len(a) :
        j \in (i + 1) .. Len(q) \/ ~Barrier(a[j])
  <2> TAKE i \in 1 .. Len(q)
  <2> TAKE j \in (i + 1) .. Len(a)
  <2>1. j \in 1 .. Len(a) /\ (j \in 1 .. Len(q) => j \in (i + 1) .. Len(q))
    BY <1>1
  <2> QED BY <1>4, <2>1
<1>7. \A i \in 1 .. Len(r) : \A j \in ((Len(q) + i) + 1) .. Len(a) : ~Barrier(a[j])
  <2> TAKE i \in 1 .. Len(r)
  <2> TAKE j \in ((Len(q) + i) + 1) .. Len(a)
  <2>1. j \in 1 .. Len(a) /\ j \notin 1 .. Len(q)
    BY <1>1
  <2> QED BY <1>4, <2>1
<1>8. ASSUME NEW x, Lasts(a, Len(a), x)
      PROVE  Lasts(q, Len(q), x) \/ \E i \in 1 .. Len(r) : x \in Cast(r[i])
  <2>1. PICK i \in 1 .. Len(a) :
          x \in Cast(a[i]) /\ \A j \in (i + 1) .. Len(a) : ~Barrier(a[j])
    BY <1>8 DEF Lasts
  <2>2. CASE i \in 1 .. Len(q)
    <3>1. \A j \in (i + 1) .. Len(q) : j \in 1 .. Len(q)
      BY <2>2
    <3> QED BY <1>2, <1>5, <2>1, <2>2, <3>1 DEF Lasts
  <2>3. CASE i \notin 1 .. Len(q)
    BY <1>4, <2>1, <2>3
  <2> QED BY <2>2, <2>3
<1>9. ASSUME NEW x, Lasts(q, Len(q), x) PROVE Lasts(a, Len(a), x)
  <2>1. PICK i \in 1 .. Len(q) :
          x \in Cast(q[i]) /\ \A j \in (i + 1) .. Len(q) : ~Barrier(q[j])
    BY <1>9 DEF Lasts
  <2>2. \A j \in (i + 1) .. Len(q) : j \in 1 .. Len(q)
    OBVIOUS
  <2>3. \A j \in (i + 1) .. Len(a) : ~Barrier(a[j])
    BY <1>2, <1>6, <2>1, <2>2
  <2> QED BY <1>2, <2>1, <2>3 DEF Lasts
<1>10. ASSUME NEW x, NEW i \in 1 .. Len(r), x \in Cast(r[i]) PROVE Lasts(a, Len(a), x)
  BY <1>3, <1>7, <1>10 DEF Lasts
<1> QED BY <1>8, <1>9, <1>10

LEMMA ClearlessJoined ==
  ASSUME NEW a, NEW q, NEW r, Joined(a, q, r), \A i \in 1 .. Len(r) : r[i].type # "clear"
  PROVE  Clearless(a, Len(a)) <=> Clearless(q, Len(q))
<1>1. \A i \in 1 .. Len(q) : i \in 1 .. Len(a) /\ a[i] = q[i]
  BY DEF Joined
<1>2. \A i \in 1 .. Len(a) : i \in 1 .. Len(q) \/ a[i].type # "clear"
  BY DEF Joined
<1> QED BY <1>1, <1>2 DEF Clearless

(* A client makes C and sends it.                                           *)
EditEffect(u, C, r) ==
  /\ r \in Seq(ToServer) /\ Sent(u, r)
  /\ \A i \in 1 .. Len(r) : r[i].type \in {"create", "task"}
  /\ \A x : x \in C <=> \E i \in 1 .. Len(r) : x \in Cast(r[i])
  /\ Known(u)' = Known(u) \cup C
  /\ items[u] \subseteq items'[u] /\ Range(tasks[u]) \subseteq Range(tasks'[u])
  /\ \A v \in User : v # u => items'[v] = items[v] /\ tasks'[v] = tasks[v]
  /\ crossed' = (crossed \/ ClearAhead(u))
  /\ UNCHANGED <<enabled, syncStartedFlag, deferred, serializing, connected,
                 down, room, whole, runner, broken, strayed>>

LEMMA TaskRecorded ==
  ASSUME TypeOK, NEW u \in User, NEW t \in Task, Record(u, t)
  PROVE  /\ tasks'[u] \in Seq(Task) /\ Joined(tasks'[u], tasks[u], <<t>>)
         /\ <<t>> \in Seq(Task) /\ Range(<<t>>) = {t}
         /\ \A v \in User : v # u => tasks'[v] = tasks[v]
<1>1. tasks[u] \in Seq(Task) /\ tasks'[u] = Append(tasks[u], t)
      /\ \A v \in User : v # u => tasks'[v] = tasks[v]
  BY DEF TypeOK, Record
<1>2. Append(tasks[u], t) = tasks[u] \o <<t>> /\ <<t>> \in Seq(Task)
  BY <1>1
<1>3. tasks'[u] \in Seq(Task) /\ Joined(tasks'[u], tasks[u], <<t>>)
  BY <1>1, <1>2, InConcat
<1>4. Range(<<t>>) = {t}
  BY DEF Range
<1> QED BY <1>1, <1>2, <1>3, <1>4

LEMMA AddItemCases ==
  ASSUME TypeOK, TypeOK', NEW u \in User, AddItem(u)
  PROVE  \E C, r : EditEffect(u, C, r)
<1>1. PICK k : k = NextKey(u)
  OBVIOUS
<1>2. PICK t : t = [key |-> k, no |-> made["task"] + 1]
  OBVIOUS
<1>3. /\ items' = [items EXCEPT ![u] = @ \cup {k}] /\ Record(u, t) /\ Sent(u, AddPackets(k, t))
      /\ Count("task", MaxTask) /\ crossed' = (crossed \/ ClearAhead(u))
      /\ UNCHANGED <<enabled, syncStartedFlag, deferred, serializing, connected,
                     down, room, whole, runner, broken, strayed>>
  BY <1>1, <1>2 DEF AddItem
<1>4. /\ items'[u] = items[u] \cup {k} /\ k \in Key
      /\ \A v \in User : v # u => items'[v] = items[v]
  <2>1. items'[u] = items[u] \cup {k} /\ \A v \in User : v # u => items'[v] = items[v]
    BY <1>3 DEF TypeOK
  <2>2. items'[u] \subseteq Key
    BY DEF TypeOK
  <2> QED BY <2>1, <2>2
<1>5. t \in Task
  <2>1. made["task"] \in Nat /\ made["task"] < MaxTask /\ MaxTask \in Nat
    BY <1>3, PaintSharingAssumption DEF Count, TypeOK
  <2> QED BY <1>2, <1>4, <2>1 DEF Task
<1>6. /\ tasks'[u] \in Seq(Task) /\ Joined(tasks'[u], tasks[u], <<t>>)
      /\ <<t>> \in Seq(Task) /\ Range(<<t>>) = {t}
      /\ \A v \in User : v # u => tasks'[v] = tasks[v]
  BY <1>3, <1>5, TaskRecorded
<1>7. /\ Known(u)' = Known(u) \cup Content({k}, <<t>>)
      /\ Range(tasks[u]) \subseteq Range(tasks'[u])
  BY <1>4, <1>6, KnownGrows
<1>8. PICK p1 : p1 = [type |-> "create", key |-> k]
  OBVIOUS
<1>9. PICK p2 : p2 = [type |-> "task", task |-> t]
  OBVIOUS
<1>10. PICK r : r = <<p1, p2>>
  OBVIOUS
<1>11. /\ r \in Seq(ToServer) /\ Len(r) = 2 /\ r[1] = p1 /\ r[2] = p2 /\ r = AddPackets(k, t)
  <2>1. p1 \in ToServer /\ p2 \in ToServer
    BY <1>4, <1>5, <1>8, <1>9 DEF ToServer, Edit
  <2> QED BY <1>8, <1>9, <1>10, <2>1 DEF AddPackets
<1>12. Cast(p1) = {<<"item", k>>} /\ Cast(p2) = {<<"task", t>>}
       /\ Content({k}, <<t>>) = {<<"item", k>>, <<"task", t>>}
  <2>1. Range(<<>>) = {}
    BY DEF Range
  <2> QED BY <1>6, <1>8, <1>9, <2>1 DEF Cast, Content
<1>13. \A x : x \in Content({k}, <<t>>) <=> \E i \in 1 .. Len(r) : x \in Cast(r[i])
  <2>1. 1 .. Len(r) = {1, 2}
    BY <1>11
  <2> QED BY <1>11, <1>12, <2>1
<1>14. \A i \in 1 .. Len(r) : r[i].type \in {"create", "task"}
  <2>1. 1 .. Len(r) = {1, 2}
    BY <1>11
  <2> QED BY <1>8, <1>9, <1>11, <2>1
<1>15. EditEffect(u, Content({k}, <<t>>), r)
  BY <1>3, <1>4, <1>6, <1>7, <1>11, <1>13, <1>14 DEF EditEffect
<1> QED BY <1>15

LEMMA EditItemCases ==
  ASSUME TypeOK, NEW u \in User, NEW k \in Key, EditItem(u, k)
  PROVE  \E C, r : EditEffect(u, C, r)
<1>2. PICK t : t = [key |-> k, no |-> made["task"] + 1]
  OBVIOUS
<1>3. /\ items' = items /\ Record(u, t) /\ Sent(u, <<[type |-> "task", task |-> t]>>)
      /\ Count("task", MaxTask) /\ crossed' = (crossed \/ ClearAhead(u))
      /\ UNCHANGED <<enabled, syncStartedFlag, deferred, serializing, connected,
                     down, room, whole, runner, broken, strayed>>
  BY <1>2 DEF EditItem
<1>5. t \in Task
  <2>1. made["task"] \in Nat /\ made["task"] < MaxTask /\ MaxTask \in Nat
    BY <1>3, PaintSharingAssumption DEF Count, TypeOK
  <2> QED BY <1>2, <2>1 DEF Task
<1>6. /\ tasks'[u] \in Seq(Task) /\ Joined(tasks'[u], tasks[u], <<t>>)
      /\ <<t>> \in Seq(Task) /\ Range(<<t>>) = {t}
      /\ \A v \in User : v # u => tasks'[v] = tasks[v]
  BY <1>3, <1>5, TaskRecorded
<1>7. /\ Known(u)' = Known(u) \cup Content({}, <<t>>)
      /\ Range(tasks[u]) \subseteq Range(tasks'[u])
  <2>1. items'[u] = items[u] \cup {}
    BY <1>3
  <2> QED BY <1>6, <2>1, KnownGrows
<1>9. PICK p : p = [type |-> "task", task |-> t]
  OBVIOUS
<1>10. PICK r : r = <<p>>
  OBVIOUS
<1>11. /\ r \in Seq(ToServer) /\ Len(r) = 1 /\ r[1] = p /\ r = <<[type |-> "task", task |-> t]>>
  <2>1. p \in ToServer
    BY <1>5, <1>9 DEF ToServer, Edit
  <2> QED BY <1>9, <1>10, <2>1
<1>12. Cast(p) = Content({}, <<t>>)
  BY <1>9 DEF Cast
<1>13. \A x : x \in Content({}, <<t>>) <=> \E i \in 1 .. Len(r) : x \in Cast(r[i])
  <2>1. 1 .. Len(r) = {1}
    BY <1>11
  <2> QED BY <1>11, <1>12, <2>1
<1>14. \A i \in 1 .. Len(r) : r[i].type \in {"create", "task"}
  <2>1. 1 .. Len(r) = {1}
    BY <1>11
  <2> QED BY <1>9, <1>11, <2>1
<1>15. EditEffect(u, Content({}, <<t>>), r)
  BY <1>3, <1>6, <1>7, <1>11, <1>13, <1>14 DEF EditEffect
<1> QED BY <1>15

(* A client makes C.                                                        *)
LEMMA DocEdits ==
  ASSUME TypeOK, Conn, Synchronised, NEW D, Doc(D), NEW u \in User, NEW C, NEW r,
         EditEffect(u, C, r), ~crossed'
  PROVE  Doc(D)'
<1>1. /\ r \in Seq(ToServer) /\ Sent(u, r)
      /\ \A i \in 1 .. Len(r) : r[i].type \in {"create", "task"}
      /\ \A x : x \in C <=> \E i \in 1 .. Len(r) : x \in Cast(r[i])
      /\ Known(u)' = Known(u) \cup C
      /\ items[u] \subseteq items'[u] /\ Range(tasks[u]) \subseteq Range(tasks'[u])
      /\ \A v \in User : v # u => items'[v] = items[v] /\ tasks'[v] = tasks[v]
      /\ UNCHANGED <<deferred, serializing, connected, down, whole, strayed>>
      /\ ~ClearAhead(u)
  BY DEF EditEffect
<1>2. /\ ~ClearDeferred(u) /\ ~Holds(down[u], {"clear"})
      /\ \A v \in User \ {u} : NoClear(v)
  BY <1>1 DEF ClearAhead, Coming, Holds, NoClear, Clearless
<1>3. Open(down[u], Len(down[u])) <=> Unasked(u)
  BY <1>2 DEF Open, Wipes, Unasked, Holds
<1>4. \A x : Arrives(u, x)' <=> Arrives(u, x) \/ (Unasked(u) /\ x \in C)
  <2> TAKE x
  <2>1. x \in Known(u)' <=> x \in Known(u) \/ x \in C
    BY <1>1
  <2>2. ClearDeferred(u)' <=> ClearDeferred(u)
    BY <1>1 DEF ClearDeferred
  <2> QED BY <1>1, <1>2, <1>3, <2>1, <2>2 DEF Arrives, ArrivesBy
<1>5. /\ u \in connected => Joined(up'[u], up[u], r)
      /\ u \notin connected => up'[u] = up[u]
      /\ \A v \in User : v # u => up'[v] = up[v]
  <2>1. CASE u \in connected
    <3>1. up'[u] = up[u] \o r /\ \A v \in User : v # u => up'[v] = up[v]
      BY <1>1, <2>1 DEF Sent, TypeOK
    <3>2. Joined(up'[u], up[u], r)
      BY <1>1, <3>1, Lens, InConcat
    <3> QED BY <2>1, <3>1, <3>2
  <2> QED BY <1>1, <2>1 DEF Sent
<1>6. u \in connected => \A x : Mine(u, x)' <=> Mine(u, x) \/ (Unasked(u) /\ x \in C)
  <2> SUFFICES ASSUME u \in connected, NEW x
               PROVE  Mine(u, x)' <=> Mine(u, x) \/ (Unasked(u) /\ x \in C)
    OBVIOUS
  <2>1. \A i \in 1 .. Len(r) : ~Barrier(r[i])
    BY <1>1 DEF Barrier
  <2>2. Lasts(up'[u], Len(up'[u]), x) <=> Lasts(up[u], Len(up[u]), x) \/ x \in C
    BY <1>1, <1>5, <2>1, LastsJoined
  <2>3. Unasked(u)' <=> Unasked(u)
    BY <1>1 DEF Unasked
  <2> QED BY <2>2, <2>3 DEF Mine
<1>7. ASSUME NEW v \in User PROVE NoClear(v)' <=> NoClear(v)
  <2>1. CASE v = u /\ u \in connected
    BY <1>1, <1>5, <2>1, ClearlessJoined DEF NoClear
  <2> QED BY <1>5, <2>1 DEF NoClear
<1>8. ASSUME NEW v \in User, v # u PROVE Untouched(v) /\ Alike(v)
  <2>1. Untouched(v)
    BY <1>1, <1>5, <1>8 DEF Untouched
  <2> QED BY <2>1, UntouchedAlike
<1>9. ASSUME NEW v \in User, NEW i \in 1 .. Len(up'[v])
      PROVE  \/ i \in 1 .. Len(up[v]) /\ up'[v][i] = up[v][i]
             \/ up'[v][i].type \in {"create", "task"} /\ v = u
  <2>1. CASE v = u /\ u \in connected
    BY <1>1, <1>5, <1>9, <2>1 DEF Joined
  <2> QED BY <1>5, <1>9, <2>1
<1>10. ASSUME NEW v \in User PROVE (Hopeful(v)' => Hopeful(v)) /\ (Holder(v)' => Holder(v))
  <2>1. Holder(v)' => Holder(v)
    BY <1>1 DEF Holder, HolderBy
  <2>2. \A i \in 1 .. Len(up'[v]) : up'[v][i].type = "syncRequest" =>
          \E j \in 1 .. Len(up[v]) : up[v][j].type = "syncRequest"
    BY <1>9
  <2>3. ASSUME NEW s \in User
        PROVE  \A i \in 1 .. Len(up'[s]) : Completes(v, up'[s][i]) =>
                  \E j \in 1 .. Len(up[s]) : Completes(v, up[s][j])
    BY <1>9 DEF Completes
  <2>4. ~Unasked(v)' => ~Unasked(v)
    BY <1>1 DEF Unasked
  <2> QED BY <1>1, <2>1, <2>2, <2>3, <2>4 DEF Hopeful
<1>11. ASSUME NEW v \in User \ strayed' PROVE PaintingAt(D, v)'
  <2>0. PaintingAt(D, v) /\ v \in User \ strayed
    BY <1>1 DEF Doc
  <2>1. CASE v # u
    BY <1>1, <1>8, <1>10, <2>0, <2>1, PaintingAlike
  <2>2. CASE v = u /\ u \in connected
    BY <1>1, <1>4, <1>6, <1>7, <1>10, <2>0, <2>2 DEF PaintingAt
  <2>3. CASE v = u /\ u \notin connected
    <3>1. Settled(u) /\ ~Holder(u)
      BY <2>0, <2>3, OutsideSettled
    <3>2. ~Hopeful(u)' /\ ~Holder(u)'
      BY <1>10, <3>1, HopefulUnsettled
    <3> QED BY <1>1, <2>3, <3>2 DEF PaintingAt
  <2> QED BY <2>1, <2>2, <2>3
<1>12. ASSUME NEW v \in User PROVE ApartAt(v)'
  <2>0. ApartAt(v)
    BY DEF Doc
  <2>1. CASE v # u
    BY <1>1, <1>5, <1>7, <2>0, <2>1, ApartLess DEF ClearDeferred
  <2>2. CASE v = u
    <3>1. Holds(up'[u], EditTypes) =>
            ~Holds(down'[u], {"clear"}) /\ \A w \in User \ {u} : NoClear(w)'
      BY <1>1, <1>2, <1>7
    <3>2. Holds(down'[u], EditTypes) => NoClear(u)'
      BY <1>1, <1>7, <2>0, <2>2 DEF ApartAt
    <3>3. ~ClearAhead(u)'
      BY <1>1, <1>5 DEF ClearAhead, Coming, ClearDeferred
    <3>4. serializing'[u] # None => (u \in whole' => serializing'[u].items \subseteq items'[u])
      BY <1>1, <2>0, <2>2 DEF ApartAt
    <3> QED BY <2>2, <3>1, <3>2, <3>3, <3>4 DEF ApartAt
  <2> QED BY <2>1, <2>2
<1>13. ASSUME NEW z \in User \ strayed', NEW s \in User
       PROVE  ToRead(D, z, s)' /\ Reading(D, z, s)' /\ OnItsWay(D, z, s)'
  <2>0. ToRead(D, z, s) /\ Reading(D, z, s) /\ OnItsWay(D, z, s)
    BY <1>1 DEF Doc
  <2>1. NeedsLess(D, D, z)
    BY <1>4, <1>7, <1>8, NeedsAlike DEF NeedsLess, Needs
  <2>2. DownFront(z, s)
    BY <1>1, FrontSame
  <2>3. UpFront(z, s)
    <3>1. CASE s = u /\ u \in connected
      BY <1>1, <1>5, <3>1, FrontJoined DEF DataFor, Completes
    <3> QED BY <1>5, <3>1, FrontSame
  <2>4. (ClearDeferred(s)' <=> ClearDeferred(s)) /\ Known(s) \subseteq Known(s)'
    BY <1>1 DEF ClearDeferred, Known
  <2>5. ToRead(D, z, s)'
    BY <1>1, <1>7, <2>0, <2>1, <2>2, <2>4, ToReadFrame
  <2>6. Content(serializing[s].items, tasks[s]) \subseteq Content(serializing'[s].items, tasks'[s])
    BY <1>1 DEF Content
  <2>7. Reading(D, z, s)'
    BY <1>1, <1>7, <2>0, <2>1, <2>6, ReadingFrame
  <2> QED BY <2>0, <2>1, <2>3, <2>5, <2>7, OnItsWayFrame
<1> QED BY <1>11, <1>12, <1>13 DEF Doc

(* A client clears its screen.                                              *)
LEMMA DocClear ==
  ASSUME TypeOK, Conn, Synchronised, NEW D, Doc(D), NEW u \in User, ClearScreen(u), ~crossed'
  PROVE  Doc(D)'
<1> PICK p : p = [type |-> "clear"]
  OBVIOUS
<1>1. /\ items'[u] = {} /\ tasks'[u] = <<>> /\ Sent(u, <<p>>)
      /\ \A v \in User : v # u => items'[v] = items[v] /\ tasks'[v] = tasks[v]
      /\ UNCHANGED <<deferred, serializing, connected, down, whole, strayed>>
      /\ ~Coming(u, EditTypes) /\ ~Serializing
  BY DEF ClearScreen, TypeOK
<1>2. /\ ~Holds(down[u], EditTypes) /\ \A v \in User \ {u} : ~Holds(up[v], EditTypes)
      /\ \A v \in User : serializing[v] = None
  BY <1>1 DEF Coming, Serializing
<1>3. p \in ToServer /\ p.type = "clear"
  BY DEF ToServer, Clearing
<1>4. /\ u \in connected => Appended(up'[u], up[u], p)
      /\ u \notin connected => up'[u] = up[u]
      /\ \A v \in User : v # u => up'[v] = up[v]
  <2>1. CASE u \in connected
    <3>1. up'[u] = up[u] \o <<p>> /\ \A v \in User : v # u => up'[v] = up[v]
      BY <1>1, <2>1 DEF Sent, TypeOK
    <3>2. up[u] \o <<p>> = Append(up[u], p)
      BY <1>3, Lens
    <3>3. Appended(up'[u], up[u], p)
      BY <1>3, <3>1, <3>2, Lens, InAppend
    <3> QED BY <2>1, <3>1, <3>3
  <2> QED BY <1>1, <2>1 DEF Sent
<1>5. \A x : ~Arrives(u, x)'
  <2> TAKE x
  <2>1. x \notin Known(u)'
    BY <1>1, ContentNone DEF Known
  <2>2. \A i \in 1 .. Len(down[u]) : x \notin Carried(down[u][i])
    BY <1>2, PacketBrings DEF Holds, EditTypes
  <2> QED BY <1>1, <2>1, <2>2 DEF Arrives, ArrivesBy, Reaches
<1>6. u \in connected => ~NoClear(u)' /\ \A x : ~Mine(u, x)'
  <2> SUFFICES ASSUME u \in connected PROVE ~NoClear(u)' /\ \A x : ~Mine(u, x)'
    OBVIOUS
  <2>1. PICK n \in Nat : n = Len(up[u])
    BY Lens
  <2>2. Len(up'[u]) = n + 1 /\ up'[u][n + 1] = p
    BY <1>4, <2>1 DEF Appended
  <2>3. Grown(up'[u], n)
    BY OneMore
  <2>4. Cast(p) = {} /\ Barrier(p)
    BY <1>3, PacketBrings DEF Barrier
  <2>5. ~NoClear(u)'
    BY <1>3, <2>2, <2>3 DEF Grown, NoClear
  <2>6. \A x : ~Lasts(up'[u], n + 1, x)
    BY <2>2, <2>3, <2>4 DEF Grown
  <2> QED BY <2>2, <2>5, <2>6 DEF Mine
<1>7. ASSUME NEW v \in User, v # u PROVE Untouched(v) /\ Alike(v) /\ (NoClear(v)' <=> NoClear(v))
  <2>1. Untouched(v)
    BY <1>1, <1>4, <1>7 DEF Untouched
  <2>2. Alike(v)
    BY <2>1, UntouchedAlike
  <2> QED BY <2>1, <2>2 DEF Alike
<1>8. ASSUME NEW v \in User, NEW i \in 1 .. Len(up'[v])
      PROVE  \/ i \in 1 .. Len(up[v]) /\ up'[v][i] = up[v][i]
             \/ up'[v][i].type = "clear" /\ v = u
  <2>1. CASE v = u /\ u \in connected
    BY <1>3, <1>4, <1>8, <2>1 DEF Appended
  <2> QED BY <1>4, <1>8, <2>1
<1>9. ASSUME NEW v \in User PROVE (Hopeful(v)' => Hopeful(v)) /\ (Holder(v)' => Holder(v))
  <2>1. Holder(v)' => Holder(v)
    BY <1>1 DEF Holder, HolderBy
  <2>2. \A i \in 1 .. Len(up'[v]) : up'[v][i].type = "syncRequest" =>
          \E j \in 1 .. Len(up[v]) : up[v][j].type = "syncRequest"
    BY <1>8
  <2>3. ASSUME NEW s \in User
        PROVE  \A i \in 1 .. Len(up'[s]) : Completes(v, up'[s][i]) =>
                  \E j \in 1 .. Len(up[s]) : Completes(v, up[s][j])
    BY <1>8 DEF Completes
  <2>4. ~Unasked(v)' => ~Unasked(v)
    BY <1>1 DEF Unasked
  <2> QED BY <1>1, <2>1, <2>2, <2>3, <2>4 DEF Hopeful
<1>10. ASSUME NEW v \in User \ strayed' PROVE PaintingAt(D, v)'
  <2>0. PaintingAt(D, v) /\ v \in User \ strayed
    BY <1>1 DEF Doc
  <2>1. CASE v # u
    BY <1>1, <1>7, <1>9, <2>0, <2>1, PaintingAlike
  <2>2. CASE v = u /\ u \in connected
    BY <1>5, <1>6, <2>2 DEF PaintingAt
  <2>3. CASE v = u /\ u \notin connected
    <3>1. Settled(u) /\ ~Holder(u)
      BY <2>0, <2>3, OutsideSettled
    <3>2. ~Hopeful(u)' /\ ~Holder(u)'
      BY <1>9, <3>1, HopefulUnsettled
    <3> QED BY <1>1, <2>3, <3>2 DEF PaintingAt
  <2> QED BY <2>1, <2>2, <2>3
<1>11. ASSUME NEW v \in User PROVE ApartAt(v)'
  <2>0. ApartAt(v) /\ serializing'[v] = None
    BY <1>1, <1>2 DEF Doc
  <2>1. CASE v # u
    BY <1>1, <1>2, <1>4, <1>7, <2>0, <2>1 DEF ApartAt
  <2>2. CASE v = u
    <3>1. Holds(up'[u], EditTypes) => Holds(up[u], EditTypes)
      BY <1>8 DEF Holds, EditTypes
    <3>2. ~Holds(down'[u], EditTypes)
      BY <1>1, <1>2
    <3> QED BY <1>1, <1>7, <2>0, <2>2, <3>1, <3>2 DEF ApartAt
  <2> QED BY <2>1, <2>2
<1>12. ASSUME NEW z \in User \ strayed', NEW s \in User
       PROVE  ToRead(D, z, s)' /\ Reading(D, z, s)' /\ OnItsWay(D, z, s)'
  <2>0. ToRead(D, z, s) /\ Reading(D, z, s) /\ OnItsWay(D, z, s) /\ z \in User \ strayed
    BY <1>1 DEF Doc
  <2>1. CASE z = u /\ u \notin connected
    <3>1. Settled(u)
      BY <2>0, <2>1, OutsideSettled
    <3>2. Pending(u, s)' => Pending(u, s)
      BY <1>1, <1>8 DEF Pending, Bundled
    <3> QED BY <2>1, <3>1, <3>2, SettledIdle, PathIdle
  <2>2. CASE ~(z = u /\ u \notin connected)
    <3>1. NeedsLess(D, D, z)
      BY <1>6, <1>7, <2>2, NeedsAlike DEF NeedsLess, Needs
    <3>2. DownFront(z, s)
      BY <1>1, FrontSame
    <3>3. UpFront(z, s)
      <4>1. CASE s = u /\ u \in connected
        BY <1>3, <1>4, <4>1, FrontAppended DEF DataFor, Completes
      <4> QED BY <1>4, <4>1, FrontSame
    <3>4. Len(down'[s]) # 0 /\ NoClear(s)' => s # u
      <4>1. Len(down[u]) # 0 => u \in connected
        BY DEF Conn, Line
      <4> QED BY <1>1, <1>6, <4>1
    <3>5. s # u => /\ NoClear(s)' => NoClear(s)
                   /\ ClearDeferred(s)' <=> ClearDeferred(s)
                   /\ Known(s)' = Known(s)
      BY <1>1, <1>7 DEF ClearDeferred, Known
    <3>6. ToRead(D, z, s)'
      BY <1>1, <2>0, <3>1, <3>2, <3>4, <3>5, ToReadFrame
    <3>7. Reading(D, z, s)'
      BY <1>1, <1>2 DEF Reading, None
    <3> QED BY <2>0, <3>1, <3>3, <3>6, <3>7, OnItsWayFrame
  <2> QED BY <2>1, <2>2
<1> QED BY <1>10, <1>11, <1>12 DEF Doc

(* The package is sent.                                                     *)
LEMMA DocSendPackage ==
  ASSUME TypeOK, Conn, Synchronised, NEW D, Doc(D), NEW u \in User, NEW t, NEW r,
         PackageEffect(u, t, r), ~crossed'
  PROVE  Doc(D)'
<1>1. /\ t \in User /\ serializing[u] # None /\ serializing[u].target = {t}
      /\ r \in Seq(ToServer) /\ Packed(r, u, t, serializing[u].items, tasks[u]) /\ Sent(u, r)
      /\ serializing'[u] = None /\ \A v \in User : v # u => serializing'[v] = serializing[v]
      /\ ~ClearAhead(u)
      /\ UNCHANGED <<items, tasks, deferred, connected, down, room, whole, strayed>>
  BY DEF PackageEffect
<1>2. /\ ~ClearDeferred(u) /\ ~Holds(down[u], {"clear"})
      /\ \A v \in User \ {u} : NoClear(v)
  BY <1>1 DEF ClearAhead, Coming, Holds, NoClear, Clearless
<1>3. \A i \in 1 .. Len(r) : i \in {1, 2, 3} /\ Bundled(r[i]) /\ r[i].target = t
  BY <1>1 DEF Packed
<1>4. \A i \in 1 .. Len(r) : Cast(r[i]) = {} /\ ~Barrier(r[i]) /\ r[i].type # "clear"
  BY <1>3 DEF Bundled, Cast, Barrier
<1>5. /\ u \in connected => Joined(up'[u], up[u], r)
      /\ u \notin connected => up'[u] = up[u]
      /\ \A v \in User : v # u => up'[v] = up[v]
  <2>1. CASE u \in connected
    <3>1. up'[u] = up[u] \o r /\ \A v \in User : v # u => up'[v] = up[v]
      BY <1>1, <2>1 DEF Sent, TypeOK
    <3>2. Joined(up'[u], up[u], r)
      BY <1>1, <3>1, Lens, InConcat
    <3> QED BY <2>1, <3>1, <3>2
  <2> QED BY <1>1, <2>1 DEF Sent
<1>6. ASSUME NEW v \in User PROVE Alike(v) /\ (NoClear(v)' <=> NoClear(v))
  <2>1. NoClear(v)' <=> NoClear(v)
    <3>1. CASE v = u /\ u \in connected
      BY <1>4, <1>5, <3>1, ClearlessJoined DEF NoClear
    <3> QED BY <1>5, <3>1 DEF NoClear
  <2>2. \A x : Arrives(v, x)' <=> Arrives(v, x)
    BY <1>1 DEF Arrives, ArrivesBy, Known, ClearDeferred
  <2>3. \A x : Mine(v, x)' <=> Mine(v, x)
    <3> TAKE x
    <3>1. Unasked(v)' <=> Unasked(v)
      BY <1>1 DEF Unasked
    <3>2. Lasts(up'[v], Len(up'[v]), x) <=> Lasts(up[v], Len(up[v]), x)
      <4>1. CASE v = u /\ u \in connected
        <5>1. Lasts(up'[u], Len(up'[u]), x) <=>
                Lasts(up[u], Len(up[u]), x) \/ \E i \in 1 .. Len(r) : x \in Cast(r[i])
          BY <1>4, <1>5, <4>1, LastsJoined
        <5> QED BY <1>4, <4>1, <5>1
      <4> QED BY <1>5, <4>1
    <3> QED BY <3>1, <3>2 DEF Mine
  <2> QED BY <2>1, <2>2, <2>3 DEF Alike
<1>7. ASSUME NEW v \in User, NEW i \in 1 .. Len(up'[v])
      PROVE  \/ i \in 1 .. Len(up[v]) /\ up'[v][i] = up[v][i]
             \/ v = u /\ u \in connected /\ Bundled(up'[v][i]) /\ up'[v][i].target = t
  <2>1. CASE v = u /\ u \in connected
    <3>1. CASE i \in 1 .. Len(up[u])
      BY <1>5, <2>1, <3>1 DEF Joined
    <3>2. ASSUME NEW j \in 1 .. Len(r), i = Len(up[u]) + j
          PROVE  Bundled(up'[u][i]) /\ up'[u][i].target = t
      <4>1. up'[u][i] = r[j]
        BY <1>5, <2>1, <3>2 DEF Joined
      <4> QED BY <1>3, <4>1
    <3> QED BY <1>5, <2>1, <3>1, <3>2 DEF Joined
  <2> QED BY <1>5, <1>7, <2>1
<1>8. ASSUME NEW v \in User PROVE (Hopeful(v)' => Hopeful(v)) /\ (Holder(v)' => Holder(v))
  <2>1. Holder(v)' => Holder(v)
    BY <1>1 DEF Holder, HolderBy
  <2>2. \A i \in 1 .. Len(up'[v]) : up'[v][i].type = "syncRequest" =>
          \E j \in 1 .. Len(up[v]) : up[v][j].type = "syncRequest"
    BY <1>7 DEF Bundled
  <2>3. ASSUME NEW s \in User
        PROVE  \A i \in 1 .. Len(up'[s]) : Completes(v, up'[s][i]) =>
                  v \in serializing[s].target \/ \E j \in 1 .. Len(up[s]) : Completes(v, up[s][j])
    BY <1>1, <1>7 DEF Completes
  <2>4. ~Unasked(v)' => ~Unasked(v)
    BY <1>1 DEF Unasked
  <2>5. ASSUME NEW s \in User PROVE v \in serializing'[s].target => v \in serializing[s].target
    BY <1>1 DEF None
  <2> QED BY <1>1, <2>1, <2>2, <2>3, <2>4, <2>5 DEF Hopeful
<1>9. ASSUME NEW v \in User \ strayed' PROVE PaintingAt(D, v)'
  <2>1. PaintingAt(D, v)
    BY <1>1 DEF Doc
  <2> QED BY <1>1, <1>6, <1>8, <2>1, PaintingAlike
<1>10. ASSUME NEW v \in User PROVE ApartAt(v)'
  <2>0. ApartAt(v)
    BY DEF Doc
  <2>1. CASE v # u
    BY <1>1, <1>5, <1>6, <2>0, <2>1, ApartLess DEF ClearDeferred
  <2>2. CASE v = u
    <3>1. Holds(up'[u], EditTypes) =>
            ~Holds(down'[u], {"clear"}) /\ \A w \in User \ {u} : NoClear(w)'
      BY <1>1, <1>2, <1>6
    <3>2. Holds(down'[u], EditTypes) => NoClear(u)'
      BY <1>1, <1>6, <2>0, <2>2 DEF ApartAt
    <3> QED BY <1>1, <2>2, <3>1, <3>2 DEF ApartAt
  <2> QED BY <2>1, <2>2
<1>11. ASSUME t \notin strayed, u \in connected
       PROVE  OnItsWay(D, t, u)'
  <2>1. PICK L \in Nat : L = Len(up[u])
    BY Lens
  <2>2. /\ up'[u][L + 1].type = "start"
        /\ up'[u][L + 2] = [type |-> "data", target |-> t,
                            items |-> serializing[u].items, tasks |-> tasks[u]]
        /\ up'[u][L + 3] = [type |-> "complete", target |-> t, whole |-> u \in whole]
        /\ L + 1 \in 1 .. Len(up'[u]) /\ L + 2 \in 1 .. Len(up'[u]) /\ L + 3 \in 1 .. Len(up'[u])
    <3>1. 1 \in 1 .. 3 /\ 2 \in 1 .. 3 /\ 3 \in 1 .. 3
      OBVIOUS
    <3>2. /\ Len(r) = 3 /\ r[1].type = "start" /\ r[3].type = "complete"
          /\ r[2] = [type |-> "data", target |-> t,
                     items |-> serializing[u].items, tasks |-> tasks[u]]
          /\ r[3] = [type |-> "complete", target |-> t, whole |-> u \in whole]
      BY <1>1 DEF Packed
    <3>3. Len(up'[u]) = L + 3 /\ \A i \in 1 .. 3 : up'[u][L + i] = r[i]
      BY <1>5, <1>11, <2>1, <3>2 DEF Joined
    <3>4. up'[u][L + 1] = r[1] /\ up'[u][L + 2] = r[2] /\ up'[u][L + 3] = r[3]
      BY <3>1, <3>3
    <3>5. L + 1 \in 1 .. (L + 3) /\ L + 2 \in 1 .. (L + 3) /\ L + 3 \in 1 .. (L + 3)
      OBVIOUS
    <3> QED BY <3>2, <3>3, <3>4, <3>5
  <2>3. \A i \in 1 .. Len(up'[u]) : i \in 1 .. L \/ i = L + 1 \/ i = L + 2 \/ i = L + 3
    <3>1. Len(up'[u]) = L + 3
      BY <1>1, <1>5, <1>11, <2>1 DEF Packed, Joined
    <3> QED BY <3>1
  <2>4. \A i \in 1 .. L : up'[u][i] = up[u][i] /\ ~(Bundled(up[u][i]) /\ up[u][i].target = t)
    <3>1. PICK a \in Stage, s \in User : Steps(t, a, s)
      BY <1>1, <1>11 DEF Synchronised
    <3>2. a = "write"
      BY <1>1, <3>1 DEF Steps
    <3>3. \A i \in 1 .. Len(up[u]) : ~UpMatters(t, u, up[u][i])
      BY <1>1, <3>1, <3>2, OnlyWritten
    <3> QED BY <1>5, <1>11, <2>1, <3>3 DEF UpMatters, Joined
  <2>5. ASSUME NEW i \in 1 .. Len(up'[u]), Completes(t, up'[u][i])
        PROVE  i = L + 3 /\ u \in whole
    <3>1. i \notin 1 .. L
      BY <2>4, <2>5 DEF Completes, Bundled
    <3>2. i # L + 1 /\ i # L + 2
      BY <2>2, <2>5 DEF Completes
    <3>3. i = L + 3
      BY <2>3, <2>5, <3>1, <3>2
    <3>4. up'[u][L + 3].whole
      BY <2>5, <3>3 DEF Completes
    <3>5. up'[u][L + 3].whole = (u \in whole)
      BY <2>2
    <3> QED BY <3>3, <3>4, <3>5
  <2>6. ASSUME NEW j \in 1 .. Len(up'[u]), DataFor(t, up'[u][j])
        PROVE  j = L + 2
    <3>1. j \notin 1 .. L
      BY <2>4, <2>6 DEF DataFor, Bundled
    <3>2. j # L + 1 /\ j # L + 3
      BY <2>2, <2>6 DEF DataFor
    <3> QED BY <2>3, <2>6, <3>1, <3>2
  <2>7. /\ DataFor(t, up'[u][L + 2])
        /\ Carried(up'[u][L + 2]) = Content(serializing[u].items, tasks[u])
    BY <2>2 DEF DataFor, Carried
  <2>8. SameTo(up'[u], up[u], L) /\ Grown(up'[u], L) /\ Grown(up'[u], L + 1)
    BY <2>4, SameFront, OneMore
  <2>9. ~Barrier(up'[u][L + 1]) /\ up'[u][L + 1].type # "clear"
    BY <2>2 DEF Barrier
  <2>10. ASSUME u \in whole, Clearless(up'[u], L + 2), NEW x, Needs(D, t, x)'
         PROVE  x \in Carried(up'[u][L + 2])
    <3>1. L + 2 = (L + 1) + 1
      BY <2>1
    <3>2. NoClear(u)
      BY <2>1, <2>8, <2>10, <3>1 DEF NoClear, SameTo, Grown
    <3>3. Needs(D, t, x)
      BY <1>1, <1>6, <2>10, NeedsAlike DEF NeedsLess
    <3>4. Reading(D, t, u)
      BY <1>1, <1>11 DEF Doc
    <3> QED BY <1>1, <2>7, <2>10, <3>2, <3>3, <3>4 DEF Reading
  <2>11. ASSUME u \in whole, NEW x \in Content(serializing[u].items, tasks[u])
         PROVE  (x \in D /\ Clearless(up'[u], L + 1)) \/ Lasts(up'[u], L + 1, x)
    <3>1. serializing[u].items \subseteq items[u]
      BY <1>1, <2>11 DEF Doc, ApartAt
    <3>2. x \in Known(u)
      BY <2>11, <3>1 DEF Known, Content
    <3>3. u \notin strayed /\ Holder(u)
      BY <2>11 DEF Conn, Holder, HolderBy
    <3>4. Unasked(u)
      BY <3>3, HolderSettled DEF Settled
    <3>5. Open(down[u], Len(down[u]))
      BY <1>2, <3>4 DEF Open, Wipes, Unasked, Holds
    <3>6. Arrives(u, x)
      BY <1>2, <3>2, <3>5 DEF Arrives, ArrivesBy
    <3>7. PaintingAt(D, u)
      BY <3>3 DEF Doc
    <3>8. Mine(u, x) \/ (x \in D /\ NoClear(u))
      BY <3>3, <3>6, <3>7 DEF PaintingAt
    <3>9. CASE Mine(u, x)
      <4>1. Lasts(up'[u], L, x)
        BY <2>1, <2>8, <3>9 DEF SameTo, Mine
      <4> QED BY <2>8, <2>9, <4>1 DEF Grown
    <3>10. CASE x \in D /\ NoClear(u)
      <4>1. Clearless(up'[u], L)
        BY <2>1, <2>8, <3>10 DEF SameTo, NoClear
      <4> QED BY <2>8, <2>9, <3>10, <4>1 DEF Grown
    <3> QED BY <3>8, <3>9, <3>10
  <2>12. ASSUME NEW i \in 1 .. Len(up'[u]), Completes(t, up'[u][i]), Clearless(up'[u], i - 1),
                NEW x, Needs(D, t, x)'
         PROVE  \E j \in 1 .. (i - 1) : DataFor(t, up'[u][j]) /\ x \in Carried(up'[u][j])
    <3>1. i - 1 = L + 2 /\ L + 2 \in 1 .. (i - 1) /\ u \in whole
      BY <2>5, <2>12
    <3> QED BY <2>7, <2>10, <2>12, <3>1
  <2>13. ASSUME NEW i \in 1 .. Len(up'[u]), Completes(t, up'[u][i]),
                NEW j \in 1 .. Len(up'[u]), DataFor(t, up'[u][j]), NEW x \in Carried(up'[u][j])
         PROVE  (x \in D /\ Clearless(up'[u], j - 1)) \/ Lasts(up'[u], j - 1, x)
    <3>1. j = L + 2 /\ j - 1 = L + 1 /\ u \in whole
      BY <2>5, <2>6, <2>13
    <3> QED BY <2>7, <2>11, <2>13, <3>1
  <2> QED BY <2>12, <2>13 DEF OnItsWay
<1>12. ASSUME NEW z \in User \ strayed', NEW s \in User
       PROVE  ToRead(D, z, s)' /\ Reading(D, z, s)' /\ OnItsWay(D, z, s)'
  <2>0. ToRead(D, z, s) /\ Reading(D, z, s) /\ OnItsWay(D, z, s) /\ z \notin strayed
    BY <1>1 DEF Doc
  <2>1. NeedsLess(D, D, z)
    BY <1>6, NeedsAlike
  <2>2. DownFront(z, s)
    BY <1>1, FrontSame
  <2>3. (ClearDeferred(s)' <=> ClearDeferred(s)) /\ Known(s)' = Known(s)
    BY <1>1 DEF ClearDeferred, Known
  <2>4. ToRead(D, z, s)'
    BY <1>1, <1>6, <2>0, <2>1, <2>2, <2>3, ToReadFrame
  <2>5. z \in serializing'[s].target => serializing'[s] = serializing[s]
    BY <1>1 DEF None
  <2>6. Reading(D, z, s)'
    BY <1>1, <1>6, <2>0, <2>1, <2>5, ReadingFrame
  <2>7. OnItsWay(D, z, s)'
    <3>1. CASE s # u \/ u \notin connected
      BY <1>5, <2>0, <2>1, <3>1, FrontSame, OnItsWayFrame
    <3>2. CASE s = u /\ u \in connected /\ z # t
      <4>1. UpFront(z, u)
        BY <1>3, <1>5, <3>2, FrontJoined DEF DataFor, Completes
      <4> QED BY <2>0, <2>1, <3>2, <4>1, OnItsWayFrame
    <3>3. CASE s = u /\ u \in connected /\ z = t
      BY <1>11, <2>0, <3>3
    <3> QED BY <3>1, <3>2, <3>3
  <2> QED BY <2>4, <2>6, <2>7
<1> QED BY <1>9, <1>10, <1>12 DEF Doc

-----------------------------------------------------------------------------
(* A client receives a packet.                                              *)

LEMMA ReceivedPacket ==
  ASSUME NEW u, NEW p, ReceiveEffect(u, p)
  PROVE  /\ p.type = "runSync" => p.target \in User
         /\ p.type = "create" => p.key \in Key
         /\ p.type = "task" => p.task \in Task
         /\ p.type = "data" => p.items \subseteq Key /\ p.tasks \in Seq(Task)
<1>1. p \in FromServer
  BY DEF ReceiveEffect
<1>2. p \in DownOver(Key)
  BY <1>1 DEF DownOver, EditOver, SyncOver, FromServer, Edit, SyncPacket
<1> QED BY <1>2, DownPacket

(* Learning something, or deferring a call.                                 *)
LEMMA Learns ==
  ASSUME TypeOK, NEW u \in User, NEW jts \in SUBSET Key, NEW rs \in Seq(Task),
         HandleEdits(u, jts, rs), ~crossed'
  PROVE  /\ Known(u)' = Known(u) \cup Content(jts, rs)
         /\ ~ClearDeferred(u) /\ ~ClearDeferred(u)'
<1>1. items'[u] = items[u] \cup jts /\ tasks'[u] = tasks[u] \o rs /\ deferred' = deferred
      /\ ~ClearDeferred(u)
  BY DEF HandleEdits, TypeOK
<1>2. tasks[u] \in Seq(Task)
  BY DEF TypeOK
<1>3. tasks'[u] \in Seq(Task) /\ Joined(tasks'[u], tasks[u], rs)
  BY <1>1, <1>2, InConcat
<1>4. Known(u)' = Known(u) \cup Content(jts, rs)
  BY <1>1, <1>3, KnownGrows
<1> QED BY <1>1, <1>4 DEF ClearDeferred

LEMMA Defers ==
  ASSUME TypeOK, NEW u \in User, NEW c \in {"clear", "start", "complete"}, Defer(u, c)
  PROVE  ClearDeferred(u)' <=> ClearDeferred(u) \/ c = "clear"
<1>1. /\ deferred[u] \in Seq({"clear", "start", "complete"})
      /\ deferred'[u] = Append(deferred[u], c)
  BY DEF TypeOK, Defer
<1> QED BY <1>1, RangeQueue DEF ClearDeferred

(* What a packet brings is known when it has been received, unless it wipes. *)
LEMMA ReceiveBrings ==
  ASSUME TypeOK, Conn, Synchronised, NEW u \in User \ strayed, NEW p, ReceiveEffect(u, p), ~crossed',
         NEW x
  PROVE  x \in Carried(p) \/ (~Wipes(p) /\ ~ClearDeferred(u) /\ x \in Known(u))
           <=> ~ClearDeferred(u)' /\ x \in Known(u)'
<1>1. p.type \in {"resJoin", "runSync", "create", "task", "clear", "start", "data", "complete"}
  BY DEF ReceiveEffect
<1>2. CASE p.type = "create"
  <2>0. p.key \in Key
    BY <1>2, ReceivedPacket
  <2>1. HandleEdits(u, {p.key}, <<>>) /\ {p.key} \in SUBSET Key /\ <<>> \in Seq(Task)
    BY <1>2, <2>0 DEF ReceiveEffect
  <2>2. Carried(p) = Content({p.key}, <<>>) /\ ~Wipes(p)
    BY <1>2, PacketBrings DEF Cast
  <2>3. /\ Known(u)' = Known(u) \cup Content({p.key}, <<>>)
        /\ ~ClearDeferred(u) /\ ~ClearDeferred(u)'
    BY <2>1, Learns
  <2> QED BY <2>2, <2>3
<1>3. CASE p.type = "task"
  <2>0. p.task \in Task
    BY <1>3, ReceivedPacket
  <2>1. HandleEdits(u, {}, <<p.task>>) /\ {} \in SUBSET Key /\ <<p.task>> \in Seq(Task)
    BY <1>3, <2>0 DEF ReceiveEffect
  <2>2. Carried(p) = Content({}, <<p.task>>) /\ ~Wipes(p)
    BY <1>3, PacketBrings DEF Cast
  <2>3. /\ Known(u)' = Known(u) \cup Content({}, <<p.task>>)
        /\ ~ClearDeferred(u) /\ ~ClearDeferred(u)'
    BY <2>1, Learns
  <2> QED BY <2>2, <2>3
<1>4. CASE p.type = "data"
  <2>1. HandleEdits(u, p.items, p.tasks) /\ p.items \in SUBSET Key /\ p.tasks \in Seq(Task)
    BY <1>4, ReceivedPacket DEF ReceiveEffect
  <2>2. Carried(p) = Content(p.items, p.tasks) /\ ~Wipes(p)
    BY <1>4, PacketBrings DEF Carried
  <2>3. /\ Known(u)' = Known(u) \cup Content(p.items, p.tasks)
        /\ ~ClearDeferred(u) /\ ~ClearDeferred(u)'
    BY <2>1, Learns
  <2> QED BY <2>2, <2>3
<1>5. CASE p.type = "clear"
  <2>1. Defer(u, "clear")
    BY <1>5 DEF ReceiveEffect, HandleClear
  <2>2. ClearDeferred(u)'
    BY <2>1, Defers
  <2> QED BY <1>5, <2>2, PacketBrings DEF Wipes
<1>6. CASE p.type = "resJoin" /\ ~p.first
  <2>1. ~syncStartedFlag[u]
    <3>1. PICK a \in Stage, s \in User : Steps(u, a, s)
      BY DEF Synchronised
    <3>2. DownStage(u, a, s, u, 1)
      BY <3>1 DEF Steps, ReceiveEffect
    <3>3. a = "none"
      BY <1>6, <3>2 DEF DownStage, DownMatters, ReceiveEffect
    <3> QED BY <3>1, <3>3 DEF Steps
  <2>2. Defer(u, "clear")
    BY <1>6, <2>1 DEF ReceiveEffect, HandleResJoin, DeferredClearOfSync
  <2>3. ClearDeferred(u)'
    BY <2>2, Defers
  <2> QED BY <1>6, <2>3, PacketBrings DEF Wipes, Asked
<1>7. ASSUME Carried(p) = {}, ~Wipes(p), items' = items, tasks' = tasks,
             ClearDeferred(u)' <=> ClearDeferred(u)
      PROVE  x \in Carried(p) \/ (~Wipes(p) /\ ~ClearDeferred(u) /\ x \in Known(u))
               <=> ~ClearDeferred(u)' /\ x \in Known(u)'
  BY <1>7 DEF Known
<1>8. CASE p.type = "resJoin" /\ p.first
  <2>1. UNCHANGED <<items, tasks, deferred>>
    BY <1>8 DEF ReceiveEffect, HandleResJoin
  <2>2. Carried(p) = {} /\ ~Wipes(p)
    BY <1>8, PacketBrings DEF Wipes, Asked
  <2> QED BY <1>7, <2>1, <2>2 DEF ClearDeferred
<1>9. CASE p.type = "runSync"
  <2>1. UNCHANGED <<items, tasks, deferred>>
    BY <1>9 DEF ReceiveEffect, HandleRunSync
  <2>2. Carried(p) = {} /\ ~Wipes(p)
    BY <1>9, PacketBrings
  <2> QED BY <1>7, <2>1, <2>2 DEF ClearDeferred
<1>10. CASE p.type = "start"
  <2>1. items' = items /\ tasks' = tasks /\ Defer(u, "start")
    BY <1>10 DEF ReceiveEffect, HandleStart
  <2>2. Carried(p) = {} /\ ~Wipes(p)
    BY <1>10, PacketBrings
  <2>3. ClearDeferred(u)' <=> ClearDeferred(u)
    BY <2>1, Defers
  <2> QED BY <1>7, <2>1, <2>2, <2>3
<1>11. CASE p.type = "complete"
  <2>1. items' = items /\ tasks' = tasks /\ Defer(u, "complete")
    BY <1>11 DEF ReceiveEffect, HandleComplete
  <2>2. Carried(p) = {} /\ ~Wipes(p)
    BY <1>11, PacketBrings
  <2>3. ClearDeferred(u)' <=> ClearDeferred(u)
    BY <2>1, Defers
  <2> QED BY <1>7, <2>1, <2>2, <2>3
<1> QED BY <1>1, <1>2, <1>3, <1>4, <1>5, <1>6, <1>8, <1>9, <1>10, <1>11

(* What u will know by his n-th packet does not change when he receives one. *)
LEMMA ReceiveShifts ==
  ASSUME TypeOK, Conn, Synchronised, NEW u \in User \ strayed, NEW p, ReceiveEffect(u, p), ~crossed',
         NEW n \in Nat, n < Len(down[u])
  PROVE  /\ \A x : ArrivesBy(u, n, x)' <=> ArrivesBy(u, n + 1, x)
         /\ HolderBy(u, n)' => HolderBy(u, n + 1)
<1>1. Headless(down'[u], down[u]) /\ p = down[u][1] /\ strayed' = strayed
  BY InTail DEF ReceiveEffect
<1>2. \A i \in 1 .. n : down'[u][i] = down[u][i + 1]
  BY <1>1 DEF Headless
<1>3. Shifted(down'[u], down[u], n)
  BY <1>2, OneLess
<1>4. ASSUME NEW x PROVE ArrivesBy(u, n, x)' <=> ArrivesBy(u, n + 1, x)
  <2>1. /\ Open(down[u], n + 1) <=> ~Wipes(p) /\ Open(down'[u], n)
        /\ Reaches(down[u], n + 1, x) <=>
             Reaches(down'[u], n, x) \/ (x \in Carried(p) /\ Open(down'[u], n))
    BY <1>1, <1>3 DEF Shifted
  <2>2. x \in Carried(p) \/ (~Wipes(p) /\ ~ClearDeferred(u) /\ x \in Known(u))
           <=> ~ClearDeferred(u)' /\ x \in Known(u)'
    BY ReceiveBrings
  <2> QED BY <2>1, <2>2 DEF ArrivesBy
<1>5. ASSUME HolderBy(u, n)' PROVE HolderBy(u, n + 1)
  <2>1. CASE u \in whole' /\ u \notin whole
    <3>1. Grants(p)
      BY <2>1 DEF Grants, ReceiveEffect, HandleResJoin, HandleRunSync, HandleStart, HandleComplete,
                  HandleEdits, HandleClear
    <3>2. 1 \in 1 .. (n + 1)
      OBVIOUS
    <3> QED BY <1>1, <3>1, <3>2 DEF HolderBy
  <2>2. CASE u \in whole
    BY <2>2 DEF HolderBy
  <2>3. ASSUME NEW i \in 1 .. n, Grants(down'[u][i]) PROVE HolderBy(u, n + 1)
    <3>1. i + 1 \in 1 .. (n + 1)
      OBVIOUS
    <3> QED BY <1>2, <2>3, <3>1 DEF HolderBy
  <2> QED BY <1>5, <2>1, <2>2, <2>3 DEF HolderBy
<1> QED BY <1>4, <1>5

LEMMA DocReceive ==
  ASSUME TypeOK, Conn, Synchronised, NEW D, Doc(D), NEW u \in User, Receive(u), ~crossed'
  PROVE  Doc(D)'
<1>0. PICK p : p = down[u][1] /\ ReceiveEffect(u, p)
  BY ReceiveCases
<1>1. /\ down[u] \in Seq(FromServer) /\ down[u] # <<>> /\ 1 \in 1 .. Len(down[u])
      /\ down'[u] = Tail(down[u]) /\ \A v \in User : v # u => down'[v] = down[v]
      /\ connected' = connected /\ strayed' = strayed /\ u \in connected /\ serializing[u] = None
      /\ Len(down[u]) \in Nat
  BY <1>0 DEF ReceiveEffect
<1>2. Headless(down'[u], down[u])
  BY <1>1, InTail
<1>3. /\ Len(down'[u]) \in Nat /\ Len(down'[u]) + 1 = Len(down[u])
       /\ Len(down'[u]) < Len(down[u])
  BY <1>2 DEF Headless
<1>4. \A v \in User \ {u} : /\ items'[v] = items[v] /\ tasks'[v] = tasks[v]
                            /\ deferred'[v] = deferred[v] /\ serializing'[v] = serializing[v]
                            /\ up'[v] = up[v] /\ (v \in whole' => v \in whole)
  BY <1>0 DEF ReceiveEffect, HandleResJoin, HandleRunSync, HandleStart, HandleComplete, HandleEdits,
              HandleClear, Defer, DeferredClearOfSync, TypeOK
<1>5. PICK q : q = [type |-> "syncRequest"]
  OBVIOUS
<1>6. \/ up'[u] = up[u]
      \/ Asked(p) /\ Appended(up'[u], up[u], q)
  <2>1. \/ up'[u] = up[u]
        \/ Asked(p) /\ up'[u] = Append(up[u], q)
    BY <1>0, <1>5 DEF ReceiveEffect, HandleResJoin, HandleRunSync, HandleStart, HandleComplete,
                      HandleEdits, HandleClear, Asked, TypeOK
  <2>2. q \in ToServer
    BY <1>5 DEF ToServer
  <2> QED BY <2>1, <2>2, Lens, InAppend
<1>7. Asked(p) => up'[u] # up[u] \/ u \in strayed
  <2> SUFFICES ASSUME Asked(p), u \notin strayed PROVE up'[u] # up[u]
    OBVIOUS
  <2>1. ~syncStartedFlag[u]
    <3>1. PICK a \in Stage, s \in User : Steps(u, a, s)
      BY DEF Synchronised
    <3>2. DownStage(u, a, s, u, 1)
      BY <1>1, <3>1 DEF Steps
    <3>3. a = "none"
      BY <1>0, <3>2 DEF DownStage, DownMatters, Asked
    <3> QED BY <3>1, <3>3 DEF Steps
  <2>2. up'[u] = Append(up[u], q)
    BY <1>0, <1>5, <2>1 DEF ReceiveEffect, HandleResJoin, Asked, TypeOK
  <2>3. q \in ToServer
    BY <1>5 DEF ToServer
  <2>4. Len(up'[u]) = Len(up[u]) + 1 /\ Len(up[u]) \in Nat
    BY <2>2, <2>3, Lens, InAppend DEF Appended
  <2> QED BY <2>4
<1>8. \/ serializing'[u] = None
      \/ /\ p.type = "runSync" /\ serializing'[u] = [target |-> {p.target}, items |-> items[u]]
         /\ UNCHANGED <<items, tasks, deferred, whole>> /\ ~ClearAhead(u)
  BY <1>0, <1>1 DEF ReceiveEffect, HandleResJoin, HandleRunSync, HandleStart, HandleComplete,
                    HandleEdits, HandleClear, TypeOK
<1>9. ASSUME NEW v \in User, NEW i \in 1 .. Len(up'[v])
      PROVE  \/ i \in 1 .. Len(up[v]) /\ up'[v][i] = up[v][i]
             \/ v = u /\ up'[v][i].type = "syncRequest" /\ Asked(p)
  <2>1. CASE v = u /\ Appended(up'[u], up[u], q) /\ Asked(p)
    BY <1>5, <1>9, <2>1 DEF Appended
  <2> QED BY <1>4, <1>6, <1>9, <2>1
<1>10. ASSUME NEW v \in User PROVE NoClear(v)' <=> NoClear(v)
  <2>1. CASE v = u /\ Appended(up'[u], up[u], q)
    <3>1. Grown(up'[u], Len(up[u])) /\ SameTo(up'[u], up[u], Len(up[u]))
      BY <2>1, OneMore, SameFront DEF Appended
    <3>2. Len(up'[u]) = Len(up[u]) + 1 /\ up'[u][Len(up[u]) + 1].type # "clear"
      BY <1>5, <2>1 DEF Appended
    <3> QED BY <2>1, <3>1, <3>2 DEF NoClear, Grown, SameTo
  <2> QED BY <1>4, <1>6, <2>1 DEF NoClear
<1>11. ASSUME u \notin strayed PROVE Alike(u)
  <2>1. \A x : Arrives(u, x)' <=> Arrives(u, x)
    <3> TAKE x
    <3>1. PICK n \in Nat : n = Len(down'[u]) /\ n + 1 = Len(down[u]) /\ n < Len(down[u])
      BY <1>3
    <3>2. ArrivesBy(u, n, x)' <=> ArrivesBy(u, n + 1, x)
      BY <1>0, <1>11, <3>1, ReceiveShifts
    <3> QED BY <3>1, <3>2 DEF Arrives
  <2>2. \A x : Mine(u, x)' <=> Mine(u, x)
    <3> TAKE x
    <3>1. CASE Asked(p)
      <4>1. ~Mine(u, x)
        BY <1>0, <1>1, <3>1 DEF Mine, Unasked
      <4>2. Appended(up'[u], up[u], q)
        BY <1>6, <1>7, <1>11, <3>1
      <4>3. Grown(up'[u], Len(up[u])) /\ Len(up'[u]) = Len(up[u]) + 1 /\ up'[u][Len(up[u]) + 1] = q
        BY <4>2, OneMore DEF Appended
      <4>4. Barrier(q) /\ Cast(q) = {}
        BY <1>5, PacketBrings DEF Barrier
      <4>5. ~Mine(u, x)'
        BY <4>3, <4>4 DEF Grown, Mine
      <4> QED BY <4>1, <4>5
    <3>2. CASE ~Asked(p)
      <4>1. Unasked(u)' <=> Unasked(u)
        <5>1. \A i \in 1 .. Len(down[u]) : i = 1 \/ (i - 1 \in 1 .. Len(down'[u]) /\ (i - 1) + 1 = i)
          BY <1>2 DEF Headless
        <5> QED BY <1>0, <1>2, <3>2, <5>1 DEF Headless, Unasked
      <4>2. up'[u] = up[u]
        BY <1>6, <3>2
      <4> QED BY <4>1, <4>2 DEF Mine
    <3> QED BY <3>1, <3>2
  <2> QED BY <1>10, <2>1, <2>2 DEF Alike
<1>12. ASSUME NEW v \in User \ strayed PROVE Alike(v)
  <2>1. CASE v # u
    <3>1. Untouched(v)
      BY <1>1, <1>4, <2>1 DEF Untouched
    <3> QED BY <3>1, UntouchedAlike
  <2> QED BY <1>11, <2>1
<1>13. ASSUME NEW v \in User, NEW i \in 1 .. Len(down'[v])
       PROVE  \E j \in 1 .. Len(down[v]) : down'[v][i] = down[v][j]
  <2>1. CASE v = u
    BY <1>2, <2>1 DEF Headless
  <2> QED BY <1>1, <2>1
<1>14. ASSUME NEW v \in User PROVE Hopeful(v)' => Hopeful(v)
  <2>1. ~Unasked(v)' => ~Unasked(v)
    BY <1>13 DEF Unasked
  <2>2. \A i \in 1 .. Len(up'[v]) : up'[v][i].type = "syncRequest" =>
          ~Unasked(v) \/ \E j \in 1 .. Len(up[v]) : up[v][j].type = "syncRequest"
    <3>1. Asked(p) => ~Unasked(u)
      BY <1>0, <1>1 DEF Unasked
    <3> QED BY <1>9, <3>1
  <2>3. ASSUME NEW s \in User
        PROVE  /\ \A i \in 1 .. Len(down'[s]) : RunsFor(v, down'[s][i]) =>
                    \E j \in 1 .. Len(down[s]) : RunsFor(v, down[s][j])
               /\ \A i \in 1 .. Len(up'[s]) : Completes(v, up'[s][i]) =>
                    \E j \in 1 .. Len(up[s]) : Completes(v, up[s][j])
    BY <1>9, <1>13 DEF Completes
  <2>4. ASSUME NEW s \in User, v \in serializing'[s].target
        PROVE  v \in serializing[s].target \/ \E j \in 1 .. Len(down[s]) : RunsFor(v, down[s][j])
    BY <1>0, <1>1, <1>4, <1>8, <2>4 DEF None, RunsFor
  <2> QED BY <2>1, <2>2, <2>3, <2>4 DEF Hopeful
<1>15. ASSUME NEW v \in User PROVE Holder(v)' => Holder(v)
  <2>1. CASE v # u
    BY <1>1, <1>4, <2>1 DEF Holder, HolderBy
  <2>2. CASE v = u /\ u \notin strayed
    <3>1. PICK n \in Nat : n = Len(down'[u]) /\ n + 1 = Len(down[u]) /\ n < Len(down[u])
      BY <1>3
    <3>2. HolderBy(u, n)' => HolderBy(u, n + 1)
      BY <1>0, <2>2, <3>1, ReceiveShifts
    <3> QED BY <2>2, <3>1, <3>2 DEF Holder
  <2> QED BY <1>1, <2>1, <2>2 DEF Holder, HolderBy
<1>16. ASSUME NEW v \in User \ strayed' PROVE PaintingAt(D, v)'
  <2>1. PaintingAt(D, v)
    BY <1>1 DEF Doc
  <2> QED BY <1>1, <1>12, <1>14, <1>15, <2>1, PaintingAlike
<1>17. ASSUME NEW v \in User PROVE ApartAt(v)'
  <2>0. ApartAt(v)
    BY DEF Doc
  <2>1. /\ Holds(up'[v], EditTypes) => Holds(up[v], EditTypes)
        /\ Holds(down'[v], EditTypes) => Holds(down[v], EditTypes)
        /\ Holds(down'[v], {"clear"}) => Holds(down[v], {"clear"})
    BY <1>9, <1>13 DEF Holds, EditTypes
  <2>2. CASE v # u
    BY <1>1, <1>4, <1>10, <2>0, <2>1, <2>2, ApartLess DEF ClearDeferred
  <2>3. CASE v = u
    <3>1. serializing'[u] # None =>
            ~ClearAhead(u)' /\ (u \in whole' => serializing'[u].items \subseteq items'[u])
      <4> SUFFICES ASSUME serializing'[u] # None
                   PROVE  ~ClearAhead(u)' /\ (u \in whole' => serializing'[u].items \subseteq items'[u])
        OBVIOUS
      <4>1. /\ serializing'[u] = [target |-> {p.target}, items |-> items[u]]
            /\ UNCHANGED <<items, tasks, deferred, whole>> /\ ~ClearAhead(u)
        BY <1>8
      <4>2. \A w \in User : Holds(up'[w], {"clear"}) => Holds(up[w], {"clear"})
        BY <1>9 DEF Holds
      <4>3. ~ClearAhead(u)'
        BY <2>1, <2>3, <4>1, <4>2 DEF ClearAhead, Coming, ClearDeferred
      <4> QED BY <4>1, <4>3
    <3>2. Holds(up'[u], EditTypes) =>
            ~Holds(down'[u], {"clear"}) /\ \A w \in User \ {u} : NoClear(w)'
      BY <1>10, <2>0, <2>1, <2>3 DEF ApartAt
    <3>3. Holds(down'[u], EditTypes) => NoClear(u)'
      BY <1>10, <2>0, <2>1, <2>3 DEF ApartAt
    <3> QED BY <2>3, <3>1, <3>2, <3>3 DEF ApartAt
  <2> QED BY <2>2, <2>3
<1>18. ASSUME NEW z \in User \ strayed', NEW s \in User
       PROVE  ToRead(D, z, s)' /\ Reading(D, z, s)' /\ OnItsWay(D, z, s)'
  <2>0. ToRead(D, z, s) /\ Reading(D, z, s) /\ OnItsWay(D, z, s) /\ z \in User \ strayed
    BY <1>1 DEF Doc
  <2>1. NeedsLess(D, D, z)
    BY <1>12, <2>0, NeedsAlike
  <2>2. ToRead(D, z, s)'
    <3>1. CASE s # u
      <4>1. DownFront(z, s) /\ (ClearDeferred(s)' <=> ClearDeferred(s)) /\ Known(s)' = Known(s)
        BY <1>1, <1>4, <3>1, FrontSame DEF ClearDeferred, Known
      <4> QED BY <1>1, <1>4, <1>10, <2>0, <2>1, <3>1, <4>1, ToReadFrame
    <3>2. CASE s = u
      <4>1. ASSUME NEW n \in Nat, n < Len(down[u]), HolderBy(u, n)'
            PROVE  HolderBy(u, n + 1) /\ \A x : ArrivesBy(u, n + 1, x) => ArrivesBy(u, n, x)'
        <5>1. u \in User \ strayed
          BY <1>1, <4>1 DEF HolderBy
        <5> QED BY <1>0, <4>1, <5>1, ReceiveShifts
      <4> QED BY <1>2, <1>10, <2>0, <2>1, <3>2, <4>1, ToReadShift
    <3> QED BY <3>1, <3>2
  <2>3. Reading(D, z, s)'
    <3>1. CASE s # u
      BY <1>4, <1>10, <2>0, <2>1, <3>1, ReadingFrame
    <3>2. CASE s = u
      <4> SUFFICES ASSUME u \in whole', z \in serializing'[u].target, NoClear(u)',
                          NEW x, Needs(D, z, x)'
                   PROVE  x \in Content(serializing'[u].items, tasks'[u])
        BY <3>2 DEF Reading
      <4>1. /\ p.type = "runSync" /\ serializing'[u] = [target |-> {p.target}, items |-> items[u]]
            /\ UNCHANGED <<items, tasks, deferred, whole>>
        BY <1>8 DEF None
      <4>2. RunsFor(z, down[u][1]) /\ u \in whole /\ u \notin strayed /\ NoClear(u)
        BY <1>0, <1>10, <4>1 DEF RunsFor, Conn
      <4>3. 1 - 1 = 0 /\ HolderBy(u, 0)
        BY <4>2 DEF HolderBy
      <4>4. Needs(D, z, x)
        BY <2>1 DEF NeedsLess
      <4>5. ArrivesBy(u, 0, x)
        BY <1>1, <2>0, <3>2, <4>2, <4>3, <4>4 DEF ToRead
      <4>6. x \in Known(u)
        BY <4>5, NoPackets DEF ArrivesBy
      <4> QED BY <4>1, <4>6 DEF Known
    <3> QED BY <3>1, <3>2
  <2>4. UpFront(z, s)
    <3>1. CASE s = u /\ Appended(up'[u], up[u], q)
      BY <1>5, <3>1, FrontAppended DEF DataFor, Completes
    <3> QED BY <1>4, <1>6, <3>1, FrontSame
  <2> QED BY <2>0, <2>1, <2>2, <2>3, <2>4, OnItsWayFrame
<1> QED BY <1>16, <1>17, <1>18 DEF Doc

-----------------------------------------------------------------------------
(* The server handles a packet.                                             *)

(* p, the first packet of u, is taken; nothing but down and room changes.   *)
Served(u, p) ==
  /\ Headless(up'[u], up[u]) /\ p = up[u][1] /\ 1 \in 1 .. Len(up[u])
  /\ \A v \in User : v # u => up'[v] = up[v]
  /\ UNCHANGED <<items, tasks, deferred, serializing, whole, strayed, connected>>

LEMMA IsServed ==
  ASSUME NEW u \in User, NEW p, ServerEffect(u, p)
  PROVE  Served(u, p)
<1>1. /\ up[u] \in Seq(ToServer) /\ up[u] # <<>> /\ up'[u] = Tail(up[u]) /\ p = up[u][1]
      /\ 1 \in 1 .. Len(up[u]) /\ \A v \in User : v # u => up'[v] = up[v]
      /\ UNCHANGED <<items, tasks, deferred, serializing, whole, strayed, connected>>
  BY DEF ServerEffect, client, aux
<1>2. Headless(up'[u], up[u])
  BY <1>1, InTail
<1> QED BY <1>1, <1>2 DEF Served

LEMMA NothingSent ==
  ASSUME NEW u \in User, NEW p, Served(u, p), NEW v \in User, NEW i \in 1 .. Len(up'[v])
  PROVE  \E j \in 1 .. Len(up[v]) : up'[v][i] = up[v][j]
<1>1. CASE v = u
  BY <1>1 DEF Served, Headless
<1> QED BY <1>1 DEF Served

LEMMA TakenFront ==
  ASSUME NEW u \in User, NEW p, Served(u, p)
  PROVE  /\ p.type # "clear" => (NoClear(u)' <=> NoClear(u))
         /\ NoClear(u) => NoClear(u)'
         /\ \A x : Lasts(up[u], Len(up[u]), x) <=>
              Lasts(up'[u], Len(up'[u]), x) \/ (x \in Cast(p) /\ Unbarred(up'[u], Len(up'[u])))
<1>1. /\ Len(up'[u]) \in Nat /\ Len(up'[u]) + 1 = Len(up[u])
      /\ \A i \in 1 .. Len(up'[u]) : up'[u][i] = up[u][i + 1]
  BY DEF Served, Headless
<1>2. PICK n \in Nat : n = Len(up'[u]) /\ n + 1 = Len(up[u])
  BY <1>1
<1>3. Shifted(up'[u], up[u], n)
  BY <1>1, <1>2, OneLess
<1>4. NoClear(u) <=> p.type # "clear" /\ NoClear(u)'
  BY <1>2, <1>3 DEF Shifted, NoClear, Served
<1>5. \A x : Lasts(up[u], n + 1, x) <=> Lasts(up'[u], n, x) \/ (x \in Cast(p) /\ Unbarred(up'[u], n))
  BY <1>3 DEF Shifted, Served
<1> QED BY <1>2, <1>4, <1>5

LEMMA NoClearTaken ==
  ASSUME NEW u \in User, NEW p, Served(u, p), NEW v \in User
  PROVE  /\ NoClear(v) => NoClear(v)'
         /\ p.type # "clear" \/ v # u => (NoClear(v)' <=> NoClear(v))
<1>1. v # u => (NoClear(v)' <=> NoClear(v))
  BY DEF Served, NoClear
<1> QED BY <1>1, TakenFront

(* Where nothing is written, and the packet taken casts nothing.            *)
LEMMA AlikeTaken ==
  ASSUME NEW u \in User, NEW p, Served(u, p), NEW v \in User, down'[v] = down[v],
         v # u \/ (p.type # "clear" /\ Cast(p) = {})
  PROVE  Alike(v)
<1>1. CASE v # u
  <2>1. Untouched(v)
    BY <1>1 DEF Served, Untouched
  <2> QED BY <2>1, UntouchedAlike
<1>2. CASE v = u
  <2>1. \A x : Arrives(u, x)' <=> Arrives(u, x)
    BY <1>2 DEF Served, Arrives, ArrivesBy, Known, ClearDeferred
  <2>2. Unasked(u)' <=> Unasked(u)
    BY <1>2 DEF Unasked
  <2>3. \A x : Mine(u, x)' <=> Mine(u, x)
    BY <1>2, <2>2, TakenFront DEF Mine
  <2>4. NoClear(u)' <=> NoClear(u)
    BY <1>2, TakenFront
  <2> QED BY <1>2, <2>1, <2>3, <2>4 DEF Alike
<1> QED BY <1>1, <1>2

(* Where q is written.                                                      *)
LEMMA Delivered ==
  ASSUME NEW u \in User, NEW p, Served(u, p), NEW v \in User, NEW q, Appended(down'[v], down[v], q)
  PROVE  /\ \A x : Arrives(v, x)' <=> x \in Carried(q) \/ (~Wipes(q) /\ Arrives(v, x))
         /\ Unasked(v)' <=> Unasked(v) /\ ~Asked(q)
         /\ Holder(v)' => Holder(v) \/ Grants(q)
<1>1. PICK n \in Nat : n = Len(down[v]) /\ n + 1 = Len(down'[v])
  BY DEF Appended
<1>2. /\ down'[v][n + 1] = q /\ \A i \in 1 .. n : down'[v][i] = down[v][i]
      /\ \A i \in 1 .. (n + 1) : i \in 1 .. n \/ i = n + 1
      /\ n + 1 \in 1 .. (n + 1) /\ \A i \in 1 .. n : i \in 1 .. (n + 1)
  BY <1>1 DEF Appended
<1>3. SameTo(down'[v], down[v], n) /\ Grown(down'[v], n)
  BY <1>2, SameFront, OneMore
<1>4. ASSUME NEW x PROVE Arrives(v, x)' <=> x \in Carried(q) \/ (~Wipes(q) /\ Arrives(v, x))
  <2>1. /\ Reaches(down'[v], n + 1, x) <=>
             x \in Carried(q) \/ (Reaches(down[v], n, x) /\ ~Wipes(q))
        /\ Open(down'[v], n + 1) <=> Open(down[v], n) /\ ~Wipes(q)
    BY <1>2, <1>3 DEF SameTo, Grown
  <2>2. (ClearDeferred(v)' <=> ClearDeferred(v)) /\ Known(v)' = Known(v)
    BY DEF Served, ClearDeferred, Known
  <2> QED BY <1>1, <2>1, <2>2 DEF Arrives, ArrivesBy
<1>5. Unasked(v)' <=> Unasked(v) /\ ~Asked(q)
  BY <1>1, <1>2 DEF Unasked
<1>6. Holder(v)' => Holder(v) \/ Grants(q)
  BY <1>1, <1>2 DEF Holder, HolderBy, Served
<1> QED BY <1>4, <1>5, <1>6

(* A packet that brings nothing and wipes nothing.                          *)
LEMMA AlikeDelivered ==
  ASSUME NEW u \in User, NEW p, Served(u, p), NEW v \in User, NEW q, Appended(down'[v], down[v], q),
         v # u, Carried(q) = {}, ~Wipes(q)
  PROVE  Alike(v)
<1>1. \A x : Arrives(v, x)' <=> Arrives(v, x)
  BY Delivered
<1>2. Unasked(v)' <=> Unasked(v)
  BY Delivered DEF Wipes
<1>3. up'[v] = up[v]
  BY DEF Served
<1> QED BY <1>1, <1>2, <1>3 DEF Alike, Mine, NoClear

(* What is on its way to whom the server does not ask for.                  *)
LEMMA HopefulServed ==
  ASSUME NEW u \in User, NEW p, Served(u, p), NEW v \in User, Hopeful(v)',
         ~Unasked(v)' => ~Unasked(v),
         \A s \in User : \A i \in 1 .. Len(down'[s]) : RunsFor(v, down'[s][i]) =>
           Hopeful(v) \/ \E j \in 1 .. Len(down[s]) : RunsFor(v, down[s][j])
  PROVE  Hopeful(v)
<1>1. \A i \in 1 .. Len(up'[v]) : up'[v][i].type = "syncRequest" =>
        \E j \in 1 .. Len(up[v]) : up[v][j].type = "syncRequest"
  BY NothingSent
<1>2. ASSUME NEW s \in User
      PROVE  \A i \in 1 .. Len(up'[s]) : Completes(v, up'[s][i]) =>
                \E j \in 1 .. Len(up[s]) : Completes(v, up[s][j])
  BY NothingSent
<1>3. \A s \in User : v \in serializing'[s].target => v \in serializing[s].target
  BY DEF Served
<1> QED BY <1>1, <1>2, <1>3 DEF Hopeful

LEMMA PendingServed ==
  ASSUME NEW u \in User, NEW p, Served(u, p), NEW z \in User, NEW s \in User, Pending(z, s)',
         \A i \in 1 .. Len(down'[s]) : RunsFor(z, down'[s][i]) =>
           \E j \in 1 .. Len(down[s]) : RunsFor(z, down[s][j])
  PROVE  Pending(z, s)
<1>1. \A i \in 1 .. Len(up'[s]) : Bundled(up'[s][i]) /\ up'[s][i].target = z =>
        \E j \in 1 .. Len(up[s]) : Bundled(up[s][j]) /\ up[s][j].target = z
  BY NothingSent
<1>2. z \in serializing'[s].target => z \in serializing[s].target
  BY DEF Served
<1>3. CASE \E i \in 1 .. Len(down'[s]) : RunsFor(z, down'[s][i])
  BY <1>3 DEF Pending
<1>4. CASE z \in serializing'[s].target
  BY <1>2, <1>4 DEF Pending
<1>5. CASE \E i \in 1 .. Len(up'[s]) : Bundled(up'[s][i]) /\ up'[s][i].target = z
  BY <1>1, <1>5 DEF Pending
<1>6. \/ \E i \in 1 .. Len(down'[s]) : RunsFor(z, down'[s][i])
      \/ z \in serializing'[s].target
      \/ \E i \in 1 .. Len(up'[s]) : Bundled(up'[s][i]) /\ up'[s][i].target = z
  BY DEF Pending, RunsFor, Bundled
<1> QED BY <1>3, <1>4, <1>5, <1>6

(* The ways to z.                                                           *)
LEMMA ToReadServed ==
  ASSUME TypeOK, NEW u \in User, NEW p, Served(u, p), p.type # "clear", NEW D, NEW E,
         NEW z \in User, NEW s \in User, ToRead(D, z, s), NeedsLess(D, E, z),
         ToRead(E, z, s)' \/ DownFront(z, s)
  PROVE  ToRead(E, z, s)'
<1>1. NoClear(s)' <=> NoClear(s)
  BY NoClearTaken
<1>2. (ClearDeferred(s)' <=> ClearDeferred(s)) /\ Known(s)' = Known(s)
  BY DEF Served, ClearDeferred, Known
<1> QED BY <1>1, <1>2, ToReadFrame DEF Served

LEMMA PathsServed ==
  ASSUME TypeOK, NEW u \in User, NEW p, Served(u, p), p.type # "clear",
         NEW D, NEW E, D \cup Cast(p) \subseteq E,
         NEW z \in User, NEW s \in User, Reading(D, z, s), OnItsWay(D, z, s),
         NeedsLess(D, E, z), DataFor(z, p) => \A x \in Carried(p) : ~Needs(E, z, x)'
  PROVE  Reading(E, z, s)' /\ OnItsWay(E, z, s)'
<1>1. NoClear(s)' <=> NoClear(s)
  BY NoClearTaken
<1>2. Reading(E, z, s)'
  BY <1>1, ReadingFrame DEF Served
<1>3. CASE s # u
  <2>1. UpFront(z, s)
    BY <1>3, FrontSame DEF Served
  <2> QED BY <1>2, <2>1, OnItsWayFrame
<1>4. CASE s = u
  <2>1. Headless(up'[s], up[s]) /\ p = up[s][1]
    BY <1>4 DEF Served
  <2>2. \A x : Needs(E, z, x)' => Needs(D, z, x) /\ (DataFor(z, p) => x \notin Carried(p))
    BY DEF NeedsLess
  <2> QED BY <1>2, <2>1, <2>2, OnItsWayShift
<1> QED BY <1>3, <1>4

LEMMA DocServed ==
  ASSUME TypeOK, NEW D, NEW E, Doc(D), NEW u \in User, NEW p, Served(u, p), p.type # "clear",
         D \cup Cast(p) \subseteq E,
         \A v \in User \ strayed : PaintingAt(E, v)',
         \A v \in User : ApartAt(v)',
         \A z \in User \ strayed, s \in User : Pending(z, s)' =>
           /\ NeedsLess(D, E, z)
           /\ ToRead(E, z, s)' \/ DownFront(z, s)
           /\ DataFor(z, p) => \A x \in Carried(p) : ~Needs(E, z, x)'
  PROVE  Doc(E)'
<1>1. strayed' = strayed
  BY DEF Served
<1>2. ASSUME NEW z \in User \ strayed, NEW s \in User
      PROVE  ToRead(E, z, s)' /\ Reading(E, z, s)' /\ OnItsWay(E, z, s)'
  <2>1. CASE ~Pending(z, s)'
    BY <2>1, PathIdle
  <2>2. CASE Pending(z, s)'
    <3>1. /\ NeedsLess(D, E, z) /\ (ToRead(E, z, s)' \/ DownFront(z, s))
          /\ DataFor(z, p) => \A x \in Carried(p) : ~Needs(E, z, x)'
      BY <2>2
    <3>2. ToRead(D, z, s) /\ Reading(D, z, s) /\ OnItsWay(D, z, s)
      BY DEF Doc
    <3>3. ToRead(E, z, s)'
      BY <3>1, <3>2, ToReadServed
    <3> QED BY <3>1, <3>2, <3>3, PathsServed
  <2> QED BY <2>1, <2>2
<1> QED BY <1>1, <1>2 DEF Doc

LEMMA ApartServed ==
  ASSUME NEW u \in User, NEW p, Served(u, p), NEW v \in User, ApartAt(v),
         Holds(down'[v], EditTypes) => Holds(down[v], EditTypes),
         Holds(down'[v], {"clear"}) => Holds(down[v], {"clear"})
  PROVE  ApartAt(v)'
<1>1. Holds(up'[v], EditTypes) => Holds(up[v], EditTypes)
  BY NothingSent DEF Holds
<1>2. \A w \in User : NoClear(w) => NoClear(w)'
  BY NoClearTaken
<1>3. ClearDeferred(v)' => ClearDeferred(v)
  BY DEF Served, ClearDeferred
<1> QED BY <1>1, <1>2, <1>3, ApartLess DEF Served

(* A packet that is neither an edit nor a clear is written to w at most.    *)
LEMMA HoldsAppended ==
  ASSUME NEW v, NEW q, Appended(down'[v], down[v], q), NEW T, q.type \notin T
  PROVE  Holds(down'[v], T) => Holds(down[v], T)
<1>1. \A i \in 1 .. Len(down'[v]) : down'[v][i].type \in T => i \in 1 .. Len(down[v]) /\ down'[v][i] = down[v][i]
  BY DEF Appended
<1> QED BY <1>1 DEF Holds

(* The end of a connection, and what reaches nobody who counts.             *)
LEMMA DocLeft ==
  ASSUME TypeOK, NEW D, Doc(D), NEW u \in User, NEW p, Served(u, p),
         p.type \in {"join", "left", "syncRequest", "start", "data", "complete"},
         \A v \in User : down'[v] = down[v],
         \A z \in User \ strayed : ~DataFor(z, p)
  PROVE  Doc(D)'
<1>1. Cast(p) = {} /\ p.type # "clear"
  BY PacketBrings
<1>2. ASSUME NEW v \in User PROVE Alike(v) /\ NeedsLess(D, D, v)
  <2>1. Alike(v)
    BY <1>1, AlikeTaken
  <2> QED BY <2>1, NeedsAlike
<1>3. ASSUME NEW v \in User \ strayed PROVE PaintingAt(D, v)'
  <2>1. Hopeful(v)' => Hopeful(v)
    BY HopefulServed DEF Unasked
  <2>2. Holder(v)' => Holder(v)
    BY DEF Served, Holder, HolderBy
  <2> QED BY <1>2, <2>1, <2>2, PaintingAlike DEF Doc, Served
<1>4. ASSUME NEW v \in User PROVE ApartAt(v)'
  BY ApartServed DEF Doc
<1>5. ASSUME NEW z \in User \ strayed, NEW s \in User PROVE DownFront(z, s)
  BY FrontSame
<1> QED BY <1>1, <1>2, <1>3, <1>4, <1>5, DocServed

(* Who joins, and is not the first, is to clear and to ask.                 *)
LEMMA DocAsked ==
  ASSUME TypeOK, Conn, Synchronised, NEW D, Doc(D), NEW u \in User, NEW p, Served(u, p),
         p.type = "join", NEW q, q.type = "resJoin", ~q.first, Appended(down'[u], down[u], q),
         \A v \in User : v # u => down'[v] = down[v]
  PROVE  Doc(D)'
<1>1. Cast(p) = {} /\ p.type # "clear" /\ ~DataFor(u, p) /\ Joining(u)
  BY Lens, PacketBrings DEF DataFor, Served, Joining
<1>2. Carried(q) = {} /\ Wipes(q) /\ Asked(q) /\ ~Grants(q)
  BY PacketBrings DEF Wipes, Asked, Grants
<1>3. ASSUME NEW v \in User, v # u PROVE Alike(v) /\ NeedsLess(D, D, v)
  <2>1. Alike(v)
    BY <1>3, AlikeTaken
  <2> QED BY <2>1, NeedsAlike
<1>4. ASSUME NEW v \in User, NEW s \in User, NEW i \in 1 .. Len(down'[s]), RunsFor(v, down'[s][i])
      PROVE  \E j \in 1 .. Len(down[s]) : RunsFor(v, down[s][j])
  <2>1. CASE s = u
    BY <1>4, <2>1 DEF Appended, RunsFor
  <2> QED BY <1>4, <2>1
<1>5. ASSUME NEW v \in User \ strayed PROVE PaintingAt(D, v)'
  <2>1. CASE v # u
    <3>1. Hopeful(v)' => Hopeful(v)
      BY <1>4, <2>1, HopefulServed DEF Unasked
    <3>2. Holder(v)' => Holder(v)
      BY <2>1 DEF Served, Holder, HolderBy
    <3> QED BY <1>3, <2>1, <3>1, <3>2, PaintingAlike DEF Doc, Served
  <2>2. CASE v = u
    <3>1. ~Holder(u)
      BY <1>1, <2>2, OutsideSettled
    <3>2. ~Holder(u)' /\ ~Unasked(u)' /\ \A x : ~Arrives(u, x)'
      BY <1>2, <3>1, Delivered
    <3> QED BY <2>2, <3>2 DEF PaintingAt, Mine
  <2> QED BY <2>1, <2>2
<1>6. ASSUME NEW v \in User PROVE ApartAt(v)'
  <2>1. /\ Holds(down'[v], EditTypes) => Holds(down[v], EditTypes)
        /\ Holds(down'[v], {"clear"}) => Holds(down[v], {"clear"})
    <3>1. CASE v = u
      BY <3>1, HoldsAppended DEF EditTypes
    <3> QED BY <3>1
  <2> QED BY <2>1, ApartServed DEF Doc
<1>7. ASSUME NEW z \in User \ strayed, NEW s \in User, Pending(z, s)'
      PROVE  NeedsLess(D, D, z) /\ DownFront(z, s) /\ ~DataFor(z, p)
  <2>1. Pending(z, s)
    BY <1>4, <1>7, PendingServed
  <2>2. z # u
    BY <1>1, <2>1, OutsideSettled, SettledIdle
  <2>3. DownFront(z, s)
    <3>1. CASE s = u
      BY <3>1, FrontAppended DEF RunsFor
    <3> QED BY <3>1, FrontSame
  <2> QED BY <1>3, <2>2, <2>3 DEF DataFor
<1> QED BY <1>1, <1>5, <1>6, <1>7, DocServed

(* Who is the first has the painting whole: what he knows.                  *)
LEMMA DocFirst ==
  ASSUME TypeOK, Conn, Synchronised, NEW D, Doc(D), NEW u \in User, NEW p, Served(u, p),
         p.type = "join", NEW q, q.type = "resJoin", q.first, room = {},
         \/ down'[u] = down[u]
         \/ u \in connected /\ Appended(down'[u], down[u], q),
         \A v \in User : v # u => down'[v] = down[v]
  PROVE  \E E : Doc(E)'
<1> PICK E : E = IF NoClear(u) /\ ~ClearDeferred(u) THEN Known(u) ELSE {}
  OBVIOUS
<1>1. Cast(p) = {} /\ p.type # "clear" /\ strayed' = strayed
  BY PacketBrings DEF Served
<1>2. Carried(q) = {} /\ ~Wipes(q) /\ ~Asked(q)
  BY PacketBrings DEF Wipes, Asked
<1>3. ASSUME NEW v \in User \ strayed PROVE Settled(v) /\ ~Holder(v) /\ Len(down[v]) = 0
  BY <1>3, OutsideSettled
<1>4. ASSUME NEW v \in User, NEW s \in User, NEW i \in 1 .. Len(down'[s]), RunsFor(v, down'[s][i])
      PROVE  \E j \in 1 .. Len(down[s]) : RunsFor(v, down[s][j])
  <2>1. CASE s = u /\ Appended(down'[u], down[u], q)
    BY <1>4, <2>1 DEF Appended, RunsFor
  <2> QED BY <1>4, <2>1
<1>5. ASSUME NEW v \in User, down'[v] = down[v] \/ (v = u /\ Appended(down'[u], down[u], q))
      PROVE  Alike(v)
  <2>1. CASE down'[v] = down[v]
    BY <1>1, <2>1, AlikeTaken
  <2>2. CASE v = u /\ Appended(down'[u], down[u], q)
    <3>1. \A x : Arrives(u, x)' <=> Arrives(u, x)
      BY <1>2, <2>2, Delivered
    <3>2. Unasked(u)' <=> Unasked(u)
      BY <1>2, <2>2, Delivered
    <3>3. \A x : Mine(u, x)' <=> Mine(u, x)
      BY <1>1, <3>2, TakenFront DEF Mine
    <3>4. NoClear(u)' <=> NoClear(u)
      BY <1>1, TakenFront
    <3> QED BY <2>2, <3>1, <3>3, <3>4 DEF Alike
  <2> QED BY <1>5, <2>1, <2>2
<1>6. ASSUME NEW v \in User \ strayed PROVE ~Hopeful(v)'
  <2>1. ~Unasked(v)' => ~Unasked(v)
    <3>1. CASE v = u /\ Appended(down'[u], down[u], q)
      BY <1>2, <3>1, Delivered
    <3> QED BY <3>1 DEF Unasked
  <2> QED BY <1>3, <1>4, <2>1, HopefulServed, HopefulUnsettled
<1>7. ASSUME NEW v \in User \ strayed PROVE PaintingAt(E, v)'
  <2>0. PaintingAt(D, v) /\ Alike(v) /\ ~Hopeful(v)' /\ connected' = connected
    BY <1>5, <1>6 DEF Doc, Served
  <2>1. CASE down'[v] = down[v]
    <3>1. ~Holder(v)'
      BY <1>3, <2>1 DEF Holder, HolderBy, Served
    <3> QED BY <2>0, <3>1 DEF PaintingAt, Alike
  <2>2. CASE v = u /\ u \in connected
    <3>1. \A x : Arrives(u, x) <=> ~ClearDeferred(u) /\ x \in Known(u)
      BY <1>3, <2>2, NoPackets DEF Arrives, ArrivesBy
    <3>2. \A x : Arrives(u, x) <=> Mine(u, x) \/ (x \in E /\ NoClear(u))
      BY <2>0, <2>2, <3>1 DEF PaintingAt
    <3> QED BY <2>0, <2>2, <3>2 DEF PaintingAt, Alike
  <2> QED BY <2>1, <2>2
<1>8. ASSUME NEW v \in User PROVE ApartAt(v)'
  <2>1. /\ Holds(down'[v], EditTypes) => Holds(down[v], EditTypes)
        /\ Holds(down'[v], {"clear"}) => Holds(down[v], {"clear"})
    <3>1. CASE v = u /\ Appended(down'[u], down[u], q)
      BY <3>1, HoldsAppended DEF EditTypes
    <3> QED BY <3>1
  <2> QED BY <2>1, ApartServed DEF Doc
<1>9. ASSUME NEW z \in User \ strayed, NEW s \in User PROVE ~Pending(z, s)'
  BY <1>3, <1>4, PendingServed, SettledIdle
<1>10. ASSUME NEW z \in User \ strayed, NEW s \in User
       PROVE  ToRead(E, z, s)' /\ Reading(E, z, s)' /\ OnItsWay(E, z, s)'
  BY <1>9, PathIdle
<1>11. Doc(E)'
  BY <1>1, <1>7, <1>8, <1>10 DEF Doc
<1> QED BY <1>11

LEMMA DocJoined ==
  ASSUME TypeOK, Conn, Synchronised, NEW D, Doc(D), NEW u \in User, NEW p, ServerEffect(u, p),
         p.type = "join"
  PROVE  \E E : Doc(E)'
<1>1. Served(u, p)
  BY IsServed
<1>2. PICK q : q = [type |-> "resJoin", first |-> room' = {u}]
  OBVIOUS
<1>3. room' = room \cup {u} /\ down' = Written({u}, q) /\ u \notin room
  <2>1. UpFits(u, 1)
    BY <1>1 DEF Conn, Line, Served
  <2> QED BY <1>1, <1>2, <2>1 DEF ServerEffect, UpFits, Served
<1>4. q \in FromServer /\ q.type = "resJoin"
  BY <1>2 DEF FromServer
<1>5. q.first <=> room = {}
  <2>1. q.first = (room' = {u})
    BY <1>2
  <2>2. room' = {u} <=> room = {}
    BY <1>3
  <2> QED BY <2>1, <2>2
<1>6. ASSUME NEW v \in User
      PROVE  down'[v] = down[v] \/ (v = u /\ u \in connected /\ Appended(down'[u], down[u], q))
  BY <1>3, <1>4, WrittenTo
<1>7. CASE room = {}
  BY <1>1, <1>4, <1>5, <1>6, <1>7, DocFirst
<1>8. CASE room # {} /\ down'[u] # down[u]
  <2>1. Appended(down'[u], down[u], q)
    BY <1>6, <1>8
  <2>2. Doc(D)'
    BY <1>1, <1>4, <1>5, <1>6, <1>8, <2>1, DocAsked
  <2> QED BY <2>2
<1>9. CASE down'[u] = down[u]
  <2>1. Doc(D)'
    BY <1>1, <1>6, <1>9, DocLeft DEF DataFor
  <2> QED BY <2>1
<1> QED BY <1>7, <1>8, <1>9

(* A synchronisation is asked for.                                          *)
LEMMA DocAsks ==
  ASSUME TypeOK, Conn, Synchronised, NEW D, Doc(D), NEW u \in User, NEW p, Served(u, p),
         p.type = "syncRequest", NEW w \in User \ {u}, NEW q, q = [type |-> "runSync", target |-> u],
         down'[w] = down[w] \/ Appended(down'[w], down[w], q),
         \A v \in User : v # w => down'[v] = down[v]
  PROVE  Doc(D)'
<1>1. Cast(p) = {} /\ p.type # "clear" /\ \A z : ~DataFor(z, p)
  BY PacketBrings DEF DataFor
<1>2. q.type = "runSync" /\ q.target = u /\ Carried(q) = {} /\ ~Wipes(q) /\ ~Asked(q) /\ ~Grants(q)
  BY PacketBrings DEF Wipes
<1>3. ASSUME NEW v \in User PROVE Alike(v) /\ NeedsLess(D, D, v) /\ (Holder(v)' => Holder(v))
  <2>1. CASE down'[v] = down[v]
    <3>1. Alike(v)
      BY <1>1, <2>1, AlikeTaken
    <3>2. Holder(v)' => Holder(v)
      BY <2>1 DEF Served, Holder, HolderBy
    <3> QED BY <3>1, <3>2, NeedsAlike
  <2>2. CASE v = w /\ Appended(down'[w], down[w], q)
    <3>1. Alike(w)
      BY <1>2, <2>2, AlikeDelivered
    <3>2. Holder(w)' => Holder(w)
      BY <1>2, <2>2, Delivered
    <3> QED BY <2>2, <3>1, <3>2, NeedsAlike
  <2> QED BY <2>1, <2>2
<1>4. ASSUME NEW v \in User, NEW s \in User, NEW i \in 1 .. Len(down'[s]), RunsFor(v, down'[s][i])
      PROVE  v = u \/ \E j \in 1 .. Len(down[s]) : RunsFor(v, down[s][j])
  <2>1. CASE s = w /\ Appended(down'[w], down[w], q)
    BY <1>2, <1>4, <2>1 DEF Appended, RunsFor
  <2> QED BY <1>4, <2>1
<1>5. Hopeful(u)
  BY DEF Served, Hopeful
<1>6. ASSUME NEW v \in User \ strayed PROVE PaintingAt(D, v)'
  <2>1. ~Unasked(v)' => ~Unasked(v)
    <3>1. CASE v = w /\ Appended(down'[w], down[w], q)
      BY <1>2, <3>1, Delivered
    <3> QED BY <3>1 DEF Unasked
  <2>2. Hopeful(v)' => Hopeful(v)
    BY <1>4, <1>5, <2>1, HopefulServed
  <2> QED BY <1>3, <2>2, PaintingAlike DEF Doc, Served
<1>7. ASSUME NEW v \in User PROVE ApartAt(v)'
  <2>1. /\ Holds(down'[v], EditTypes) => Holds(down[v], EditTypes)
        /\ Holds(down'[v], {"clear"}) => Holds(down[v], {"clear"})
    <3>1. CASE v = w /\ Appended(down'[w], down[w], q)
      BY <1>2, <3>1, HoldsAppended DEF EditTypes
    <3> QED BY <3>1
  <2> QED BY <2>1, ApartServed DEF Doc
<1>8. ASSUME u \notin strayed, Appended(down'[w], down[w], q)
      PROVE  ToRead(D, u, w)'
  <2>1. PICK n \in Nat : n = Len(down[w]) /\ n + 1 = Len(down'[w])
    BY <1>8 DEF Appended
  <2>2. \A i \in 1 .. n : down'[w][i] = down[w][i] /\ ~RunsFor(u, down[w][i])
    <3>1. PICK a \in Stage, s \in User : Steps(u, a, s)
      BY <1>8 DEF Synchronised
    <3>2. UpStage(u, a, s, u, 1)
      BY <3>1 DEF Steps, Served
    <3>3. a = "ask"
      BY <3>2 DEF UpStage, UpMatters, Served
    <3>4. \A i \in 1 .. Len(down[w]) : ~DownMatters(u, w, down[w][i])
      BY <1>8, <3>1, <3>3, OnlyAsked
    <3> QED BY <1>8, <2>1, <3>4 DEF Appended, DownMatters, RunsFor
  <2>3. ASSUME HolderBy(w, n)', NoClear(w)', NEW x, Needs(D, u, x)'
        PROVE  ArrivesBy(w, n, x)'
    <3>0. (ClearDeferred(w)' <=> ClearDeferred(w)) /\ Known(w)' = Known(w)
      BY DEF Served, ClearDeferred, Known
    <3>1. /\ HolderBy(w, n)' => HolderBy(w, n)
          /\ ArrivesBy(w, n, x) => ArrivesBy(w, n, x)'
      BY <2>2, <3>0, FrontBy DEF Served
    <3>2. Holder(w)
      BY <2>1, <2>3, <3>1 DEF Holder
    <3>3. PaintingAt(D, w)
      BY <3>2, HolderSettled DEF Doc
    <3>4. x \in D /\ NoClear(w)
      BY <1>3, <2>3 DEF Needs, Alike
    <3>5. Arrives(w, x)
      BY <3>2, <3>3, <3>4 DEF PaintingAt
    <3> QED BY <2>1, <3>1, <3>5 DEF Arrives
  <2>4. ASSUME NEW i \in 1 .. Len(down'[w]), RunsFor(u, down'[w][i]) PROVE i - 1 = n
    <3>1. i \notin 1 .. n
      BY <2>2, <2>4
    <3> QED BY <2>1, <3>1
  <2>5. \A i \in 1 .. Len(down'[w]) :
          RunsFor(u, down'[w][i]) /\ HolderBy(w, i - 1)' /\ NoClear(w)' =>
            \A x : Needs(D, u, x)' => ArrivesBy(w, i - 1, x)'
    BY <2>3, <2>4
  <2> QED BY <2>5 DEF ToRead
<1>9. ASSUME NEW z \in User \ strayed, NEW s \in User
      PROVE  ToRead(D, z, s)' \/ DownFront(z, s)
  <2>1. CASE s = w /\ Appended(down'[w], down[w], q) /\ z = u
    BY <1>8, <2>1
  <2>2. CASE s = w /\ Appended(down'[w], down[w], q) /\ z # u
    BY <1>2, <2>2, FrontAppended DEF RunsFor
  <2> QED BY <2>1, <2>2, FrontSame
<1> QED BY <1>1, <1>3, <1>6, <1>7, <1>9, DocServed

(* A packet of a synchronisation comes through.                             *)
LEMMA DocBundled ==
  ASSUME TypeOK, Conn, Synchronised, NEW D, Doc(D), NEW u \in User, NEW p, Served(u, p), Bundled(p),
         NEW t \in User, p.target = t, Appended(down'[t], down[t], p),
         \A v \in User : v # t => down'[v] = down[v]
  PROVE  Doc(D)'
<1>1. /\ t # u /\ Cast(p) = {} /\ p.type # "clear" /\ ~Wipes(p) /\ ~Asked(p)
      /\ p.type # "data" => Carried(p) = {}
  <2>1. UpFits(u, 1)
    BY DEF Conn, Line, Served
  <2>2. t # u
    BY <2>1 DEF UpFits, Served
  <2> QED BY <2>2, PacketBrings DEF Bundled, Wipes
<1>2. p.type = "data" => NoClear(t)
  <2>1. p.type = "data" => Holds(up[u], EditTypes)
    BY DEF Served, Holds, EditTypes
  <2> QED BY <1>1, <2>1 DEF Doc, ApartAt
<1>3. ASSUME NEW v \in User, v # t PROVE Alike(v)
  BY <1>1, <1>3, AlikeTaken
<1>4. /\ \A x : Arrives(t, x)' <=> x \in Carried(p) \/ Arrives(t, x)
      /\ \A x : Mine(t, x)' <=> Mine(t, x)
      /\ NoClear(t)' <=> NoClear(t)
      /\ Holder(t)' => Holder(t) \/ Grants(p)
  <2>1. \A x : Arrives(t, x)' <=> x \in Carried(p) \/ Arrives(t, x)
    BY <1>1, Delivered
  <2>2. Unasked(t)' <=> Unasked(t)
    BY <1>1, Delivered
  <2>3. up'[t] = up[t]
    BY <1>1 DEF Served
  <2>4. Holder(t)' => Holder(t) \/ Grants(p)
    BY Delivered
  <2> QED BY <2>1, <2>2, <2>3, <2>4 DEF Mine, NoClear
<1>5. ASSUME NEW v \in User PROVE Hopeful(v)' => Hopeful(v)
  <2>1. ~Unasked(v)' => ~Unasked(v)
    <3>1. CASE v = t
      BY <1>1, <3>1, Delivered
    <3> QED BY <3>1 DEF Unasked
  <2>2. ASSUME NEW s \in User, NEW i \in 1 .. Len(down'[s]), RunsFor(v, down'[s][i])
        PROVE  \E j \in 1 .. Len(down[s]) : RunsFor(v, down[s][j])
    <3>1. CASE s = t
      BY <2>2, <3>1 DEF Appended, RunsFor, Bundled
    <3> QED BY <2>2, <3>1
  <2> QED BY <2>1, <2>2, HopefulServed
<1>6. ASSUME t \notin strayed
      PROVE  ~Holder(t) /\ t \in connected /\ Pending(t, u) /\ PaintingAt(D, t) /\ OnItsWay(D, t, u)
  <2>1. Pending(t, u)
    BY DEF Pending, Served
  <2> QED BY <1>6, <2>1, PendingFacts DEF Doc
<1>7. ASSUME NEW v \in User \ strayed PROVE PaintingAt(D, v)'
  <2>1. CASE v # t
    <3>1. Holder(v)' => Holder(v)
      BY <2>1 DEF Served, Holder, HolderBy
    <3> QED BY <1>3, <1>5, <2>1, <3>1, PaintingAlike DEF Doc, Served
  <2>2. CASE v = t /\ p.type # "data" /\ ~Grants(p)
    <3>1. Alike(t)
      BY <1>1, <1>4, <2>2 DEF Alike
    <3> QED BY <1>4, <1>5, <2>2, <3>1, PaintingAlike DEF Doc, Served
  <2>3. CASE v = t /\ Grants(p)
    <3>1. Completes(t, p) /\ p.type = "complete"
      BY <2>3 DEF Grants, Bundled, Completes
    <3>2. Hopeful(t)
      BY <3>1 DEF Served, Hopeful
    <3>3. \A x : ~Needs(D, t, x)
      <4>1. PICK i \in 1 .. Len(up[u]) : i = 1 /\ Completes(t, up[u][i])
        BY <3>1 DEF Served
      <4>2. i - 1 = 0
        BY <4>1
      <4>3. Clearless(up[u], i - 1)
        BY <4>2, NoPackets
      <4>4. \A x : Needs(D, t, x) =>
              \E j \in 1 .. (i - 1) : DataFor(t, up[u][j]) /\ x \in Carried(up[u][j])
        BY <1>6, <2>3, <4>1, <4>3 DEF OnItsWay
      <4> QED BY <4>2, <4>4
    <3>4. \A x : Arrives(t, x) <=> Mine(t, x) \/ (x \in D /\ NoClear(t))
      <4> TAKE x
      <4>1. x \in D /\ NoClear(t) => Arrives(t, x)
        BY <3>3 DEF Needs
      <4> QED BY <1>6, <2>3, <3>2, <4>1 DEF PaintingAt
    <3>5. Alike(t)
      BY <1>1, <1>4, <3>1 DEF Alike
    <3> QED BY <1>6, <2>3, <3>4, <3>5 DEF PaintingAt, Alike, Served
  <2>4. CASE v = t /\ p.type = "data"
    <3>1. ~Holder(t)'
      BY <1>4, <1>6, <2>4 DEF Grants
    <3>2. ASSUME Hopeful(t)', NEW x \in Carried(p) PROVE x \in D
      <4>1. PICK a \in Stage, s \in User : Steps(t, a, s)
        BY <2>4 DEF Synchronised
      <4>2. a = "send" /\ s = u
        <5>1. UpStage(t, a, s, u, 1)
          BY <4>1 DEF Steps, Served
        <5> QED BY <5>1 DEF UpStage, UpMatters, Served
      <4>3. PICK i \in 1 .. Len(up[u]) : Completes(t, up[u][i])
        <5>1. Hopeful(t)
          BY <1>5, <3>2
        <5>2. /\ \A i \in 1 .. Len(up[t]) : ~UpMatters(t, t, up[t][i])
              /\ \A v1 \in User : /\ t \notin serializing[v1].target
                                  /\ \A i \in 1 .. Len(down[v1]) : ~RunsFor(t, down[v1][i])
                                  /\ \A i \in 1 .. Len(up[v1]) : Completes(t, up[v1][i]) => v1 = u
          BY <1>1, <4>1, <4>2, OnlySent DEF UpMatters, DownMatters, RunsFor, Completes, Bundled
        <5>3. Unasked(t)
          BY <1>6, <2>4, PendingFacts
        <5>4. \A i \in 1 .. Len(up[t]) : up[t][i].type # "syncRequest"
          BY <5>2 DEF UpMatters
        <5> QED BY <5>1, <5>2, <5>3, <5>4 DEF Hopeful
      <4>4. DataFor(t, up[u][1]) /\ x \in Carried(up[u][1]) /\ 1 \in 1 .. Len(up[u])
        BY <2>4, <3>2 DEF Served, DataFor
      <4>5. (x \in D /\ Clearless(up[u], 1 - 1)) \/ Lasts(up[u], 1 - 1, x)
        BY <1>6, <2>4, <4>3, <4>4 DEF OnItsWay
      <4>6. 1 - 1 = 0
        OBVIOUS
      <4>7. ~Lasts(up[u], 1 - 1, x)
        BY <4>6, NoPackets
      <4> QED BY <4>5, <4>7
    <3>3. Hopeful(t)' => \A x : Arrives(t, x)' => Mine(t, x)' \/ (x \in D /\ NoClear(t)')
      BY <1>2, <1>4, <1>5, <1>6, <2>4, <3>2 DEF PaintingAt
    <3>4. \A x : (Mine(t, x)' => Arrives(t, x)') /\ NoClear(t)'
      BY <1>2, <1>4, <1>6, <2>4 DEF PaintingAt
    <3> QED BY <2>4, <3>1, <3>3, <3>4 DEF PaintingAt
  <2> QED BY <2>1, <2>2, <2>3, <2>4 DEF Grants
<1>8. ASSUME NEW v \in User PROVE ApartAt(v)'
  <2>1. Holds(down'[v], {"clear"}) => Holds(down[v], {"clear"})
    <3>1. CASE v = t
      BY <1>1, <3>1, HoldsAppended
    <3> QED BY <3>1
  <2>2. CASE v # t \/ p.type # "data"
    <3>1. Holds(down'[v], EditTypes) => Holds(down[v], EditTypes)
      <4>1. CASE v = t /\ p.type # "data"
        BY <4>1, HoldsAppended DEF EditTypes, Bundled
      <4> QED BY <2>2, <4>1
    <3> QED BY <2>1, <3>1, ApartServed DEF Doc
  <2>3. CASE v = t /\ p.type = "data"
    <3>1. \A w \in User : NoClear(w) => NoClear(w)'
      BY NoClearTaken
    <3>2. ApartAt(t) /\ up'[t] = up[t] /\ NoClear(t)'
      BY <1>1, <1>2, <1>4, <2>3 DEF Doc, Served
    <3>3. Holds(up'[t], EditTypes) =>
            ~Holds(down'[t], {"clear"}) /\ \A w \in User \ {t} : NoClear(w)'
      BY <2>1, <2>3, <3>1, <3>2 DEF ApartAt
    <3>4. ClearAhead(t)' => ClearAhead(t)
      <4>1. \A w \in User : Holds(up'[w], {"clear"}) => Holds(up[w], {"clear"})
        BY NothingSent DEF Holds
      <4> QED BY <2>1, <2>3, <4>1 DEF ClearAhead, Coming, ClearDeferred, Served
    <3>5. serializing'[t] # None =>
            ~ClearAhead(t)' /\ (t \in whole' => serializing'[t].items \subseteq items'[t])
      BY <3>2, <3>4 DEF ApartAt, Served
    <3> QED BY <2>3, <3>2, <3>3, <3>5 DEF ApartAt
  <2> QED BY <2>2, <2>3
<1>9. ASSUME NEW z \in User \ strayed, NEW s \in User
      PROVE  /\ NeedsLess(D, D, z) /\ DownFront(z, s)
             /\ DataFor(z, p) => \A x \in Carried(p) : ~Needs(D, z, x)'
  <2>1. NeedsLess(D, D, z)
    <3>1. CASE z = t
      BY <1>4, <3>1 DEF NeedsLess, Needs
    <3> QED BY <1>3, <3>1, NeedsAlike
  <2>2. DownFront(z, s)
    <3>1. CASE s = t
      BY <3>1, FrontAppended DEF RunsFor, Bundled
    <3> QED BY <3>1, FrontSame
  <2>3. DataFor(z, p) => \A x \in Carried(p) : ~Needs(D, z, x)'
    BY <1>4 DEF DataFor, Needs
  <2> QED BY <2>1, <2>2, <2>3
<1> QED BY <1>1, <1>7, <1>8, <1>9, DocServed

(* An edit is cast.                                                         *)
LEMMA DocEdit ==
  ASSUME TypeOK, Conn, Synchronised, NEW D, Doc(D), NEW u \in User, NEW p, Served(u, p),
         p.type \in {"create", "task"},
         \A v \in User :
           \/ down'[v] = down[v] /\ (v = u \/ v \notin room \/ v \notin connected)
           \/ v # u /\ Appended(down'[v], down[v], p)
  PROVE  \E E : Doc(E)'
<1> PICK E : E = D \cup Cast(p)
  OBVIOUS
<1>1. p.type # "clear" /\ ~Wipes(p) /\ ~Asked(p) /\ ~Grants(p) /\ ~Bundled(p) /\ Carried(p) = Cast(p)
  BY PacketBrings DEF Asked, Bundled
<1>2. \A v \in User : v # u => NoClear(v) /\ NoClear(v)'
  <2>1. Holds(up[u], EditTypes)
    BY DEF Served, Holds, EditTypes
  <2> QED BY <2>1, NoClearTaken DEF Doc, ApartAt
<1>3. down'[u] = down[u]
  OBVIOUS
<1>4. /\ \A x : Arrives(u, x)' <=> Arrives(u, x)
      /\ Unasked(u)' <=> Unasked(u)
      /\ NoClear(u)' <=> NoClear(u)
      /\ \A x : Mine(u, x) <=>
           Mine(u, x)' \/ (Unasked(u) /\ x \in Cast(p) /\ Unbarred(up'[u], Len(up'[u])))
      /\ Unbarred(up'[u], Len(up'[u])) => NoClear(u)'
      /\ NoClear(u)' /\ (\A i \in 1 .. Len(up[u]) : up[u][i].type # "syncRequest") =>
           Unbarred(up'[u], Len(up'[u]))
  <2>1. \A x : Arrives(u, x)' <=> Arrives(u, x)
    BY <1>3 DEF Served, Arrives, ArrivesBy, Known, ClearDeferred
  <2>2. Unasked(u)' <=> Unasked(u)
    BY <1>3 DEF Unasked
  <2>3. NoClear(u)' <=> NoClear(u)
    BY <1>1, NoClearTaken
  <2>4. \A x : Mine(u, x) <=>
          Mine(u, x)' \/ (Unasked(u) /\ x \in Cast(p) /\ Unbarred(up'[u], Len(up'[u])))
    BY <2>2, TakenFront DEF Mine
  <2>5. Unbarred(up'[u], Len(up'[u])) => NoClear(u)'
    BY DEF Unbarred, Barrier, NoClear, Clearless
  <2>6. (\A i \in 1 .. Len(up[u]) : up[u][i].type # "syncRequest") =>
          \A i \in 1 .. Len(up'[u]) : up'[u][i].type # "syncRequest"
    BY NothingSent
  <2>7. NoClear(u)' /\ (\A i \in 1 .. Len(up'[u]) : up'[u][i].type # "syncRequest") =>
          Unbarred(up'[u], Len(up'[u]))
    BY DEF Unbarred, Barrier, NoClear, Clearless
  <2> QED BY <2>1, <2>2, <2>3, <2>4, <2>5, <2>6, <2>7
<1>5. ASSUME NEW v \in User, Appended(down'[v], down[v], p), v # u
      PROVE  /\ \A x : Arrives(v, x)' <=> x \in Cast(p) \/ Arrives(v, x)
             /\ \A x : Mine(v, x)' <=> Mine(v, x)
             /\ Unasked(v)' <=> Unasked(v)
             /\ Holder(v)' => Holder(v)
  <2>1. \A x : Arrives(v, x)' <=> x \in Cast(p) \/ Arrives(v, x)
    BY <1>1, <1>5, Delivered
  <2>2. (Unasked(v)' <=> Unasked(v)) /\ (Holder(v)' => Holder(v))
    BY <1>1, <1>5, Delivered
  <2>3. up'[v] = up[v]
    BY <1>5 DEF Served
  <2> QED BY <2>1, <2>2, <2>3 DEF Mine
<1>6. ASSUME NEW v \in User, NEW s \in User, NEW i \in 1 .. Len(down'[s]), RunsFor(v, down'[s][i])
      PROVE  \E j \in 1 .. Len(down[s]) : RunsFor(v, down[s][j])
  <2>1. CASE Appended(down'[s], down[s], p)
    BY <1>6, <2>1 DEF Appended, RunsFor
  <2> QED BY <1>6, <2>1
<1>7. ASSUME NEW v \in User PROVE Hopeful(v)' => Hopeful(v)
  <2>1. ~Unasked(v)' => ~Unasked(v)
    <3>1. CASE v # u /\ Appended(down'[v], down[v], p)
      BY <1>5, <3>1
    <3> QED BY <3>1 DEF Unasked
  <2> QED BY <1>6, <2>1, HopefulServed
<1>8. ASSUME NEW v \in User \ strayed PROVE PaintingAt(E, v)'
  <2>1. CASE v # u /\ Appended(down'[v], down[v], p)
    <3>1. /\ Holder(v) => \A x : Arrives(v, x) <=> Mine(v, x) \/ (x \in D /\ NoClear(v))
          /\ Hopeful(v) => \A x : Arrives(v, x) => Mine(v, x) \/ (x \in D /\ NoClear(v))
          /\ v \in connected => \A x : Mine(v, x) => Arrives(v, x)
      BY DEF Doc, PaintingAt
    <3>2. NoClear(v) /\ NoClear(v)' /\ connected' = connected
      BY <1>2, <2>1 DEF Served
    <3>3. Holder(v)' => \A x : Arrives(v, x)' <=> Mine(v, x)' \/ (x \in E /\ NoClear(v)')
      BY <1>5, <2>1, <3>1, <3>2
    <3>4. Hopeful(v)' => \A x : Arrives(v, x)' => Mine(v, x)' \/ (x \in E /\ NoClear(v)')
      BY <1>5, <1>7, <2>1, <3>1, <3>2
    <3>5. v \in connected' => \A x : Mine(v, x)' => Arrives(v, x)'
      BY <1>5, <2>1, <3>1, <3>2
    <3> QED BY <3>2, <3>3, <3>4, <3>5 DEF PaintingAt
  <2>2. CASE v # u /\ down'[v] = down[v] /\ (v \notin room \/ v \notin connected)
    <3>1. Settled(v) /\ ~Holder(v)
      BY <2>2, OutsideSettled
    <3>2. Alike(v)
      BY <2>2, AlikeTaken
    <3>3. ~Holder(v)' /\ ~Hopeful(v)'
      BY <1>7, <2>2, <3>1, HopefulUnsettled DEF Served, Holder, HolderBy
    <3> QED BY <3>2, <3>3 DEF Doc, PaintingAt, Alike, Served
  <2>3. CASE v = u
    <3>1. /\ Holder(u) => \A x : Arrives(u, x) <=> Mine(u, x) \/ (x \in D /\ NoClear(u))
          /\ Hopeful(u) => \A x : Arrives(u, x) => Mine(u, x) \/ (x \in D /\ NoClear(u))
          /\ u \in connected =>
               \A x : (Mine(u, x) => Arrives(u, x)) /\ (~NoClear(u) /\ Arrives(u, x) => Mine(u, x))
      BY <2>3 DEF Doc, PaintingAt
    <3>2. Holder(u)' => Holder(u)
      BY <1>3 DEF Served, Holder, HolderBy
    <3>3. Holder(u) => Unasked(u) /\ \A i \in 1 .. Len(up[u]) : up[u][i].type # "syncRequest"
      BY HolderSettled DEF Settled
    <3>4. Holder(u)' => \A x : Arrives(u, x)' <=> Mine(u, x)' \/ (x \in E /\ NoClear(u)')
      BY <1>4, <3>1, <3>2, <3>3
    <3>5. Hopeful(u)' => \A x : Arrives(u, x)' => Mine(u, x)' \/ (x \in E /\ NoClear(u)')
      BY <1>4, <1>7, <3>1
    <3>6. u \in connected' =>
            \A x : (Mine(u, x)' => Arrives(u, x)') /\ (~NoClear(u)' /\ Arrives(u, x)' => Mine(u, x)')
      BY <1>4, <3>1 DEF Served
    <3> QED BY <2>3, <3>4, <3>5, <3>6 DEF PaintingAt
  <2> QED BY <2>1, <2>2, <2>3
<1>9. ASSUME NEW v \in User PROVE ApartAt(v)'
  <2>1. CASE v = u
    BY <1>3, <2>1, ApartServed DEF Doc
  <2>2. CASE v # u
    <3>1. Holds(down'[v], {"clear"}) => Holds(down[v], {"clear"})
      <4>1. CASE Appended(down'[v], down[v], p)
        BY <1>1, <4>1, HoldsAppended
      <4> QED BY <4>1
    <3>2. \A w \in User : NoClear(w) => NoClear(w)'
      BY NoClearTaken
    <3>3. ApartAt(v) /\ up'[v] = up[v] /\ NoClear(v)'
      BY <1>2, <2>2 DEF Doc, Served
    <3>4. Holds(up'[v], EditTypes) =>
            ~Holds(down'[v], {"clear"}) /\ \A w \in User \ {v} : NoClear(w)'
      BY <3>1, <3>2, <3>3 DEF ApartAt
    <3>5. ClearAhead(v)' => ClearAhead(v)
      <4>1. \A w \in User : Holds(up'[w], {"clear"}) => Holds(up[w], {"clear"})
        BY NothingSent DEF Holds
      <4> QED BY <3>1, <4>1 DEF ClearAhead, Coming, ClearDeferred, Served
    <3>6. serializing'[v] # None =>
            ~ClearAhead(v)' /\ (v \in whole' => serializing'[v].items \subseteq items'[v])
      BY <3>3, <3>5 DEF ApartAt, Served
    <3> QED BY <3>3, <3>4, <3>6 DEF ApartAt
  <2> QED BY <2>1, <2>2
<1>10. ASSUME NEW z \in User \ strayed, NEW s \in User, Pending(z, s)'
       PROVE  NeedsLess(D, E, z) /\ DownFront(z, s) /\ ~DataFor(z, p)
  <2>1. Pending(z, s)
    BY <1>6, <1>10, PendingServed
  <2>2. /\ z \in connected /\ z \in room /\ Unasked(z)
        /\ \A i \in 1 .. Len(up[z]) : up[z][i].type # "syncRequest"
    BY <2>1, PendingFacts
  <2>3. ASSUME NEW x, Needs(E, z, x)' PROVE Needs(D, z, x)
    <3>1. CASE z # u
      <4>1. Appended(down'[z], down[z], p)
        BY <2>2, <3>1
      <4> QED BY <1>2, <1>5, <2>3, <3>1, <4>1 DEF Needs
    <3>2. CASE z = u
      <4>1. \A y : Mine(u, y) => Arrives(u, y)
        BY <2>2, <3>2 DEF Doc, PaintingAt
      <4>2. x \in E /\ NoClear(u)' /\ ~Arrives(u, x)'
        BY <2>3, <3>2 DEF Needs
      <4> QED BY <1>4, <2>2, <3>2, <4>1, <4>2 DEF Needs
    <3> QED BY <3>1, <3>2
  <2>4. NeedsLess(D, E, z)
    BY <2>3 DEF NeedsLess
  <2>5. DownFront(z, s)
    <3>1. CASE Appended(down'[s], down[s], p)
      BY <3>1, FrontAppended DEF RunsFor
    <3> QED BY <3>1, FrontSame
  <2> QED BY <2>4, <2>5 DEF DataFor
<1>11. Doc(E)'
  BY <1>1, <1>8, <1>9, <1>10, DocServed
<1> QED BY <1>11

(* A clear is cast: nothing of the painting is left.                        *)
LEMMA DocCleared ==
  ASSUME TypeOK, Conn, Synchronised, NEW D, Doc(D), NEW u \in User, NEW p, Served(u, p),
         p.type = "clear",
         \A v \in User :
           \/ down'[v] = down[v] /\ (v = u \/ v \notin room \/ v \notin connected)
           \/ v # u /\ Appended(down'[v], down[v], p)
  PROVE  Doc({})'
<1>1. Wipes(p) /\ ~Grants(p) /\ Cast(p) = {} /\ Carried(p) = {} /\ p.type \notin EditTypes
  BY PacketBrings DEF Wipes, EditTypes
<1>2. ~NoClear(u) /\ Holds(up[u], {"clear"})
  BY DEF Served, NoClear, Clearless, Holds
<1>3. ASSUME NEW v \in User, v # u
      PROVE  ~Holds(up[v], EditTypes) /\ serializing[v] = None /\ up'[v] = up[v]
  <2>1. ApartAt(v)
    BY DEF Doc
  <2>2. ~Holds(up[v], EditTypes)
    BY <1>2, <1>3, <2>1 DEF ApartAt
  <2>3. ClearAhead(v)
    BY <1>2, <1>3 DEF ClearAhead, Coming
  <2> QED BY <1>3, <2>1, <2>2, <2>3 DEF ApartAt, Served
<1>4. down'[u] = down[u]
  OBVIOUS
<1>5. ASSUME NEW v \in User PROVE Hopeful(v)' => Hopeful(v) \/ Appended(down'[v], down[v], p)
  <2>1. ASSUME NEW s \in User, NEW i \in 1 .. Len(down'[s]), RunsFor(v, down'[s][i])
        PROVE  \E j \in 1 .. Len(down[s]) : RunsFor(v, down[s][j])
    <3>1. CASE Appended(down'[s], down[s], p)
      BY <2>1, <3>1 DEF Appended, RunsFor
    <3> QED BY <2>1, <3>1
  <2>2. CASE down'[v] = down[v]
    <3>1. ~Unasked(v)' => ~Unasked(v)
      BY <2>2 DEF Unasked
    <3> QED BY <2>1, <3>1, HopefulServed
  <2> QED BY <2>2
<1>6. ASSUME NEW v \in User \ strayed PROVE PaintingAt({}, v)'
  <2>1. CASE v # u /\ Appended(down'[v], down[v], p)
    <3>1. \A x : ~Arrives(v, x)'
      BY <1>1, <2>1, Delivered
    <3>2. \A x : ~Mine(v, x)'
      <4>1. \A x : ~Lasts(up'[v], Len(up'[v]), x)
        <5>1. \A i \in 1 .. Len(up[v]) : up[v][i].type \notin {"create", "task"}
          BY <1>3, <2>1 DEF Holds, EditTypes
        <5>2. \A i \in 1 .. Len(up'[v]) : Cast(up'[v][i]) = {}
          BY <1>3, <2>1, <5>1, PacketBrings
        <5> QED BY <5>2 DEF Lasts
      <4> QED BY <4>1 DEF Mine
    <3> QED BY <3>1, <3>2 DEF PaintingAt
  <2>2. CASE v # u /\ down'[v] = down[v] /\ (v \notin room \/ v \notin connected)
    <3>1. Settled(v) /\ ~Holder(v) /\ Len(down[v]) = 0
      BY <2>2, OutsideSettled
    <3>2. Alike(v)
      BY <2>2, AlikeTaken
    <3>3. ~Hopeful(v)
      BY <3>1, HopefulUnsettled
    <3>4. ~Appended(down'[v], down[v], p)
      BY <2>2 DEF Appended
    <3>5. ~Holder(v)' /\ ~Hopeful(v)'
      BY <1>5, <2>2, <3>1, <3>3, <3>4 DEF Served, Holder, HolderBy
    <3> QED BY <3>2, <3>5 DEF Doc, PaintingAt, Alike, Served
  <2>3. CASE v = u
    <3>1. \A x : Arrives(u, x)' <=> Arrives(u, x)
      BY <1>4 DEF Served, Arrives, ArrivesBy, Known, ClearDeferred
    <3>2. Unasked(u)' <=> Unasked(u)
      BY <1>4 DEF Unasked
    <3>3. \A x : Mine(u, x)' <=> Mine(u, x)
      BY <1>1, <3>2, TakenFront DEF Mine
    <3>4. /\ Holder(u) => \A x : Arrives(u, x) <=> Mine(u, x)
          /\ Hopeful(u) => \A x : Arrives(u, x) => Mine(u, x)
          /\ u \in connected => \A x : Arrives(u, x) <=> Mine(u, x)
      BY <1>2, <2>3 DEF Doc, PaintingAt
    <3>5. ~Appended(down'[u], down[u], p)
      BY <1>4 DEF Appended
    <3>6. (Holder(u)' => Holder(u)) /\ (Hopeful(u)' => Hopeful(u)) /\ connected' = connected
      BY <1>4, <1>5, <3>5 DEF Served, Holder, HolderBy
    <3> QED BY <2>3, <3>1, <3>3, <3>4, <3>6 DEF PaintingAt
  <2> QED BY <2>1, <2>2, <2>3
<1>7. ASSUME NEW v \in User PROVE ApartAt(v)'
  <2>1. CASE v = u
    BY <1>4, <2>1, ApartServed DEF Doc
  <2>2. CASE v # u
    <3>1. Holds(down'[v], EditTypes) => Holds(down[v], EditTypes)
      <4>1. CASE Appended(down'[v], down[v], p)
        BY <1>1, <4>1, HoldsAppended
      <4> QED BY <4>1
    <3>2. Holds(down'[v], EditTypes) => NoClear(v)'
      BY <3>1, NoClearTaken DEF Doc, ApartAt
    <3>3. ~Holds(up'[v], EditTypes) /\ serializing'[v] = None
      BY <1>3, <2>2 DEF Served
    <3> QED BY <3>2, <3>3 DEF ApartAt
  <2> QED BY <2>1, <2>2
<1>8. ASSUME NEW z \in User \ strayed, NEW s \in User
      PROVE  ToRead({}, z, s)' /\ Reading({}, z, s)' /\ OnItsWay({}, z, s)'
  <2>1. \A x : ~Needs({}, z, x)'
    BY DEF Needs
  <2>2. ToRead({}, z, s)' /\ Reading({}, z, s)'
    BY <2>1 DEF ToRead, Reading
  <2>3. CASE s = u
    BY <2>2, <2>3, OnItsWayCleared DEF Doc, Served
  <2>4. CASE s # u
    <3>1. \A i \in 1 .. Len(up'[s]) : up'[s][i].type # "data"
      BY <1>3, <2>4 DEF Holds, EditTypes
    <3>2. OnItsWay({}, z, s)'
      BY <2>1, <3>1 DEF OnItsWay, DataFor
    <3> QED BY <2>2, <3>2
  <2> QED BY <2>3, <2>4
<1>9. strayed' = strayed
  BY DEF Served
<1> QED BY <1>6, <1>7, <1>8, <1>9 DEF Doc

LEMMA DocServer ==
  ASSUME TypeOK, Conn, Synchronised, NEW D, Doc(D), NEW u \in User, ServerHandles(u)
  PROVE  \E E : Doc(E)'
<1>1. PICK p : p = up[u][1] /\ ServerEffect(u, p)
  BY ServerCases
<1>2. Served(u, p)
  BY <1>1, IsServed
<1>3. CASE p.type = "join"
  BY <1>1, <1>3, DocJoined
<1>4. CASE p.type = "left"
  <2>1. down' = down
    BY <1>1, <1>4 DEF ServerEffect
  <2>2. Doc(D)'
    BY <1>2, <1>4, <2>1, DocLeft DEF DataFor
  <2> QED BY <2>2
<1>5. CASE p.type = "syncRequest"
  <2>1. CASE down' = down
    <3>1. Doc(D)'
      BY <1>2, <1>5, <2>1, DocLeft DEF DataFor
    <3> QED BY <3>1
  <2>2. ASSUME NEW w \in room \ {u}, down' = Written({w}, [type |-> "runSync", target |-> u])
        PROVE  \E E : Doc(E)'
    <3>1. PICK q : q = [type |-> "runSync", target |-> u]
      OBVIOUS
    <3>2. q \in FromServer /\ down' = Written({w}, q)
      BY <2>2, <3>1 DEF FromServer
    <3>3. w \in User \ {u}
      BY DEF TypeOK
    <3>4. \A v \in User : down'[v] = down[v] \/ (v = w /\ Appended(down'[v], down[v], q))
      BY <3>2, WrittenTo
    <3>5. /\ down'[w] = down[w] \/ Appended(down'[w], down[w], q)
          /\ \A v \in User : v # w => down'[v] = down[v]
      BY <3>3, <3>4
    <3>6. Doc(D)'
      BY <1>2, <1>5, <3>1, <3>3, <3>5, DocAsks
    <3> QED BY <3>6
  <2>3. down' = down \/ \E w \in room \ {u} : down' = Written({w}, [type |-> "runSync", target |-> u])
    BY <1>1, <1>5 DEF ServerEffect
  <2> QED BY <2>1, <2>2, <2>3
<1>6. CASE Bundled(p)
  <2>1. down' = Written({p.target} \cap room, p) /\ p \in FromServer
    BY <1>1, <1>6 DEF ServerEffect
  <2>2. PICK t \in User : p.target = t
    <3>1. p \in UpOver(Key)
      BY <1>1 DEF ServerEffect, UpOver, EditOver, SyncOver, ToServer, Edit, SyncPacket
    <3> QED BY <1>6, <3>1, UpPacket DEF Bundled
  <2>3. \A v \in User :
          \/ down'[v] = down[v] /\ ~(v \in {p.target} \cap room /\ v \in connected)
          \/ v \in {p.target} \cap room /\ v \in connected /\ Appended(down'[v], down[v], p)
    BY <2>1, WrittenTo
  <2>4. CASE Appended(down'[t], down[t], p)
    <3>1. \A v \in User : v # t => down'[v] = down[v]
      BY <2>2, <2>3
    <3>2. Doc(D)'
      BY <1>2, <1>6, <2>2, <2>4, <3>1, DocBundled
    <3> QED BY <3>2
  <2>5. CASE ~Appended(down'[t], down[t], p)
    <3>1. /\ \A v \in User : down'[v] = down[v]
          /\ t \notin room \/ t \notin connected
      BY <2>2, <2>3, <2>5
    <3>2. t \in strayed
      <4>1. Pending(t, u)
        BY <1>2, <1>6, <2>2 DEF Served, Pending
      <4> QED BY <3>1, <4>1, PendingFacts
    <3>3. Doc(D)'
      BY <1>2, <1>6, <2>2, <3>1, <3>2, DocLeft DEF DataFor, Bundled
    <3> QED BY <3>3
  <2> QED BY <2>4, <2>5
<1>7. CASE p.type \in {"create", "task", "clear"}
  <2>1. down' = Written(room \ {u}, p) /\ p \in FromServer
    BY <1>1, <1>7 DEF ServerEffect
  <2>2. \A v \in User :
          \/ down'[v] = down[v] /\ ~(v \in room \ {u} /\ v \in connected)
          \/ v \in room \ {u} /\ v \in connected /\ Appended(down'[v], down[v], p)
    BY <2>1, WrittenTo
  <2>3. \A v \in User :
          \/ down'[v] = down[v] /\ (v = u \/ v \notin room \/ v \notin connected)
          \/ v # u /\ Appended(down'[v], down[v], p)
    BY <2>2
  <2>4. CASE p.type = "clear"
    <3>1. Doc({})'
      BY <1>2, <2>3, <2>4, DocCleared
    <3> QED BY <3>1
  <2>5. CASE p.type \in {"create", "task"}
    BY <1>2, <2>3, <2>5, DocEdit
  <2> QED BY <1>7, <2>4, <2>5
<1> QED BY <1>1, <1>3, <1>4, <1>5, <1>6, <1>7 DEF ServerEffect, Bundled

-----------------------------------------------------------------------------
(***************************************************************************)
(* All together.                                                           *)
(***************************************************************************)
SharedInv == Conn /\ Synchronised /\ (~crossed => \E D : Doc(D))

LEMMA SharedInit ==
  ASSUME PaintSharingAssumption, Init
  PROVE  SharedInv
<1>1. /\ \A u \in User : /\ up[u] = <<>> /\ down[u] = <<>> /\ deferred[u] = <<>>
                         /\ serializing[u] = None /\ syncStartedFlag[u] = FALSE
      /\ connected = Member /\ room = Member /\ whole = Member /\ strayed = {}
      /\ Member \subseteq User /\ None.target = {}
  BY DEF Init, PaintSharingAssumption, None
<1>2. \A u \in User : /\ Len(up[u]) = 0 /\ Len(down[u]) = 0
                      /\ \A i \in 1 .. Len(up[u]) : FALSE
                      /\ \A i \in 1 .. Len(down[u]) : FALSE
  BY <1>1
<1>3. Conn
  BY <1>1, <1>2 DEF Conn, Line
<1>4. Synchronised
  <2>1. ASSUME NEW z \in User PROVE Steps(z, "none", z)
    BY <1>1, <1>2, StepsNone
  <2> QED BY <2>1 DEF Synchronised, Stage
<1>5. PICK D : D = Content({t.key : t \in Range(FirstTask)}, FirstTask)
  OBVIOUS
<1>6. ASSUME NEW u \in User
      PROVE  /\ ~ClearDeferred(u) /\ NoClear(u) /\ Settled(u) /\ ~Hopeful(u)
             /\ \A x : ~Mine(u, x) /\ (Arrives(u, x) <=> x \in Known(u))
             /\ \A T : ~Holds(up[u], T) /\ ~Holds(down[u], T)
             /\ Holder(u) => u \in Member
             /\ u \in Member => Known(u) = D
  <2>1. ~ClearDeferred(u)
    BY <1>1 DEF ClearDeferred, Range
  <2>2. Settled(u)
    BY <1>1, <1>2 DEF Settled, Unasked
  <2>3. ~Hopeful(u)
    BY <2>2, HopefulUnsettled
  <2>4. NoClear(u) /\ \A T : ~Holds(up[u], T) /\ ~Holds(down[u], T)
    BY <1>2 DEF NoClear, Clearless, Holds
  <2>5. \A x : ~Mine(u, x)
    BY <1>2, NoPackets DEF Mine
  <2>6. \A x : Arrives(u, x) <=> x \in Known(u)
    BY <1>2, <2>1, NoPackets DEF Arrives, ArrivesBy
  <2>7. Holder(u) => u \in Member
    BY <1>1, <1>2 DEF Holder, HolderBy
  <2>8. u \in Member => Known(u) = D
    <3>1. u \in Member => items[u] = {t.key : t \in Range(FirstTask)} /\ tasks[u] = FirstTask
      BY DEF Init
    <3> QED BY <1>5, <3>1 DEF Known
  <2> QED BY <2>1, <2>2, <2>3, <2>4, <2>5, <2>6, <2>7, <2>8
<1>7. ASSUME NEW v \in User PROVE PaintingAt(D, v)
  BY <1>6 DEF PaintingAt
<1>8. ASSUME NEW v \in User PROVE ApartAt(v)
  BY <1>1, <1>6 DEF ApartAt
<1>9. ASSUME NEW z \in User, NEW s \in User
      PROVE  ToRead(D, z, s) /\ Reading(D, z, s) /\ OnItsWay(D, z, s)
  BY <1>6, SettledIdle, PathIdle
<1>10. Doc(D)
  BY <1>7, <1>8, <1>9 DEF Doc
<1> QED BY <1>3, <1>4, <1>10 DEF SharedInv

(* What moves on no connection.                                             *)
LEMMA NetIdle ==
  ASSUME TypeOK, Conn, Synchronised,
         UNCHANGED <<up, down, connected, room, whole, strayed, serializing, syncStartedFlag>>
  PROVE  Conn' /\ Synchronised'
<1>1. Conn'
  <2>1. ASSUME NEW u \in User PROVE Line(u)'
    BY DEF Conn, Line, UpFits, DownFits, Joining
  <2> QED BY <2>1 DEF Conn
<1>2. ASSUME NEW z \in User \ strayed, NEW a, NEW s, Steps(z, a, s)
      PROVE  Steps(z, a, s)'
  <2>1. \A v \in User : UpLess(z, v) /\ DownLess(z, v)
    BY Lens, LessSame
  <2> QED BY <1>2, <2>1, StepsLess DEF Steps
<1>3. strayed' = strayed
  OBVIOUS
<1>4. Synchronised'
  BY <1>2, <1>3 DEF Synchronised
<1> QED BY <1>1, <1>4

LEMMA DocIdle ==
  ASSUME TypeOK, NEW D, Doc(D), UNCHANGED vars
  PROVE  Doc(D)'
<1>1. UNCHANGED <<items, tasks, deferred, serializing, up, down, connected, whole, strayed>>
  BY DEF vars, client, net, aux
<1>2. ASSUME NEW v \in User PROVE Alike(v) /\ NeedsLess(D, D, v)
  <2>1. Alike(v)
    BY <1>1, UntouchedAlike DEF Untouched
  <2> QED BY <2>1, NeedsAlike
<1>3. ASSUME NEW v \in User \ strayed PROVE PaintingAt(D, v)'
  <2>1. (Holder(v)' => Holder(v)) /\ (Hopeful(v)' => Hopeful(v))
    BY <1>1 DEF Holder, HolderBy, Hopeful, Unasked
  <2> QED BY <1>1, <1>2, <2>1, PaintingAlike DEF Doc
<1>4. ASSUME NEW v \in User PROVE ApartAt(v)'
  <2>1. \A w \in User : NoClear(w) => NoClear(w)'
    BY <1>2 DEF Alike
  <2> QED BY <1>1, <2>1, ApartLess DEF Doc, ClearDeferred
<1>5. ASSUME NEW z \in User \ strayed, NEW s \in User
      PROVE  ToRead(D, z, s)' /\ Reading(D, z, s)' /\ OnItsWay(D, z, s)'
  <2>1. UpFront(z, s) /\ DownFront(z, s) /\ (NoClear(s)' <=> NoClear(s))
    BY <1>1, <1>2, FrontSame DEF Alike
  <2>2. ToRead(D, z, s)'
    <3>1. (ClearDeferred(s)' <=> ClearDeferred(s)) /\ Known(s)' = Known(s)
      BY <1>1 DEF ClearDeferred, Known
    <3> QED BY <1>1, <1>2, <2>1, <3>1, ToReadFrame DEF Doc
  <2>3. Reading(D, z, s)'
    BY <1>1, <1>2, <2>1, ReadingFrame DEF Doc
  <2> QED BY <1>2, <2>1, <2>2, <2>3, OnItsWayFrame DEF Doc
<1> QED BY <1>1, <1>3, <1>4, <1>5 DEF Doc

(* The edits and clears a client writes.                                    *)
LEMMA EditsSent ==
  ASSUME TypeOK, Conn, Synchronised, NEW u \in User, NEW r \in Seq(ToServer), Sent(u, r),
         \A i \in 1 .. Len(r) : r[i].type \in {"create", "task", "clear"},
         UNCHANGED <<syncStartedFlag, serializing, connected, down, room, whole, strayed>>
  PROVE  Conn' /\ Synchronised'
<1>1. \A i \in 1 .. Len(r) : r[i].type \notin {"join", "left"} /\ ~Bundled(r[i])
  BY DEF Bundled
<1>2. Conn'
  BY <1>1, ConnSends
<1>3. Synchronised'
  BY SyncSends DEF Edits
<1> QED BY <1>2, <1>3

LEMMA EditStep ==
  ASSUME TypeOK, SharedInv, NEW u \in User, NEW C, NEW r, EditEffect(u, C, r)
  PROVE  SharedInv'
<1>1. Conn /\ Synchronised /\ (~crossed' => ~crossed)
  BY DEF SharedInv, EditEffect
<1>2. Conn' /\ Synchronised'
  <2>1. /\ r \in Seq(ToServer) /\ Sent(u, r)
        /\ \A i \in 1 .. Len(r) : r[i].type \in {"create", "task", "clear"}
        /\ UNCHANGED <<syncStartedFlag, serializing, connected, down, room, whole, strayed>>
    BY DEF EditEffect
  <2> QED BY <1>1, <2>1, EditsSent
<1>3. ASSUME ~crossed' PROVE \E D : Doc(D)'
  <2>1. PICK D : Doc(D)
    BY <1>1, <1>3 DEF SharedInv
  <2>2. Doc(D)'
    BY <1>1, <1>3, <2>1, DocEdits
  <2> QED BY <2>2
<1> QED BY <1>2, <1>3 DEF SharedInv

LEMMA ClearStep ==
  ASSUME TypeOK, SharedInv, NEW u \in User, ClearScreen(u)
  PROVE  SharedInv'
<1>1. Conn /\ Synchronised /\ (~crossed' => ~crossed)
  BY DEF SharedInv, ClearScreen
<1>2. Conn' /\ Synchronised'
  <2>1. PICK c : c = [type |-> "clear"]
    OBVIOUS
  <2>2. PICK r : r = <<c>>
    OBVIOUS
  <2>3. c \in ToServer /\ c.type = "clear"
    BY <2>1 DEF ToServer, Clearing
  <2>4. r \in Seq(ToServer) /\ Len(r) = 1 /\ r[1] = c
    BY <2>2, <2>3
  <2>5. \A i \in 1 .. Len(r) : r[i].type \in {"create", "task", "clear"}
    BY <2>3, <2>4
  <2>6. Sent(u, r)
    BY <2>1, <2>2 DEF ClearScreen
  <2>7. UNCHANGED <<syncStartedFlag, serializing, connected, down, room, whole, strayed>>
    BY DEF ClearScreen
  <2> QED BY <1>1, <2>4, <2>5, <2>6, <2>7, EditsSent
<1>3. ASSUME ~crossed' PROVE \E D : Doc(D)'
  <2>1. PICK D : Doc(D)
    BY <1>1, <1>3 DEF SharedInv
  <2>2. Doc(D)'
    BY <1>1, <1>3, <2>1, DocClear
  <2> QED BY <2>2
<1> QED BY <1>2, <1>3 DEF SharedInv

LEMMA ConnectStep ==
  ASSUME TypeOK, SharedInv, NEW u \in User, RequestJoin(u) \/ Reconnect(u)
  PROVE  SharedInv'
<1>1. /\ Connect(u) /\ whole' \subseteq whole /\ UNCHANGED <<serializing, deferred>>
      /\ \A v \in User : /\ syncStartedFlag'[v] => syncStartedFlag[v]
                         /\ v # u => items'[v] = items[v] /\ tasks'[v] = tasks[v]
  BY DEF RequestJoin, Reconnect, client, TypeOK
<1>2. crossed' = crossed
  BY <1>1 DEF Connect
<1>3. Conn /\ Synchronised
  BY DEF SharedInv
<1>4. Conn'
  BY <1>1, <1>3, ConnConnects
<1>5. Synchronised'
  BY <1>1, <1>3, SyncConnects
<1>6. ASSUME ~crossed' PROVE \E D : Doc(D)'
  <2>1. PICK D : Doc(D)
    BY <1>2, <1>6 DEF SharedInv
  <2>2. Doc(D)'
    BY <1>1, <1>3, <2>1, DocConnects
  <2> QED BY <2>2
<1> QED BY <1>4, <1>5, <1>6 DEF SharedInv

LEMMA BreakStep ==
  ASSUME TypeOK, SharedInv, NEW u \in User, Break(u)
  PROVE  SharedInv'
<1>1. Conn /\ Synchronised /\ crossed' = crossed
  BY DEF SharedInv, Break
<1>2. Conn' /\ Synchronised'
  BY <1>1, ConnBreak, SyncBreak
<1>3. ASSUME ~crossed' PROVE \E D : Doc(D)'
  <2>1. PICK D : Doc(D)
    BY <1>1, <1>3 DEF SharedInv
  <2>2. Doc(D)'
    BY <1>1, <2>1, DocBreak
  <2> QED BY <2>2
<1> QED BY <1>2, <1>3 DEF SharedInv

LEMMA ServerStep ==
  ASSUME TypeOK, SharedInv, NEW u \in User, ServerHandles(u)
  PROVE  SharedInv'
<1>1. Conn /\ Synchronised /\ crossed' = crossed
  BY DEF SharedInv, ServerHandles, aux
<1>2. Conn' /\ Synchronised'
  BY <1>1, ConnServer, SyncServer
<1>3. ASSUME ~crossed' PROVE \E D : Doc(D)'
  <2>1. PICK D : Doc(D)
    BY <1>1, <1>3 DEF SharedInv
  <2> QED BY <1>1, <2>1, DocServer
<1> QED BY <1>2, <1>3 DEF SharedInv

LEMMA ReceiveStep ==
  ASSUME TypeOK, SharedInv, NEW u \in User, Receive(u)
  PROVE  SharedInv'
<1>1. Conn /\ Synchronised
  BY DEF SharedInv
<1>2. ~crossed' => ~crossed
  <2>1. PICK p : ReceiveEffect(u, p)
    BY ReceiveCases
  <2>2. /\ p.type \in {"resJoin", "runSync", "create", "task", "clear", "start", "data", "complete"}
        /\ p.type = "resJoin" => HandleResJoin(u, p.first)
        /\ p.type = "runSync" => HandleRunSync(u, p.target)
        /\ p.type = "start" => HandleStart(u, p.runner)
        /\ p.type = "complete" => HandleComplete(u, p.whole)
        /\ p.type = "create" => HandleEdits(u, {p.key}, <<>>)
        /\ p.type = "task" => HandleEdits(u, {}, <<p.task>>)
        /\ p.type = "data" => HandleEdits(u, p.items, p.tasks)
        /\ p.type = "clear" => HandleClear(u)
    BY <2>1 DEF ReceiveEffect
  <2>3. p.type \in {"resJoin", "start", "complete", "clear"} => crossed' = crossed
    BY <2>2 DEF HandleResJoin, HandleStart, HandleComplete, HandleClear
  <2>4. p.type \in {"runSync", "create", "task", "data"} => (~crossed' => ~crossed)
    BY <2>2 DEF HandleRunSync, HandleEdits
  <2> QED BY <2>2, <2>3, <2>4
<1>3. Conn' /\ Synchronised'
  BY <1>1, ConnReceive, SyncReceive
<1>4. ASSUME ~crossed' PROVE \E D : Doc(D)'
  <2>1. PICK D : Doc(D)
    BY <1>2, <1>4 DEF SharedInv
  <2>2. Doc(D)'
    BY <1>1, <1>4, <2>1, DocReceive
  <2> QED BY <2>2
<1> QED BY <1>3, <1>4 DEF SharedInv

LEMMA PackageStep ==
  ASSUME TypeOK, SharedInv, NEW u \in User, SendPackage(u)
  PROVE  SharedInv'
<1>1. Conn /\ Synchronised /\ (~crossed' => ~crossed)
  BY DEF SharedInv, SendPackage
<1>2. PICK t, r : PackageEffect(u, t, r)
  BY PackageCases
<1>3. Conn'
  <2>1. /\ r \in Seq(ToServer) /\ Sent(u, r) /\ t \in serializing[u].target
        /\ \A i \in 1 .. Len(r) : Bundled(r[i]) /\ r[i].target = t
        /\ serializing'[u] = None /\ \A v \in User : v # u => serializing'[v] = serializing[v]
        /\ UNCHANGED <<connected, down, room, whole, strayed>>
    BY <1>2 DEF PackageEffect, Packed
  <2>2. t # u
    BY <1>1, <2>1 DEF Conn, Line
  <2>3. \A i \in 1 .. Len(r) : r[i].type \notin {"join", "left"} /\ r[i].target # u
    BY <2>1, <2>2 DEF Bundled
  <2>4. \A v \in User : serializing'[v].target \subseteq serializing[v].target
    BY <2>1 DEF None
  <2> QED BY <1>1, <2>1, <2>3, <2>4, ConnSends
<1>4. Synchronised'
  BY <1>1, SyncSendPackage
<1>5. ASSUME ~crossed' PROVE \E D : Doc(D)'
  <2>1. PICK D : Doc(D)
    BY <1>1, <1>5 DEF SharedInv
  <2>2. Doc(D)'
    BY <1>1, <1>2, <1>5, <2>1, DocSendPackage
  <2> QED BY <2>2
<1> QED BY <1>3, <1>4, <1>5 DEF SharedInv

LEMMA DeferredStep ==
  ASSUME TypeOK, SharedInv, NEW u \in User, RunDeferred(u)
  PROVE  SharedInv'
<1>1. Conn /\ Synchronised /\ crossed' = crossed
  BY DEF SharedInv, RunDeferred, aux
<1>2. Conn' /\ Synchronised'
  <2>1. UNCHANGED <<up, down, connected, room, whole, strayed, serializing, syncStartedFlag>>
    BY DEF RunDeferred, net, aux
  <2> QED BY <1>1, <2>1, NetIdle
<1>3. ASSUME ~crossed' PROVE \E D : Doc(D)'
  <2>1. PICK D : Doc(D)
    BY <1>1, <1>3 DEF SharedInv
  <2>2. Doc(D)'
    BY <2>1, DocRunDeferred
  <2> QED BY <2>2
<1> QED BY <1>2, <1>3 DEF SharedInv

LEMMA IdleStep ==
  ASSUME TypeOK, SharedInv, UNCHANGED vars
  PROVE  SharedInv'
<1>1. Conn /\ Synchronised /\ crossed' = crossed
  BY DEF SharedInv, vars, aux
<1>2. Conn' /\ Synchronised'
  <2>1. UNCHANGED <<up, down, connected, room, whole, strayed, serializing, syncStartedFlag>>
    BY DEF vars, client, net, aux
  <2> QED BY <1>1, <2>1, NetIdle
<1>3. ASSUME ~crossed' PROVE \E D : Doc(D)'
  <2>1. PICK D : Doc(D)
    BY <1>1, <1>3 DEF SharedInv
  <2>2. Doc(D)'
    BY <2>1, DocIdle
  <2> QED BY <2>2
<1> QED BY <1>2, <1>3 DEF SharedInv

LEMMA SharedStep ==
  ASSUME TypeOK, TypeOK', SharedInv, [Next]_vars
  PROVE  SharedInv'
<1>1. CASE UNCHANGED vars
  BY <1>1, IdleStep
<1>2. ASSUME NEW u \in User, Gestures(u) \/ Break(u) \/ Reconnect(u) \/ Progress(u)
      PROVE  SharedInv'
  <2>1. CASE AddItem(u)
    BY <2>1, AddItemCases, EditStep
  <2>2. CASE \E k \in Key : EditItem(u, k)
    BY <2>2, EditItemCases, EditStep
  <2>3. CASE ClearScreen(u)
    BY <2>3, ClearStep
  <2>4. CASE RequestJoin(u) \/ Reconnect(u)
    BY <2>4, ConnectStep
  <2>5. CASE Break(u)
    BY <2>5, BreakStep
  <2>6. CASE ServerHandles(u)
    BY <2>6, ServerStep
  <2>7. CASE Receive(u)
    BY <2>7, ReceiveStep
  <2>8. CASE SendPackage(u)
    BY <2>8, PackageStep
  <2>9. CASE RunDeferred(u)
    BY <2>9, DeferredStep
  <2> QED BY <1>2, <2>1, <2>2, <2>3, <2>4, <2>5, <2>6, <2>7, <2>8, <2>9 DEF Gestures, Progress
<1> QED BY <1>1, <1>2 DEF Next

(* Nothing is on its way: who is whole knows D, and nothing else.           *)
LEMMA RestShared ==
  ASSUME TypeOK, SharedInv
  PROVE  SharedAtRest
<1> SUFFICES ASSUME Quiet, ~crossed, NEW u \in whole \cap room, NEW v \in whole \cap room
             PROVE  Same(u, v)
  BY DEF SharedAtRest
<1>1. PICK D : Doc(D)
  BY DEF SharedInv
<1>2. ASSUME NEW w \in whole PROVE \A x : x \in Known(w) <=> x \in D
  <2>1. w \in User /\ w \notin strayed
    BY DEF TypeOK, SharedInv, Conn
  <2>2. Len(up[w]) = 0 /\ Len(down[w]) = 0 /\ deferred[w] = <<>>
    BY <2>1 DEF Quiet
  <2>3. ~ClearDeferred(w) /\ Holder(w)
    BY <2>1, <2>2 DEF ClearDeferred, Range, Holder, HolderBy
  <2>4. NoClear(w) /\ \A x : ~Mine(w, x) /\ (Arrives(w, x) <=> x \in Known(w))
    BY <2>2, <2>3, NoPackets DEF NoClear, Mine, Arrives, ArrivesBy
  <2>5. \A x : Arrives(w, x) <=> Mine(w, x) \/ (x \in D /\ NoClear(w))
    BY <1>1, <2>1, <2>3 DEF Doc, PaintingAt
  <2> QED BY <2>4, <2>5
<1>3. Known(u) = Known(v)
  <2>1. \A x : x \in Known(u) <=> x \in Known(v)
    BY <1>2
  <2>2. Known(u) \subseteq Known(v) /\ Known(v) \subseteq Known(u)
    BY <2>1
  <2> QED BY <2>2
<1> QED BY <1>3, ContentSame DEF Known, Same

(* At rest, unless a clear crossed an edit, all members who began the       *)
(* painting or were synchronised by one who had it know the same items and  *)
(* tasks, however many users join, break off, come back, paint and clear    *)
(* while others are being synchronised.                                     *)
THEOREM SharedTheorem == Spec => []SharedAtRest
<1>1. Init => SharedInv
  BY SharedInit, PaintSharingAssumption
<1>2. TypeOK /\ TypeOK' /\ SharedInv /\ [Next]_vars => SharedInv'
  BY SharedStep
<1>3. TypeOK /\ SharedInv => SharedAtRest
  BY RestShared
<1> QED BY <1>1, <1>2, <1>3, SharingTypeCorrect, PTL DEF Spec

(* A user who has not strayed is synchronised by one client at a time, and  *)
(* while he is, he does not ask for it again.                               *)
OneSynchroniser ==
  \A z \in User \ strayed : \A s \in User : Pending(z, s) =>
    /\ \A t \in User : Pending(z, t) => t = s
    /\ \A i \in 1 .. Len(up[z]) : up[z][i].type # "syncRequest"

LEMMA OnePending ==
  ASSUME TypeOK, SharedInv
  PROVE  OneSynchroniser
<1>1. Conn /\ Synchronised
  BY DEF SharedInv
<1>2. ASSUME NEW z \in User \ strayed, NEW s \in User, Pending(z, s), NEW t \in User, Pending(z, t)
      PROVE  t = s
  <2>1. PICK a \in Stage, w \in User : Steps(z, a, w)
    BY <1>1 DEF Synchronised
  <2>2. ASSUME NEW v \in User, Pending(z, v) PROVE v = w
    <3>1. CASE z \in serializing[v].target
      BY <2>1, <3>1 DEF Steps
    <3>2. ASSUME NEW i \in 1 .. Len(down[v]), RunsFor(z, down[v][i]) PROVE v = w
      <4>1. DownStage(z, a, w, v, i)
        BY <2>1 DEF Steps
      <4> QED BY <3>2, <4>1 DEF DownStage, DownMatters, RunsFor
    <3>3. ASSUME NEW i \in 1 .. Len(up[v]), Bundled(up[v][i]), up[v][i].target = z PROVE v = w
      <4>1. UpStage(z, a, w, v, i)
        BY <2>1 DEF Steps
      <4> QED BY <3>3, <4>1 DEF UpStage, UpMatters
    <3> QED BY <2>2, <3>1, <3>2, <3>3 DEF Pending
  <2> QED BY <1>2, <2>2
<1> QED BY <1>1, <1>2, PendingFacts DEF OneSynchroniser

(* However packets and joins interleave, the server has at most one client  *)
(* read its painting for a newcomer whose connection has held.              *)
THEOREM OneSynchroniserTheorem == Spec => []OneSynchroniser
<1>1. Init => SharedInv
  BY SharedInit, PaintSharingAssumption
<1>2. TypeOK /\ TypeOK' /\ SharedInv /\ [Next]_vars => SharedInv'
  BY SharedStep
<1>3. TypeOK /\ SharedInv => OneSynchroniser
  BY OnePending
<1> QED BY <1>1, <1>2, <1>3, SharingTypeCorrect, PTL DEF Spec
=============================================================================
