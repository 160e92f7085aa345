-------------------------- MODULE RelayRoomProofs --------------------------
(***************************************************************************)
(* Proofs about a room of the relay server, for any users and connections. *)
(***************************************************************************)
EXTENDS RelayRoom, FiniteSetTheorems, TLAPS

USE RelayRoomAssumption

-----------------------------------------------------------------------------
(* Types.                                                                   *)

(* A remainder is less than what it is taken by.                            *)
LEMMA Remainder ==
  ASSUME NEW i \in Nat, NEW n \in Nat \ {0}
  PROVE  i % n \in 0 .. n - 1
OBVIOUS

(* The index of the runner stays among those of as many users as there can  *)
(* be, since it is taken by the number of users in the room.                *)
LEMMA RunnerIndexType ==
  ASSUME TypeOK, Joined # {}
  PROVE  NextRunnerIndex(Cardinality(Joined)) \in 0 .. Cardinality(User) - 1
<1>1. Joined \subseteq User
  BY DEF Joined
<1>2. /\ IsFiniteSet(Joined)
      /\ Cardinality(Joined) \in Nat /\ Cardinality(User) \in Nat
      /\ Cardinality(Joined) <= Cardinality(User)
  BY <1>1, FS_Subset, FS_CardinalityType
<1>3. Cardinality(Joined) # 0
  BY <1>2, FS_EmptySet
<1> DEFINE n == Cardinality(Joined)
           i == lastSyncRunnerIndex + 1
<1>4. i \in Nat
  BY <1>2 DEF TypeOK
<1> HIDE DEF n, i
<1>5. i % n \in 0 .. n - 1
  BY <1>2, <1>3, <1>4, Remainder DEF n
<1> QED
  BY <1>2, <1>5 DEF n, i, NextRunnerIndex

(* A connection that has begun carries a user, and only a connection that   *)
(* has joined can be replaced.  With this the types and the room's map are  *)
(* inductive: without it a connection could join for no user, or join after *)
(* it was replaced.                                                         *)
BeganForUser == \A c \in Client : stage[c] # "new" => user[c] \in User
ReplacedHasJoined == \A c \in Client : stage[c] \in {"new", "join"} => ~invalid[c]

RoomInv == TypeOK /\ BeganForUser /\ ReplacedHasJoined /\ NoFinishedConnectionInRoom

(* The steps, one disjunct each.                                            *)
LEMMA StepCases ==
  ASSUME NEW ACTION P, [Next]_vars,
         UNCHANGED vars => P,
         \A u \in User, c \in Client : Connect(u, c) => P,
         \A u \in User : Disconnected(u) => P,
         \A u \in User : CloseSession(u) => P,
         \A c \in Client : Break(c) => P,
         \A c \in Client : Join(c) => P,
         \A c \in Client : Announce(c) => P,
         \A c \in Client : ListUsers(c) => P,
         \A c \in Client : Respond(c) => P,
         \A c \in Client : SyncRequest(c) => P,
         \A c \in Client : OnClosed(c) => P,
         \A c \in Client : LeaveRoom(c) => P
  PROVE  P
BY DEF Next

(* Every step keeps the types.                                              *)
LEMMA TypeStep ==
  ASSUME RoomInv, [Next]_vars
  PROVE  TypeOK'
<1> USE DEF RoomInv, TypeOK, Stage
<1>1. ASSUME NEW u \in User, NEW c \in Client, Connect(u, c) PROVE TypeOK'
  BY <1>1 DEF Connect
<1>2. ASSUME NEW u \in User, Disconnected(u) PROVE TypeOK'
  BY <1>2 DEF Disconnected, serverVars
<1>3. ASSUME NEW u \in User, CloseSession(u) PROVE TypeOK'
  BY <1>3 DEF CloseSession
<1>4. ASSUME NEW c \in Client, Break(c) PROVE TypeOK'
  BY <1>4 DEF Break, programVars
<1>5. ASSUME NEW c \in Client, Join(c) PROVE TypeOK'
  <2>1. user[c] \in User
    BY <1>5 DEF Join, BeganForUser
  <2> DEFINE old == clientMap[user[c]]
  <2>2. old \in Client \cup {None}
    BY <2>1
  <2>3. clientMap' \in [User -> Client \cup {None}]
    BY <1>5, <2>1 DEF Join, Overwritten
  <2>4. open' \in [Client -> BOOLEAN] /\ invalid' \in [Client -> BOOLEAN]
    BY <1>5, <2>2 DEF Join
  <2>5. IsFirst(user[c]) \in BOOLEAN
    BY DEF IsFirst
  <2>6. first' = [first EXCEPT ![c] = IsFirst(user[c])]
    BY <1>5 DEF Join
  <2>7. first' \in [Client -> BOOLEAN]
    BY <2>5, <2>6
  <2> QED
    BY <1>5, <2>3, <2>4, <2>7 DEF Join, programVars
<1>6. ASSUME NEW c \in Client, Announce(c) PROVE TypeOK'
  <2>1. user[c] \in User
    BY <1>6 DEF Announce, BeganForUser
  <2>2. known' \in [User -> SUBSET User]
    BY <1>6, <2>1 DEF Announce
  <2> QED
    BY <1>6, <2>2 DEF Announce
<1>7. ASSUME NEW c \in Client, ListUsers(c) PROVE TypeOK'
  BY <1>7 DEF ListUsers, programVars, Joined
<1>8. ASSUME NEW c \in Client, Respond(c) PROVE TypeOK'
  <2>1. user[c] \in User
    BY <1>8 DEF Respond, BeganForUser
  <2>2. known' \in [User -> SUBSET User]
    BY <1>8, <2>1 DEF Respond, KnownWithList
  <2> QED
    BY <1>8, <2>2 DEF Respond
<1>9. ASSUME NEW c \in Client, SyncRequest(c) PROVE TypeOK'
  <2>1. /\ runner' \in User \cup {0}
        /\ \/ lastSyncRunnerIndex' = lastSyncRunnerIndex
           \/ Joined # {} /\ lastSyncRunnerIndex' = NextRunnerIndex(Cardinality(Joined))
    BY <1>9 DEF SyncRequest, SyncStart, LastOf
  <2>2. lastSyncRunnerIndex' \in 0 .. Cardinality(User) - 1
    BY <2>1, RunnerIndexType
  <2> QED
    BY <1>9, <2>1, <2>2 DEF SyncRequest, programVars
<1>10. ASSUME NEW c \in Client, OnClosed(c) PROVE TypeOK'
  BY <1>10 DEF OnClosed, programVars
<1>11. ASSUME NEW c \in Client, LeaveRoom(c) PROVE TypeOK'
  <2>1. user[c] \in User
    BY <1>11 DEF LeaveRoom, BeganForUser
  <2>2. known' \in [User -> SUBSET User]
    BY <1>11, <2>1 DEF LeaveRoom
  <2>3. clientMap' \in [User -> Client \cup {None}]
    BY <1>11, <2>1 DEF LeaveRoom
  <2> QED
    BY <1>11, <2>2, <2>3 DEF LeaveRoom
<1>12. UNCHANGED vars => TypeOK'
  BY DEF vars, serverVars, programVars
<1> HIDE DEF RoomInv, TypeOK, Stage
<1> QED
  BY <1>1, <1>2, <1>3, <1>4, <1>5, <1>6, <1>7, <1>8, <1>9, <1>10, <1>11, <1>12, StepCases

-----------------------------------------------------------------------------
(* The room's map.                                                          *)

(* Every step keeps the invariant: the connection that a join brings into   *)
(* the map was never replaced, the one that it marks is no other user's,    *)
(* and a connection in the map is found closed only to leave for its user.  *)
LEMMA RoomStep ==
  ASSUME RoomInv, [Next]_vars
  PROVE  RoomInv'
<1> DEFINE Inv == BeganForUser /\ ReplacedHasJoined /\ NoFinishedConnectionInRoom
<1> USE DEF RoomInv, TypeOK, BeganForUser, ReplacedHasJoined,
            NoFinishedConnectionInRoom, Joined
<1>1. ASSUME NEW u \in User, NEW c \in Client, Connect(u, c) PROVE Inv'
  BY <1>1 DEF Connect
<1>2. ASSUME NEW u \in User, Disconnected(u) PROVE Inv'
  BY <1>2 DEF Disconnected, serverVars
<1>3. ASSUME NEW u \in User, CloseSession(u) PROVE Inv'
  BY <1>3 DEF CloseSession
<1>4. ASSUME NEW c \in Client, Break(c) PROVE Inv'
  BY <1>4 DEF Break
<1>5. ASSUME NEW c \in Client, Join(c) PROVE Inv'
  <2> DEFINE u == user[c]
             old == clientMap[u]
  <2>1. u \in User /\ ~invalid[c] /\ stage[c] = "join"
    BY <1>5 DEF Join
  <2>2. /\ clientMap' = [clientMap EXCEPT ![u] = c]
        /\ stage' = [stage EXCEPT ![c] = "announce"]
        /\ user' = user
        /\ invalid' = IF old = None THEN invalid ELSE [invalid EXCEPT ![old] = TRUE]
    BY <1>5 DEF Join, Overwritten
  <2>3. old # None => /\ old \in Client /\ user[old] = u /\ old # c
                      /\ stage[old] \notin {"new", "join"}
    BY <2>1
  <2>4. BeganForUser'
    BY <2>1, <2>2
  <2>5. ReplacedHasJoined'
    BY <2>1, <2>2, <2>3
  <2>6. ASSUME NEW v \in User, clientMap'[v] # None
        PROVE  LET d == clientMap'[v]
               IN  stage'[d] \notin {"new", "join", "left"} /\ user'[d] = v /\ ~invalid'[d]
    <3>1. CASE v = u
      BY <2>1, <2>2, <2>3, <3>1
    <3>2. CASE v # u
      <4>1. clientMap'[v] = clientMap[v]
        BY <2>1, <2>2, <3>2
      <4> QED
        BY <2>1, <2>2, <2>3, <2>6, <3>2, <4>1
    <3> QED
      BY <3>1, <3>2
  <2> QED
    BY <2>4, <2>5, <2>6
<1>6. ASSUME NEW c \in Client, Announce(c) PROVE Inv'
  BY <1>6 DEF Announce
<1>7. ASSUME NEW c \in Client, ListUsers(c) PROVE Inv'
  BY <1>7 DEF ListUsers
<1>8. ASSUME NEW c \in Client, Respond(c) PROVE Inv'
  BY <1>8 DEF Respond
<1>9. ASSUME NEW c \in Client, SyncRequest(c) PROVE Inv'
  BY <1>9 DEF SyncRequest
<1>10. ASSUME NEW c \in Client, OnClosed(c) PROVE Inv'
  BY <1>10 DEF OnClosed, Done
<1>11. ASSUME NEW c \in Client, LeaveRoom(c) PROVE Inv'
  BY <1>11 DEF LeaveRoom
<1>12. UNCHANGED vars => Inv'
  BY DEF vars, serverVars, programVars
<1> HIDE DEF RoomInv, TypeOK, BeganForUser, ReplacedHasJoined,
             NoFinishedConnectionInRoom, Joined, Inv
<1>13. Inv'
  BY <1>1, <1>2, <1>3, <1>4, <1>5, <1>6, <1>7, <1>8, <1>9, <1>10, <1>11, <1>12, StepCases
<1> QED
  BY <1>13, TypeStep DEF Inv, RoomInv

(* An empty room and unused connections satisfy the invariant.              *)
LEMMA RoomInit == Init => RoomInv
<1> SUFFICES ASSUME Init PROVE RoomInv
  OBVIOUS
<1>1. 0 \in 0 .. Cardinality(User) - 1
  BY FS_CardinalityType, FS_EmptySet
<1>2. TypeOK
  BY <1>1 DEF Init, TypeOK, Stage
<1> QED
  BY <1>2 DEF Init, RoomInv, BeganForUser, ReplacedHasJoined,
              NoFinishedConnectionInRoom, Joined

(* Every variable of the room and of the programs keeps its type; in        *)
(* particular the index of the last runner is one that a user can have, and *)
(* whoever is told of someone is told of a user.                            *)
THEOREM RoomTypeCorrect == Spec => []TypeOK
<1>1. RoomInv => TypeOK
  BY DEF RoomInv
<1>2. RoomInv /\ [Next]_vars => RoomInv'
  BY RoomStep
<1> QED
  BY <1>1, <1>2, RoomInit, PTL DEF Spec

(* However joins of a user and the ends of his connections overlap, the     *)
(* room never holds a connection that is finished, replaced or another      *)
(* user's.                                                                  *)
THEOREM RoomMap == Spec => []NoFinishedConnectionInRoom
<1>1. RoomInv => NoFinishedConnectionInRoom
  BY DEF RoomInv
<1>2. RoomInv /\ [Next]_vars => RoomInv'
  BY RoomStep
<1> QED
  BY <1>1, <1>2, RoomInit, PTL DEF Spec

-----------------------------------------------------------------------------
(* Who is the first.                                                        *)

(* Every step keeps one user at most the first: only a join makes a user    *)
(* the first, and only when nobody else is in the map.                      *)
LEMMA FirstStep ==
  ASSUME RoomInv, AtMostOneFirst, [Next]_vars
  PROVE  AtMostOneFirst'
<1> USE DEF RoomInv, TypeOK, AtMostOneFirst, Joined
<1>1. ASSUME NEW u \in User, NEW c \in Client, Connect(u, c) PROVE AtMostOneFirst'
  BY <1>1 DEF Connect
<1>2. ASSUME NEW u \in User, Disconnected(u) PROVE AtMostOneFirst'
  BY <1>2 DEF Disconnected, serverVars
<1>3. ASSUME NEW u \in User, CloseSession(u) PROVE AtMostOneFirst'
  BY <1>3 DEF CloseSession
<1>4. ASSUME NEW c \in Client, Break(c) PROVE AtMostOneFirst'
  BY <1>4 DEF Break
<1>5. ASSUME NEW c \in Client, Join(c) PROVE AtMostOneFirst'
  <2> DEFINE u == user[c]
  <2>1. u \in User /\ stage[c] = "join"
    BY <1>5 DEF Join, BeganForUser
  <2>2. /\ clientMap' = [clientMap EXCEPT ![u] = c]
        /\ first' = [first EXCEPT ![c] = IsFirst(u)]
    BY <1>5 DEF Join, Overwritten
  <2>3. \A v \in User \ {u} : clientMap'[v] = clientMap[v] /\ clientMap[v] # c
    BY <2>1, <2>2 DEF NoFinishedConnectionInRoom
  <2>4. CASE IsFirst(u)
    <3>1. \A v \in User \ {u} : clientMap[v] = None
      BY <2>4 DEF IsFirst
    <3> QED
      BY <2>3, <3>1
  <2>5. CASE ~IsFirst(u)
    <3>1. first'[c] = FALSE /\ clientMap'[u] = c
      BY <2>1, <2>2, <2>5
    <3>2. \A d \in Client \ {c} : first'[d] = first[d]
      BY <2>2
    <3>3. \A v \in Joined' : first'[clientMap'[v]] => v \in Joined /\ first[clientMap[v]]
                                                 /\ clientMap'[v] = clientMap[v]
      <4> SUFFICES ASSUME NEW v \in User, clientMap'[v] # None, first'[clientMap'[v]]
                   PROVE  clientMap[v] # None /\ first[clientMap[v]]
                          /\ clientMap'[v] = clientMap[v]
        OBVIOUS
      <4>1. v # u
        BY <3>1
      <4>2. clientMap'[v] = clientMap[v] /\ clientMap[v] # c
        BY <2>3, <4>1
      <4> QED
        BY <3>2, <4>2
    <3> QED
      BY <3>3
  <2> QED
    BY <2>4, <2>5
<1>6. ASSUME NEW c \in Client, Announce(c) PROVE AtMostOneFirst'
  BY <1>6 DEF Announce
<1>7. ASSUME NEW c \in Client, ListUsers(c) PROVE AtMostOneFirst'
  BY <1>7 DEF ListUsers
<1>8. ASSUME NEW c \in Client, Respond(c) PROVE AtMostOneFirst'
  BY <1>8 DEF Respond
<1>9. ASSUME NEW c \in Client, SyncRequest(c) PROVE AtMostOneFirst'
  BY <1>9 DEF SyncRequest
<1>10. ASSUME NEW c \in Client, OnClosed(c) PROVE AtMostOneFirst'
  BY <1>10 DEF OnClosed
<1>11. ASSUME NEW c \in Client, LeaveRoom(c) PROVE AtMostOneFirst'
  BY <1>11 DEF LeaveRoom
<1>12. UNCHANGED vars => AtMostOneFirst'
  BY DEF vars, serverVars, programVars
<1> HIDE DEF RoomInv, TypeOK, AtMostOneFirst, Joined
<1> QED
  BY <1>1, <1>2, <1>3, <1>4, <1>5, <1>6, <1>7, <1>8, <1>9, <1>10, <1>11, <1>12, StepCases

(* At most one user of the room was told that he is the first, whoever      *)
(* joined, joined twice or left in between.                                 *)
THEOREM OneFirst == Spec => []AtMostOneFirst
<1>1. Init => RoomInv /\ AtMostOneFirst
  BY RoomInit DEF Init, AtMostOneFirst, Joined
<1>2. RoomInv /\ AtMostOneFirst /\ [Next]_vars => RoomInv' /\ AtMostOneFirst'
  BY RoomStep, FirstStep
<1> QED
  BY <1>1, <1>2, PTL DEF Spec

-----------------------------------------------------------------------------
(* Who knows whom.                                                          *)

(* A program's open connection is its session, and everybody knows himself. *)
OpenIsSession ==
  \A c \in Client : stage[c] # "new" /\ open[c] => session[user[c]] = c
KnowsHimself == \A u \in User : u \in known[u]

(* What EveryMemberIsKnown needs to be inductive: while the response is on  *)
(* its way, a member is in the list that it carries or was announced since. *)
MembersInSight ==
  \A u, v \in Joined :
    open[clientMap[u]] /\ stage[clientMap[v]] # "announce" =>
      /\ stage[clientMap[u]] = "respond" => v \in known[u] \cup list[clientMap[u]]
      /\ stage[clientMap[u]] \in Done => v \in known[u]

KnownInv == RoomInv /\ OpenIsSession /\ KnowsHimself /\ MembersInSight

(* Every step keeps a program's open connection its session.                *)
LEMMA SessionStep ==
  ASSUME RoomInv, OpenIsSession, [Next]_vars
  PROVE  OpenIsSession'
<1> USE DEF RoomInv, TypeOK, OpenIsSession, BeganForUser
<1>1. ASSUME NEW u \in User, NEW c \in Client, Connect(u, c) PROVE OpenIsSession'
  BY <1>1 DEF Connect
<1>2. ASSUME NEW u \in User, Disconnected(u) PROVE OpenIsSession'
  BY <1>2 DEF Disconnected, serverVars
<1>3. ASSUME NEW u \in User, CloseSession(u) PROVE OpenIsSession'
  BY <1>3 DEF CloseSession
<1>4. ASSUME NEW c \in Client, Break(c) PROVE OpenIsSession'
  BY <1>4 DEF Break, programVars
<1>5. ASSUME NEW c \in Client, Join(c) PROVE OpenIsSession'
  <2>1. \A d \in Client : open'[d] => open[d]
    BY <1>5 DEF Join
  <2> QED
    BY <1>5, <2>1 DEF Join, programVars
<1>6. ASSUME NEW c \in Client, Announce(c) PROVE OpenIsSession'
  BY <1>6 DEF Announce
<1>7. ASSUME NEW c \in Client, ListUsers(c) PROVE OpenIsSession'
  BY <1>7 DEF ListUsers, programVars
<1>8. ASSUME NEW c \in Client, Respond(c) PROVE OpenIsSession'
  BY <1>8 DEF Respond
<1>9. ASSUME NEW c \in Client, SyncRequest(c) PROVE OpenIsSession'
  BY <1>9 DEF SyncRequest, programVars
<1>10. ASSUME NEW c \in Client, OnClosed(c) PROVE OpenIsSession'
  BY <1>10 DEF OnClosed, programVars, Done
<1>11. ASSUME NEW c \in Client, LeaveRoom(c) PROVE OpenIsSession'
  BY <1>11 DEF LeaveRoom
<1>12. UNCHANGED vars => OpenIsSession'
  BY DEF vars, serverVars, programVars
<1> HIDE DEF RoomInv, TypeOK, OpenIsSession, BeganForUser
<1> QED
  BY <1>1, <1>2, <1>3, <1>4, <1>5, <1>6, <1>7, <1>8, <1>9, <1>10, <1>11, <1>12, StepCases

(* Nobody is ever told that he himself left.                                *)
LEMMA HimselfStep ==
  ASSUME RoomInv, KnowsHimself, [Next]_vars
  PROVE  KnowsHimself'
<1> USE DEF RoomInv, TypeOK, KnowsHimself, BeganForUser
<1>1. ASSUME NEW c \in Client, LeaveRoom(c) PROVE KnowsHimself'
  BY <1>1 DEF LeaveRoom, Reached
<1>2. ASSUME NEW c \in Client, Announce(c) PROVE KnowsHimself'
  BY <1>2 DEF Announce
<1>3. ASSUME NEW c \in Client, Respond(c) PROVE KnowsHimself'
  BY <1>3 DEF Respond, KnownWithList
<1>4. ASSUME NEW u \in User, CloseSession(u) PROVE KnowsHimself'
  BY <1>4 DEF CloseSession
<1>5. UNCHANGED known => KnowsHimself'
  OBVIOUS
<1> HIDE DEF RoomInv, TypeOK, KnowsHimself, BeganForUser
<1> QED
  BY <1>1, <1>2, <1>3, <1>4, <1>5, StepCases
     DEF Connect, Disconnected, Break, Join, ListUsers, SyncRequest, OnClosed,
         vars, programVars

(* Every step keeps the members in sight of each other.                     *)
LEMMA SightStep ==
  ASSUME KnownInv, [Next]_vars
  PROVE  MembersInSight'
<1> USE DEF KnownInv, RoomInv, TypeOK, NoFinishedConnectionInRoom, MembersInSight,
            Joined, Done
<1>1. ASSUME NEW u \in User, NEW c \in Client, Connect(u, c) PROVE MembersInSight'
  BY <1>1 DEF Connect
<1>2. ASSUME NEW u \in User, Disconnected(u) PROVE MembersInSight'
  BY <1>2 DEF Disconnected, serverVars
<1>3. ASSUME NEW u \in User, CloseSession(u) PROVE MembersInSight'
  <2>1. \A d \in Client : open'[d] => open[d]
    BY <1>3 DEF CloseSession
  <2>2. u \in Joined => ~open'[clientMap[u]]
    <3> SUFFICES ASSUME u \in Joined, open[clientMap[u]] PROVE ~open'[clientMap[u]]
      BY <2>1
    <3>1. session[u] = clientMap[u]
      BY DEF OpenIsSession
    <3> QED
      BY <1>3, <3>1 DEF CloseSession
  <2>3. \A v \in User \ {u} : known'[v] = known[v]
    BY <1>3 DEF CloseSession
  <2> QED
    BY <1>3, <2>1, <2>2, <2>3 DEF CloseSession
<1>4. ASSUME NEW c \in Client, Break(c) PROVE MembersInSight'
  <2>1. \A d \in Client : open'[d] => open[d]
    BY <1>4 DEF Break
  <2> QED
    BY <1>4, <2>1 DEF Break, programVars
<1>5. ASSUME NEW c \in Client, Join(c) PROVE MembersInSight'
  <2> DEFINE u == user[c]
  <2>1. u \in User /\ stage[c] = "join"
    BY <1>5 DEF Join, BeganForUser
  <2>2. /\ clientMap' = [clientMap EXCEPT ![u] = c]
        /\ stage' = [stage EXCEPT ![c] = "announce"]
        /\ known' = known /\ list' = list
    BY <1>5 DEF Join, Overwritten, programVars
  <2>3. \A d \in Client : open'[d] => open[d]
    BY <1>5 DEF Join
  <2>4. clientMap'[u] = c /\ stage'[c] = "announce"
    BY <2>1, <2>2
  <2>5. \A v \in User \ {u} : clientMap'[v] = clientMap[v] /\ clientMap[v] # c
    BY <2>1, <2>2
  <2>6. \A d \in Client \ {c} : stage'[d] = stage[d]
    BY <2>2
  <2> QED
    BY <2>2, <2>3, <2>4, <2>5, <2>6
<1>6. ASSUME NEW c \in Client, Announce(c) PROVE MembersInSight'
  <2> DEFINE u == user[c]
  <2>1. u \in User
    BY <1>6 DEF Announce, BeganForUser
  <2>2. /\ stage[c] = "announce" /\ stage' = [stage EXCEPT ![c] = "list"]
        /\ UNCHANGED <<open, clientMap, list>>
    BY <1>6 DEF Announce
  <2>3. \A w \in User : known[w] \subseteq known'[w]
    BY <1>6, <2>1 DEF Announce
  <2>4. \A w \in Joined \ {u} : open[clientMap[w]] => u \in known'[w]
    BY <1>6, <2>1 DEF Announce, Reached
  <2>5. \A w \in Joined : clientMap[w] = c => w = u
    OBVIOUS
  <2> QED
    BY <2>2, <2>3, <2>4, <2>5
<1>7. ASSUME NEW c \in Client, ListUsers(c) PROVE MembersInSight'
  BY <1>7 DEF ListUsers, programVars
<1>8. ASSUME NEW c \in Client, Respond(c) PROVE MembersInSight'
  <2>1. user[c] \in User
    BY <1>8 DEF Respond, BeganForUser
  <2>2. /\ stage[c] = "respond" /\ stage' = [stage EXCEPT ![c] = "joined"]
        /\ list' = [list EXCEPT ![c] = {}]
        /\ UNCHANGED <<open, clientMap>>
    BY <1>8 DEF Respond
  <2>3. \A w \in User : known[w] \subseteq known'[w]
    BY <1>8, <2>1 DEF Respond, KnownWithList
  <2>4. open[c] => known'[user[c]] = known[user[c]] \cup list[c]
    BY <1>8, <2>1 DEF Respond, KnownWithList
  <2>5. \A w \in Joined : clientMap[w] = c => w = user[c]
    OBVIOUS
  <2>6. SUFFICES ASSUME NEW u \in Joined, NEW v \in Joined,
                        open[clientMap[u]], stage[clientMap[v]] # "announce"
                 PROVE  /\ stage'[clientMap[u]] = "respond" =>
                              v \in known'[u] \cup list'[clientMap[u]]
                        /\ stage'[clientMap[u]] \in Done => v \in known'[u]
    BY <2>2
  <2>7. CASE clientMap[u] = c
    <3>1. v \in known'[u]
      BY <2>2, <2>4, <2>5, <2>6, <2>7
    <3> QED
      BY <3>1
  <2>8. CASE clientMap[u] # c
    <3>1. stage'[clientMap[u]] = stage[clientMap[u]] /\ list'[clientMap[u]] = list[clientMap[u]]
      BY <2>2, <2>8
    <3> QED
      BY <2>3, <2>6, <3>1
  <2> QED
    BY <2>7, <2>8
<1>9. ASSUME NEW c \in Client, SyncRequest(c) PROVE MembersInSight'
  BY <1>9 DEF SyncRequest, programVars
<1>10. ASSUME NEW c \in Client, OnClosed(c) PROVE MembersInSight'
  BY <1>10 DEF OnClosed, programVars
<1>11. ASSUME NEW c \in Client, LeaveRoom(c) PROVE MembersInSight'
  <2> DEFINE u == user[c]
  <2>1. u \in User
    BY <1>11 DEF LeaveRoom, BeganForUser
  <2>2. /\ stage[c] = "leaving" /\ stage' = [stage EXCEPT ![c] = "left"]
        /\ clientMap' = [clientMap EXCEPT ![u] = None]
        /\ UNCHANGED <<open, list>>
    BY <1>11 DEF LeaveRoom
  <2>3. Joined' = Joined \ {u} /\ \A w \in Joined' : clientMap'[w] = clientMap[w]
    BY <2>1, <2>2
  <2>4. \A w \in User : known[w] \ {u} \subseteq known'[w]
    BY <1>11, <2>1 DEF LeaveRoom
  <2> QED
    BY <2>2, <2>3, <2>4
<1>12. UNCHANGED vars => MembersInSight'
  BY DEF vars, serverVars, programVars
<1> HIDE DEF KnownInv, RoomInv, TypeOK, NoFinishedConnectionInRoom, MembersInSight,
             Joined, Done
<1> QED
  BY <1>1, <1>2, <1>3, <1>4, <1>5, <1>6, <1>7, <1>8, <1>9, <1>10, <1>11, <1>12, StepCases

(* Whoever has the answer to his JOIN knows every announced member, even    *)
(* though joins, leaves and answers of any number of connections overlap.   *)
THEOREM MembersKnown == Spec => []EveryMemberIsKnown
<1>1. Init => KnownInv
  BY RoomInit DEF Init, KnownInv, OpenIsSession, KnowsHimself, MembersInSight, Joined
<1>2. KnownInv /\ [Next]_vars => KnownInv'
  BY RoomStep, SessionStep, HimselfStep, SightStep DEF KnownInv
<1>3. KnownInv => EveryMemberIsKnown
  BY DEF KnownInv, MembersInSight, EveryMemberIsKnown
<1> QED
  BY <1>1, <1>2, <1>3, PTL DEF Spec
=============================================================================
