------------------------------ MODULE RelayRoom -------------------------------
(***************************************************************************)
(* One room of the relay server (SharedPaintClient, SharedPaintManager and *)
(* SharedPaintRoom of SharedPaintServer) and the list of joined users that *)
(* each painter's program keeps from what the room tells it.               *)
(*                                                                         *)
(* The server has four IO threads.  Every call of its manager is atomic    *)
(* under one mutex, but a handler makes several of them, so the handlers   *)
(* of different connections interleave between the calls; those of one     *)
(* connection come one after the other.  A connection may break at any     *)
(* time; its client and the server notice that independently.              *)
(*                                                                         *)
(* What is written to a connection is applied to the client's list at      *)
(* once: TCP keeps the order, and that a client never reads it is the same *)
(* to all others as a connection that broke before the write.              *)
(***************************************************************************)
EXTENDS Integers, FiniteSets

CONSTANTS
  User,    \* user ids, ordered as the keys of the room's map are
  Client,  \* the connections that there will be: each is used once
  None     \* no connection

ASSUME RelayRoomAssumption ==
  /\ User \subseteq Nat \ {0} /\ IsFiniteSet(User) /\ User # {}
  /\ None \notin Client

VARIABLES
  stage,                \* how far the server is with each connection
  open,                 \* is the connection's socket still open?
  user,                 \* whose JOIN packet it carries; 0 before there is one
  invalid,              \* invalidSessionFlag_
  first,                \* firstFlag: did he find the room empty?
  list,                 \* the user list that the JOIN handler has read
  clientMap,            \* clientMap_ of the room: who has joined, and on what
  lastSyncRunnerIndex,  \* lastSyncRunnerIndex_
  runner,               \* auxiliary: who was asked last to synchronise another
  session,              \* of each program: relayServerSession_
  known                 \* of each program: joinerMap_

serverVars == <<stage, open, user, invalid, first, list, clientMap,
                lastSyncRunnerIndex, runner>>
programVars == <<session, known>>
vars == <<serverVars, programVars>>

(* "join": its JOIN packet is on the way.  Then the steps of the JOIN       *)
(* handler; "joined" when the response is written; "synced" when the        *)
(* request for a synchronisation was handled too.  "leaving": it was found  *)
(* closed, and not invalid.                                                 *)
Stage == {"new", "join", "announce", "list", "respond", "joined", "synced",
          "leaving", "left"}

Done == {"joined", "synced"}

TypeOK ==
  /\ stage \in [Client -> Stage]
  /\ open \in [Client -> BOOLEAN]
  /\ user \in [Client -> User \cup {0}]
  /\ invalid \in [Client -> BOOLEAN]
  /\ first \in [Client -> BOOLEAN]
  /\ list \in [Client -> SUBSET User]
  /\ clientMap \in [User -> Client \cup {None}]
  /\ lastSyncRunnerIndex \in 0 .. Cardinality(User) - 1
  /\ runner \in User \cup {0}
  /\ session \in [User -> Client \cup {None}]
  /\ known \in [User -> SUBSET User]

Init ==
  /\ stage = [c \in Client |-> "new"]
  /\ open = [c \in Client |-> TRUE]
  /\ user = [c \in Client |-> 0]
  /\ invalid = [c \in Client |-> FALSE]
  /\ first = [c \in Client |-> FALSE]
  /\ list = [c \in Client |-> {}]
  /\ clientMap = [u \in User |-> None]
  /\ lastSyncRunnerIndex = 0
  /\ runner = 0
  /\ session = [u \in User |-> None]
  /\ known = [u \in User |-> {u}]

Joined == {u \in User : clientMap[u] # None}

-----------------------------------------------------------------------------
(* The programs of the painters.                                            *)

(* requestJoinServer, or a reconnection: a new session, over which the JOIN *)
(* packet is sent as soon as it is connected.  The list of users is kept.   *)
Connect(u, c) ==
  /\ session[u] = None
  /\ stage[c] = "new"
  /\ stage' = [stage EXCEPT ![c] = "join"]
  /\ user' = [user EXCEPT ![c] = u]
  /\ session' = [session EXCEPT ![u] = c]
  /\ UNCHANGED <<open, invalid, first, list, clientMap, lastSyncRunnerIndex, runner, known>>

(* The connection breaks.                                                   *)
Break(c) ==
  /\ stage[c] # "new"
  /\ open[c]
  /\ open' = [open EXCEPT ![c] = FALSE]
  /\ UNCHANGED <<stage, user, invalid, first, list, clientMap, lastSyncRunnerIndex,
                 runner, programVars>>

(* The program finds its session disconnected, to connect again later.      *)
Disconnected(u) ==
  /\ session[u] # None
  /\ ~open[session[u]]
  /\ session' = [session EXCEPT ![u] = None]
  /\ UNCHANGED <<serverVars, known>>

(* closeSession: the user ends the session, or starts one anew.  Of the     *)
(* list only he himself stays.                                              *)
CloseSession(u) ==
  /\ open' = IF session[u] = None THEN open ELSE [open EXCEPT ![session[u]] = FALSE]
  /\ session' = [session EXCEPT ![u] = None]
  /\ known' = [known EXCEPT ![u] = {u}]
  /\ UNCHANGED <<stage, user, invalid, first, list, clientMap, lastSyncRunnerIndex, runner>>

-----------------------------------------------------------------------------
(* The server.                                                              *)

(* Those whom a cast to the room reaches, without the user it is about.     *)
Reached(map, about) == {v \in User \ {about} : map[v] # None /\ open[map[v]]}

(* Mutant: the connection that has joined already stays in the map.         *)
OverwrittenUnlessJoined(u, c) ==
  IF u \in Joined THEN clientMap ELSE [clientMap EXCEPT ![u] = c]

Overwritten(u, c) == [clientMap EXCEPT ![u] = c]

(* Mutant: whoever is new to the map is told that he is the first.          *)
IsFirstIfNew(u) == u \notin Joined

IsFirst(u) == Joined \cup {u} = {u}

(* joinRoom: a second connection of a user replaces the first, which is     *)
(* closed and no longer allowed to leave for him.                           *)
Join(c) ==
  LET u == user[c]
      old == clientMap[u]
  IN  /\ stage[c] = "join"
      /\ clientMap' = Overwritten(u, c)
      /\ IF old = None
         THEN UNCHANGED <<invalid, open>>
         ELSE /\ invalid' = [invalid EXCEPT ![old] = TRUE]
              /\ open' = [open EXCEPT ![old] = FALSE]
      /\ first' = [first EXCEPT ![c] = IsFirst(u)]
      /\ stage' = [stage EXCEPT ![c] = "announce"]
      /\ UNCHANGED <<user, list, lastSyncRunnerIndex, runner, programVars>>

(* roomCast of NewJoiner.                                                   *)
Announce(c) ==
  LET u == user[c]
  IN  /\ stage[c] = "announce"
      /\ known' = [v \in User |-> IF v \in Reached(clientMap, u)
                                  THEN known[v] \cup {u} ELSE known[v]]
      /\ stage' = [stage EXCEPT ![c] = "list"]
      /\ UNCHANGED <<open, user, invalid, first, list, clientMap,
                     lastSyncRunnerIndex, runner, session>>

(* serializeJoinerInfoPacket.                                               *)
ListUsers(c) ==
  /\ stage[c] = "list"
  /\ list' = [list EXCEPT ![c] = Joined]
  /\ stage' = [stage EXCEPT ![c] = "respond"]
  /\ UNCHANGED <<open, user, invalid, first, clientMap, lastSyncRunnerIndex,
                 runner, programVars>>

(* Mutant: the list in the response replaces the list the program has.      *)
KnownFromList(u, users) == users

(* The program adds the users of the response to those it knows already.    *)
KnownWithList(u, users) == known[u] \cup users

(* The response is written outside the mutex.                               *)
Respond(c) ==
  LET u == user[c]
  IN  /\ stage[c] = "respond"
      /\ known' = IF open[c] THEN [known EXCEPT ![u] = KnownWithList(u, list[c])] ELSE known
      /\ list' = [list EXCEPT ![c] = {}]
      /\ stage' = [stage EXCEPT ![c] = "joined"]
      /\ UNCHANGED <<open, user, invalid, first, clientMap, lastSyncRunnerIndex,
                     runner, session>>

(* The index of a user in the room's map.                                   *)
IndexOf(u) == Cardinality({v \in Joined : v < u})

(* Mutant: the index is left past the end of the map.                       *)
NextRunnerIndexPastEnd(n) == n

NextRunnerIndex(n) == (lastSyncRunnerIndex + 1) % n

(* The loops of syncStart do not stop at the first candidate they find.     *)
LastOf(candidates, r) == r \in candidates /\ \A v \in candidates : v <= r

(* syncStart: of the users other than the target the last in the map that   *)
(* is not at the index of the last runner; if there is none, the last.      *)
SyncStart(target) ==
  LET others == Joined \ {target}
      preferred == {v \in others : IndexOf(v) # lastSyncRunnerIndex}
  IN  \/ /\ \E r \in User : LastOf(preferred, r) /\ runner' = r
         /\ lastSyncRunnerIndex' = NextRunnerIndex(Cardinality(Joined))
      \/ /\ preferred = {}
         /\ \E r \in User : LastOf(others, r) /\ runner' = r
         /\ UNCHANGED lastSyncRunnerIndex
      \/ others = {} /\ UNCHANGED <<runner, lastSyncRunnerIndex>>

(* A user who did not find the room empty asks for its contents, unless his *)
(* program still awaits the end of an earlier synchronisation.              *)
SyncRequest(c) ==
  /\ stage[c] = "joined"
  /\ ~first[c] /\ open[c]
  /\ SyncStart(user[c])
  /\ stage' = [stage EXCEPT ![c] = "synced"]
  /\ UNCHANGED <<open, user, invalid, first, list, clientMap, programVars>>

(* onClosed, onError: only a connection that is not marked invalid goes on  *)
(* to leave the room.                                                       *)
OnClosed(c) ==
  /\ stage[c] \in {"join"} \cup Done
  /\ ~open[c]
  /\ stage' = [stage EXCEPT ![c] = IF stage[c] = "join" \/ invalid[c]
                                   THEN "left" ELSE "leaving"]
  /\ UNCHANGED <<open, user, invalid, first, list, clientMap, lastSyncRunnerIndex,
                 runner, programVars>>

(* leaveRoom: whatever connection the user is on leaves the room, and the   *)
(* others are told.                                                         *)
LeaveRoom(c) ==
  LET u == user[c]
      left == [clientMap EXCEPT ![u] = None]
  IN  /\ stage[c] = "leaving"
      /\ stage' = [stage EXCEPT ![c] = "left"]
      /\ clientMap' = left
      /\ known' = IF clientMap[u] = None THEN known
                  ELSE [v \in User |-> IF v \in Reached(left, u)
                                       THEN known[v] \ {u} ELSE known[v]]
      /\ UNCHANGED <<open, user, invalid, first, list, lastSyncRunnerIndex,
                     runner, session>>

Next ==
  \/ \E u \in User, c \in Client : Connect(u, c)
  \/ \E u \in User : Disconnected(u) \/ CloseSession(u)
  \/ \E c \in Client :
       \/ Break(c)
       \/ Join(c) \/ Announce(c) \/ ListUsers(c) \/ Respond(c)
       \/ SyncRequest(c)
       \/ OnClosed(c) \/ LeaveRoom(c)

Spec == Init /\ [][Next]_vars

-----------------------------------------------------------------------------
(* The room's map never holds a connection that is finished, that was       *)
(* replaced or that is another user's, however joins of the same user and   *)
(* the ends of his connections overlap.                                     *)
NoFinishedConnectionInRoom ==
  \A u \in Joined :
    LET c == clientMap[u]
    IN  stage[c] \notin {"new", "join", "left"} /\ user[c] = u /\ ~invalid[c]

(* Whoever has the answer to his JOIN and is still connected knows every    *)
(* user in the room whose joining was announced: no user is missed between  *)
(* the announcements and the list, which are made in separate steps.        *)
EveryMemberIsKnown ==
  \A u, v \in Joined :
    LET c == clientMap[u]
    IN  open[c] /\ stage[c] \in Done /\ stage[clientMap[v]] # "announce"
          => v \in known[u]

(* At most one user of the room was told that he is the first, so that all  *)
(* others ask for the contents of the room.                                 *)
AtMostOneFirst ==
  \A u, v \in Joined : first[clientMap[u]] /\ first[clientMap[v]] => u = v

(* SharedPaintRoom.cpp: "already joined user. duplicate!" ... "overwrite".  *)
(* A user whose new connection has joined and is open is in the room on it. *)
ConnectedIsInRoom ==
  \A c \in Client :
    stage[c] \in Done /\ open[c] => clientMap[user[c]] = c
=============================================================================
