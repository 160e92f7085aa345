# Shared Painter in TLA+

Models, model-checking runs and proofs for Shared Painter, a whiteboard that
several users paint on together, and for its relay server. Paths are relative
to the repository (`src/` in `PROJECT.json` is its root).

## The system

A **client** (`SharedPainter/`, C++ with Qt and boost::asio) has a main thread,
on which the window, the scene and every observer run, and IO threads, on which
packets are parsed and dispatched. What has to be done on the main thread is
deferred to it by `CDefferedCaller`. A client is connected either to the **relay
server** (`SharedPaintServer/`, four IO threads, one mutex around its rooms),
which casts what one user sends to all others of the room, or directly to peers,
to which it forwards what it receives.

A painting is not kept as a state but as a **history**: every edit is a *task*
(add, remove, update, move an item) that is recorded, executed on the canvas and
sent to the peers when it is executed first. The history can be played back and
forth, single painters can be hidden, and the user's own tasks are made by
*commands* that can be undone and redone.

| Component | State | Operations | Talks to |
|---|---|---|---|
| History engine (`SharedPaintCommandManager`, `SharedPaintCommand`, `SharedPaintTask`) | known items, task list, play position, allowed painters, undo and redo stacks | execute, undo, redo, play back, hide and show a painter, clear | canvas (through the window), sessions (packets of tasks) |
| Canvas and items (`SharedPainterScene`, `PaintItem`) | graphics, each item's data and previous data, the list of items being moved | draw, erase, update, move, scale, drag, release, clear | engine (gestures become commands) |
| Main window (`SharedPainter`, `PainterListWindow`) | frozen or not, slider, painter list | slider, undo, redo, filter, clear | session manager |
| Session manager (`SharedPaintManager` of the client) | sessions, users, painters ever seen, editing enabled, synchronisation under way | connect, reconnect, close, dispatch packets, synchronise | engine, window, server, peers |
| Relay server room (`SharedPaintRoom`, `SharedPaintClient`, `SharedPaintManager` of the server) | users and their connections, index of the last synchronisation runner, super peer | join, leave, replace, list, cast, choose a runner | clients |
| Deferred calls (`DefferedCaller`) | queue of calls, timers | defer, run | everything on the main thread |
| Peer sessions (`NetPeerSession`, `NetPeerServer`, `PaintSession`) | socket, write list, timers | connect, write, close, retry | session manager |
| Packet slicer (`PacketSlicer`) | buffer, parser state | add bytes, parse | sessions |
| Server finding, screen sharing, settings, dialogs, upgrader | | | |

### What is hard about it

- Recording, playback and the painter filter run the same tasks from three
  places; each must leave alone what the others did. A task sent by executing it
  must not be sent again by playing it.
- The play position has four meanings: nothing recorded (-2), before the first
  task (-1), a place in the history, and its end, which means "not playing".
- Undo and redo may be used in the middle of a playback or while one's own tasks
  are hidden: they are recorded and take effect later.
- The scene keeps state of its own (which graphic an item remembers, which items
  the mouse holds) that outlives the items.
- The server's handlers take its mutex several times each; joins, breaks and
  second logins of one user overlap between those calls.
- Peers clear, add and edit at the same time; clears are deferred to the main
  thread, other packets are not. A synchronisation copies a history that goes on
  growing, and its source may go away half way.

What makes the components correct: the history runs each task exactly once per
display and sends it once; the canvas shows the played part of the history; the
commands describe the document (history and canvas). The server's room holds
exactly who is connected, and all members know each other (room). Clients that
have received everything have the same items and tasks, and whoever is
synchronised may edit again (sharing). Deferred calls run first in the order in
which they were deferred, and none is forgotten (deferred calls). The window shows
the connection as it is, and a lost one is repaired (session). Packets come out of
the slicer as they went in, in order (packets).

## Modules

| Module | Models |
|---|---|
| `PaintHistory` | The history engine of one client, with the gestures of its user and the packets of its peers. One action per handler. |
| `PaintCanvas` | Extends `PaintHistory` by the canvas: what each task does to the items and their graphics, dragging and releasing. |
| `UndoableDocument` | Abstract: a document with undo and redo. |
| `PaintDocument` | Extends `PaintCanvas` by the refinement mapping to `UndoableDocument`. |
| `PaintHistoryProofs` | Theorems of `PaintHistory`. |
| `PaintCanvasProofs` | Theorems of `PaintCanvas`; extends `PaintHistoryProofs`. |
| `PaintDocumentProofs` | The refinement of `PaintDocument`, proved; extends `PaintCanvasProofs`. |
| `RelayRoom` | A room of the relay server with the lists of users of its members' programs. One action per locked call of a handler. |
| `RelayRoomProofs` | Theorems of `RelayRoom`. |
| `PaintSharing` | Several clients, the server's queues and relaying, deferred clears, the synchronisation of who joins. |
| `PaintSharingProofs` | Theorems of `PaintSharing`. |
| `DeferredCaller` | The queue of calls deferred to the main thread, nested and repeated runs of it, timers. |
| `DeferredCallerProofs` | Theorems of `DeferredCaller`. |
| `ClientConnection` | The client's connection to the server: attempts, deadlines, losses, closing, retries, the status shown. |
| `ClientConnectionProofs` | Theorems of `ClientConnection`. |
| `PacketChannel` | Abstract: what a connection promises to the code above it. |
| `PacketStream` | One direction of a connection, from the write list to the slicer, with the refinement mapping to `PacketChannel`. |
| `PacketStreamProofs` | Theorems of `PacketStream`. |
| `MCPaintCanvas`, `MCPaintDocument`, `MCRelayRoom`, `MCPacketStream` | Values and symmetry for TLC. |

The modules of the client fit together at their edges: `DeferredCaller` shows that
the main thread runs deferred calls in order, which `PaintSharing` and
`ClientConnection` take for granted; `PacketStream` shows that a connection is a
queue of packets, as `PaintSharing` has it; `RelayRoom` has the interleavings
inside the server that `PaintSharing` leaves out; `PaintHistory` and `PaintCanvas`
say what the tasks do whose spreading `PaintSharing` follows.

Definitions named `...Keeping...`, `...FromZero` and the like with the comment
"Mutant:" are wrong variants of the definition that follows. No specification
uses them; they are there to show that the properties notice such a bug.

### PaintHistory

`tasks[i + 1]` is task *i* of `historyTaskList_`; `currentPlayPos` has the value
it has in the code. `items` stands for `historyItemSet_` and
`userItemListMap_`, which change together. Of a task the fields `kind`, `key`
(owner and id), `prev`, `data` and `send` are the code's; `mine`, `sends` and
`net` are auxiliary and count who made it, how often its packet was sent, and
how much more often it was executed than rolled back. `enabled` is the session
manager's switch, `enabledPainter` the window's.

- `ExecuteTask` is `executeTask`: record, move the position unless playback is
  on, run unless `Skipped`. `ExecuteCommand`, `UndoCommand`, `RedoCommand` call
  it. `UndoTask` says which task undoes a command (for updates and moves the same
  one, as in `SharedPaintCommand.cpp:64-81`).
- `PlaybackTo` is the slider's handler with `playbackTo` and the freezing of the
  window, `SetAllowPainterToDraw` the painter list, `ClearScreen` the clear by
  anyone, with `clearAllItems` and what the window does.
- `PeerCreatesItem`, `PeerTask`, `AnnouncePainter` and `SessionEnables` are what
  packets bring. `Gesture` and `PeerKind` choose the edits of a run. With
  `Stale` a peer's task may name an unknown item (its creation was cleared);
  with `LateAnnounce` a painter may be announced after his tasks.

Handlers are atomic here: the main thread and the IO threads are interleaved
handler by handler. The code does not lock `playbackTo` and `clear` against
`executeTask`: their finer interleavings read and write one `std::vector` from two
threads, and what that does is undefined.

### PaintCanvas

Of every item `canvas` holds its `data_` and `prevData_`, where its graphic is,
whether it remembers a graphic (`object_`), how many graphics of it the scene
holds and whether the mouse moves it (`tempMovingItemList_`). Places and scales
are small sets. `Execute` and `Rollback` translate the four tasks' methods
together with the observers of the window that carry them out; `Forward` and
`Backward` are the loops of playback and filter. `ghosts` are cleared items
that the list of moving items keeps alive. `Release` handles one item at a time:
the loop over the list takes no lock, so packets come in between. The mode that
sends every step of a move (`hiqhQualityMoveItemMode_`), which is not the
default, is left out, as are pictures, texts and lines: they differ only in what
is drawn.

`PlaybackShowsPrefix` holds for *consistent* histories, in which every task fits
what those before it made of the item. The user's own edits of adding and
removing are always consistent (`OwnHistoryIsConsistent`); two users removing the
same item, or a scale after a move, are not, and there the code really shows
something else (`PlaybackOverPrevData`).

### RelayRoom

A connection is used once and goes through the stages of the server's handlers.
`Join`, `Announce`, `ListUsers`, `Respond` are the four steps of the JOIN handler
(`SharedPaintClient.cpp:46-67`), each of them locked, or a write; `OnClosed` is
the unlocked test of `invalidSessionFlag_`, `LeaveRoom` the locked call after
it. Handlers of one connection do not overlap (the server's library runs them one
after the other), those of different connections do: there are four threads.
Sockets break at any time (`Break`); client and server notice on their own. What
is written to an open socket is applied to the receiver's list at once, since TCP
keeps the order. `runner` is auxiliary.

Left out of this module: the super peer (`TcpTestClient.cpp:7` never sends the
packet that a candidate would answer, so nobody is ever elected), nicknames, and
the relaying of paint packets, which is in `PaintSharing`.

### PaintSharing

Each client has its `items`, its `tasks` and the queue `deferred` of its main
thread; a connection is a queue `up` to the server and one `down` from it, and the
server handles one packet at a time. Tasks carry numbers so that histories can be
compared. `AddItem`, `EditItem` and `ClearScreen` are gestures; `Receive` is
`dispatchPaintPacket`, which records edits at once and defers clears and the
notices of a synchronisation. `HandleRunSync` and `SendPackage` are the two locked
halves of `serializeData`; in between the main thread goes on, and the packages of
items and tasks are sent as one. `Break` loses a connection with a part of what
was written; `Reconnect` is the retry, which keeps what the client holds,
`RequestJoin` the user's join, which clears it.

`whole`, `crossed`, `runner`, `broken` and `strayed` are auxiliary. `SharedAtRest`
is about users who began the painting or were synchronised by one who had it whole,
where no clear crossed an edit. Both conditions are needed: a user who clears and
then paints before his own clear has reached the others loses the item there,
since they defer the clear and take the item at once; and the server may ask a
user to synchronise another who has not been synchronised himself. A user whose
connection breaks in the middle of a synchronisation keeps `syncStartedFlag_`, so
that after the reconnection he asks for none (`SharedPaintManager.cpp:405`).
Such a user has *strayed* and is not counted again: packets name a user and not a
connection, so that the package he asked for on the lost one is delivered on the
next, complete, but without what was cast while he was away.
Replaying a history in another order is possible at two users and not compared.

### DeferredCaller

`frames` is the stack of the activations of `customEvent`. An activation copies
both lists (`Copy`), makes the calls of its copy (`RunCall`), starts over when the
number of timers has changed (`CompareTimers`), and takes what it ran out of the
queue (`Trim`). A call may open a dialog, whose event loop lets further events
in. Calls are numbered as they are deferred. `disturbed` and `behindDialog` are
auxiliary and say which calls a timer or a dialog came in the way of: such calls
run twice, or are taken from the queue without having run, and the properties say
that no others are. Objects that delete themselves (`singleShot`) are left out.

### ClientConnection

A session (`CNetPeerSession`) has its socket, `connected_`, its outstanding
operation and the wait for its deadline; `relay` is `relayServerSession_`. The IO
thread's handlers are split where the main thread can act in between:
`HandleConnect` tests the socket and `ConnectComplete` does the rest, a closing is
its socket (`HandleReadFailed`, `HandleDeadline`) and its event (`CloseRest`).
`JoinServer` is `connect` without its last statement, the wait for the deadline
(`ArmDeadline`), since the IO thread may already have the outcome.
Names of sessions are used again when nothing refers to the old one (`Fresh`).

The properties name the cases in which the code really does something else:
closing a session while its first address is tried makes the handler try the
next one, for a session nobody holds (`NoForgottenConnection`); the notice of a
connection does not say which one (`late` in `StatusIsTrue`); a name that does
not resolve fires no event (`unresolved` in `LossIsRepaired`).

### PacketStream

A byte is known by its packet, its field and its place there, so that a mistake by
one byte shows. The sender's half is the write list, read in pieces of `BufSize`
into one buffer, and `_handle_write` in its unlocked and its locked half; the
receiver's is the read, the slicer's automaton with one action per field, and
the dispatching of the packets cut out. Bytes of a body are taken not to look like
the start of a packet.

`PacketChannel` delivers packets in order, each once and whole. It allows losses
only where a packet was sent that the slicer refuses, too big or of an unknown
code: then everything received is dropped, with packets that were complete, and
the slicer finds its place again only when a read begins with a packet. It allows
a packet that does not name its sender or target to come with the name of an
earlier packet, as `_readString8` has it.

## Runs

All runs switch off the deadlock check: users may stop, and the bounds end every
behaviour.

| Run | Bounds | Shows |
|---|---|---|
| `PaintHistory` | 2 painters, 1 id each, 4 tasks, tasks of cleared items may arrive | all properties of the history |
| `PaintDocument` | 1 painter, 2 items, 6 tasks; add, remove, undo | refinement of `UndoableDocument`; canvas shows history and commands |
| `PaintCanvasEdits` | 2 painters, 1 id each, 3 tasks, 2 places, 2 scales, 1 ghost; all edits by the user, moves by the peer | playback shows the right prefix, no graphic is orphaned |
| `RelayRoom` | 3 users, 3 connections, connections symmetric | room and lists of users |
| `PaintSharing` | 3 users, 2 of them members, 2 tasks, 1 clear, 1 join | all have the same painting at rest |
| `PaintSharingFaults` | 2 users, 1 member, 2 tasks, 1 break, 1 join | the same with a break; editing is enabled again |
| `DeferredCaller` | 1 thread, 3 calls, 2 delayed calls, 2 dialogs | order, repetition and loss of calls; calls and timers come to run |
| `ClientConnection` | 2 names of sessions, 2 addresses, 3 retries, 2 gestures | status, forgotten connections, removals, repair |
| `PacketStream` | 4 kinds of packets, 2 sent, pieces of 5 bytes, bodies up to 3 | refinement of `PacketChannel`; packets arrive |
| `UndoOfMove` | as `PaintCanvasEdits` | *violated*: undoing a move moves again |
| `PlaybackOverPrevData` | as `PaintCanvasEdits` | *violated*: playback over a scale after a move |
| `LeaveOfReplaced` | 2 users, 3 connections | *violated*: the end of a lost connection removes the new one |

Why the bounds are enough: the tasks of an item only depend on that item, so one
or two items show every relation between tasks; four tasks allow an add, an edit,
one more edit and its undo with the play position between any two of them, six
allow two items with a removal and an undo each. Two painters give one who is
hidden and one who is shown. Two places and two scales tell "before" and "after"
apart. `MaxId`, `MaxTask` and `MaxGraphics`/`MaxGhosts` only cut behaviours off.
Three connections are a user with a lost connection and a new one beside another
user, or three users; each second one of those is needed for the two violations.

In `PaintSharing` two tasks and a clear are an edit before and one after whatever
else happens, and one join meets every state of the painting; a break and a
join give two synchronisations of one user. In `DeferredCaller` two
dialogs nest, and three calls are one before, one in and one behind a dialog. In
`ClientConnection` three retries are
the code's number, two gestures a join and a close or a second join, two
addresses a first and a last one. Pieces of five bytes cut packets of 10 to 16
bytes in every field, and each read takes any number of them; two packets meet in
one read.

Each property has a mutant in `PROJECT.json` under which its run fails.

Fairness is stated where something must come to pass. `DeferredCaller`: the main
thread goes on, threads that have pushed go on to post, timers expire, and dialogs
are closed by the user. `PaintSharing`: server, IO threads and main threads go on,
each of them being a loop that runs whatever is queued; nobody has to paint, and
lost connections need not come back. `ClientConnection`: the two threads go on,
attempts end, timers and deadlines come due; connections need not break.
`PacketStream`: both ends' IO threads go on and the network carries what was
written unless it breaks. Weak fairness is enough everywhere: none of these steps,
once enabled, is disabled by others for ever. `PaintHistory`, `PaintCanvas` and
`RelayRoom` have safety properties only.

## Proofs

`PaintHistoryProofs` proves, for every choice of painters, data, kinds of edits
and bounds, and from `PaintHistoryAssumption` alone:

- `TypeCorrect`: `TypeOK`, which is inductive.
- `PositionAndWindow`: `PlayPositionInHistory` and `FrozenWhilePlaying`. Neither
  is inductive alone: whether playback is on is computed from position and list,
  and the window follows it. `PositionInv` joins both with the types.
- `SentOnceTheorem`: `SentAtMostOnce`, by a lemma that every execution clears
  `sendData_` and a rolling back leaves it.
- `DisplayTheorem`: `RunOncePerDisplay` and `DisplayedIsSent` where
  `LateAnnounce = FALSE`. Its heart is `RunsWhatChanges`: the part of a loop's
  range that the filter lets pass is exactly the set of tasks whose being on
  display changes. It needs that nobody outside the painter list has tasks in
  the history, which late announcements break.
- `GeneratedIdTheorem`: `GeneratedIdIsFree`, from `OwnIdsCounted`: every own id
  is at most the number of items when it was made, and that number only falls in
  a clear, which takes all items.
- `CommandsTheorem`: `CommandsNameKnownItems` where `"move" \notin Gesture`. With
  moves it does not hold: an item grabbed by the mouse outlives a clear, and
  its release makes a command of it (`SharedPainterScene.cpp:733`).

`PaintCanvasProofs` proves about the canvas, for every choice of painters, places,
scales, kinds of edits and bounds, from the assumptions of `PaintHistory` and
`PaintCanvas` and what each theorem says:

- Its tools: the loops `Forward` and `Backward` are recursive functions over
  positions. No induction theorem with an operator parameter is needed to reason
  about them: `SetInduction` derives, from the well-foundedness of `<`, that a set
  of natural numbers with 0 and every successor is `Nat`, and `ForwardKeeps` and
  `BackwardKeeps` say that a loop keeps what each round keeps.
- `CanvasTypeCorrect`: `CanvasTypeOK`; an item that remembers a graphic counts one.
- `CanvasImplementsHistory`: every step of the canvas is one of `PaintHistory`, so
  the theorems of that module hold here.
- `PlaybackTheorem`: `PlaybackShowsPrefix` where `Stale = FALSE` and
  `LateAnnounce = FALSE`. `CanvasInv` is inductive: where adding and removing fit,
  each item looks as the tasks on display say (`PaintingShown`), unknown items are
  hidden, and a task of an unknown item is at most a move
  (`StrangersOnlyMoved`), since the mouse may hold an item that a clear drops.
  `ExecuteStep` and `RollbackStep` are the heart: running a task and rolling it
  back take an item from n tasks to n + 1 and from n + 1 to n. Both conditions are
  needed, TLC finds counterexamples to the same property without either: a
  task of an item that is not known is recorded but cannot be drawn, and a painter
  who is announced late makes his earlier tasks count as shown.
- `NoOrphansTheorem`: `NoOrphanGraphics` where, besides, peers add and remove
  nothing. `PlanFits` says that adding and removing fit in the history and in the
  *plan*, the undo stack followed by the redo stack upside down, and that history
  and undo stack agree on who is there. Undo and redo leave the plan and only move
  the end of the undo stack in it (`UndoInPlan`, `RedoInPlan`).
- `OwnHistoryTheorem` and `ShowsCommandsTheorem`: `OwnHistoryIsConsistent` and
  `ShowsCommands` for a user who works alone and adds and removes
  (`PeerKind = {}`, no "update" and "move" in `Gesture`), from `AloneInv`. With
  moves neither holds, as the run `UndoOfMove` shows.

`PaintDocumentProofs` proves `DocumentTheorem`: for such a user `PaintCanvas`
implements `UndoableDocument`. The recursive mapping is replaced by `Drawing(n)`,
the items that are there after n edits of the plan (`AloneIsMapped`): the document
is the drawing at the end of the undo stack, the past are the drawings before it and
the future those behind it. Undo and redo keep the plan and so every drawing; a
new command keeps the drawings up to the end of the undo stack and drops the rest.

`RelayRoomProofs` proves, for any finite set of users and any connections, from
`RelayRoomAssumption` alone:

- `RoomTypeCorrect` and `RoomMap`: `TypeOK` and `NoFinishedConnectionInRoom`.
  They are inductive together with two facts in `RoomInv`: a connection that has
  begun carries a user, and only one that has joined is ever marked as replaced;
  without the second a replaced connection could still enter the map.
- `OneFirst`: `AtMostOneFirst`; a join tells its user that he is the first only
  when nobody else is in the map.
- `MembersKnown`: `EveryMemberIsKnown`, from `KnownInv`. A list read
  by `ListUsers` lacks whoever joins before `Respond` hands it over, so
  `MembersInSight` says of this stage that every announced member is in the list or
  known from his announcement. `OpenIsSession` (a program's open connection is its
  session) shows that whoever empties his list by closing his session is no longer
  connected.

`ClientConnectionProofs` proves, for any finite set of sessions and any numbers of
addresses, retries and gestures, from `ClientConnectionAssumption` alone:

- `ConnectionTypeCorrect`: `TypeOK`. `StateType` is inductive.
- `ForgottenTheorem`: `NoForgottenConnection`, with the types: a socket is only
  opened for the current session or for an address after the first.
- `RemovesFinishedTheorem`: `RemovesFinishedOnly`, from `HandlerInv`, which ties
  the thread's place to the socket's operation, and `RemovedIsFinished`: whoever
  has a removal waiting is not open, for every path that asks for one has closed
  the socket, and a name is not used again while a call refers to it.
- `StatusTheorem`: `StatusIsTrue`, from `NoticeIsTrue` (while a notice waits, what
  it says will be so) and `QuietIsTrue` (where none waits, the status is so).

`PacketStreamProofs` proves, for any packets, any size of pieces and any limits,
from `PacketStreamAssumption` alone:

- `OneWriteTheorem`: `OneWriteAtATime`, with `OneInv`: where the list is empty
  nothing is being written, so that only then may an append start a write.
- `HeaderTheorem`: `HeaderIsRead`, for every way of cutting the stream; `HeaderInv`
  adds that a packet is begun at the start of the buffer.
- `StreamTypeCorrect`: `TypeOK`, from both; that numbers of packets in list, wire and
  buffer are those of packets sent is part of the types.

`DeferredCallerProofs` proves, for any numbers of threads, calls, timers and nested
dialogs, from the assumption of `DeferredCaller` alone:

- `CallerTypeCorrect`: `TypeOK`.
- `FirstRunsTheorem`: `FirstRunsInOrder`, from `OrderInv`: queue and copies are in
  the order of deferral, what ran was deferred before what waits (`RunBefore`), and
  what an activation still has to run for the first time is queued, comes before
  whatever else waits (`LeftFirst`) and is among what the activations in its dialogs
  have to run (`Nested`).
- `TwiceTheorem` and `LostTheorem`: `TwiceOnlyIfDisturbed` and
  `LostOnlyBehindDialog`, from `RunInv`: an activation's copy is the front of the
  queue, unless one inside a dialog of its own has tidied the queue; then all that
  still waits was deferred behind that dialog (`FrameInv`).

`PaintSharingProofs` proves, for any finite set of users and any numbers of tasks,
clears, joins and lost connections, from `PaintSharingAssumption` alone:

- `SharingTypeCorrect`: `TypeOK`. An id is the number of known items plus one, and
  the bound on it is not inductive: `TypeInv` says that all items anybody knows, or
  that are on their way, lie in one finite set with at most as many elements as tasks
  were made (`Few`, `Typed`).
- `SharedTheorem`: `SharedAtRest`, from `SharedInv`, which is about every state and
  has three layers. `Conn`: JOIN is the first packet of a connection, its answer the
  first that comes back, and nobody synchronises himself. `Synchronised`: a user who
  has not strayed is at one stage of a synchronisation (`Steps`): at most one request
  of his, one client asked, reading or sending, one package. `Doc(D)`, while no clear
  has crossed an edit: there is a set D of items and tasks, what the server has cast
  since the last clear, such that whoever has the painting whole will know D and his
  own once he has received what is on its way (`Arrives`, `Mine`, `PaintingAt`);
  clears and edits are kept apart (`ApartAt`); and whatever a user being synchronised
  does not get by itself (`Needs`) is known to his source when it is asked
  (`ToRead`), has been read (`Reading`) or is in the package (`OnItsWay`). D is not a
  variable: the server's casting of an edit adds to it (`DocEdit`), that of a clear
  empties it (`DocCleared`), and the first user in an empty room begins it anew
  with what he knows (`DocFirst`). Every other step leaves it as it is.
- `OneSynchroniserTheorem`: a user who has not strayed is synchronised by one client
  at a time and does not ask meanwhile; a consequence of `Synchronised`.

Only model-checked: that `PacketStream` implements `PacketChannel`,
which compares positions of bytes in the stream with those in the slicer; and the
liveness properties `EveryCallRuns`, `EveryTimerExpires`, `EditableAgain`,
`LossIsRepaired` and `EveryPacketArrives`, since fairness and `ENABLED` are out of the
prover's reach.

## Findings

Three runs show where the code departs from what the repository says: undo of
moves and updates, playback over `prevData_`, and the end of a replaced connection.
`PROJECT.json` has each with its lines. Other departures met on the way are named
with the hazards there and in the sections above.

## Not modelled

- `executeTask` between the steps of `playbackTo`, `clear` and
  `setAllowPainterToDraw`: a data race on the task list, whose outcome is
  undefined in the code.
- Direct mode (`sessionList_`, forwarding to all others, the listening socket) and
  the super peer, which no server of the repository elects.
- The timer of a synchronisation that does not start: it is made on a thread
  without an event loop and never fires.
- Finding servers by broadcast, chat, nicknames, backgrounds and window sizes: one
  packet, one assignment each, with nothing that depends on their order but the
  last one winning.
- Screen sharing and recording, the encoding of streams, vendored code (`ffmpeg/`,
  `Upgrader/XZip`), dialogs, settings, utilities, the upgrader, the server's
  start-up (its network library is not in the repository), and the builders of
  packet bodies, which are straight-line serialisation.

These are most of the repository's lines: the vendored sources and headers alone
are more than half of them.

## Plan

1. Done: history, canvas, document, room, sharing, deferred calls, the client's
   connection, the stream of packets, with the proofs above.
2. Proofs: that `PacketStream` delivers in order what was sent (the safety part of
   the refinement), by an invariant that joins write list, wire and buffer to one
   sequence.
3. Direct mode: forwarding along a tree of connections.
