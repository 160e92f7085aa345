---------------------------- MODULE PaintHistory ----------------------------
(***************************************************************************)
(* The history engine of one Shared Painter client: the items it knows,    *)
(* the list of tasks that tells how the painting came about, the playback  *)
(* position in that list, the painters whose tasks are shown, and the undo *)
(* and redo stacks (CSharedPaintCommandManager, CSharedPaintTask,          *)
(* CSharedPaintCommand, the item operations of CSharedPaintManager and the *)
(* playback slider of the main window).  What the tasks do to the canvas   *)
(* is added by module PaintCanvas; here it is only counted how often each  *)
(* task is run, rolled back and sent.                                      *)
(*                                                                         *)
(* Every action is one whole handler: a gesture of the local user on the   *)
(* main thread, or one packet of a peer together with the canvas call it   *)
(* defers.                                                                 *)
(*                                                                         *)
(* Task i of the C++ vector is tasks[i + 1]; currentPlayPos keeps the      *)
(* value it has in the code, so the tasks up to the play position are      *)
(* tasks[1 .. currentPlayPos + 1].                                         *)
(***************************************************************************)
EXTENDS Integers, Sequences, FiniteSets

CONSTANTS
  Painter,       \* user ids
  Me,            \* the local user
  Data,          \* what an update or a move says of an item
  NoData,        \* the member of Data that stands for nothing said
  Gesture,       \* edits the local user makes: kinds of tasks, and "undo"
  PeerKind,      \* kinds of tasks that arrive from peers
  Stale,         \* may a peer's task name an item that is not known here?
  LateAnnounce,  \* may a painter be announced after tasks of his items?
  MaxId,         \* bound: item ids per owner
  MaxTask        \* bound: length of the history

Kind == {"add", "remove", "update", "move"}

ASSUME PaintHistoryAssumption ==
  /\ Me \in Painter
  /\ IsFiniteSet(Painter)
  /\ NoData \in Data
  /\ Gesture \subseteq Kind \cup {"undo"}
  /\ PeerKind \subseteq Kind
  /\ Stale \in BOOLEAN /\ LateAnnounce \in BOOLEAN
  /\ MaxId \in Nat /\ MaxTask \in Nat

Key == Painter \X (1 .. MaxId)       \* an item's owner and its id

(***************************************************************************)
(* A command of the undo stack, and a task of the history.  Of a task,     *)
(* send is sendData_; mine, sends and net are auxiliary: whether this      *)
(* client made it, how often its packet was sent, and how much more often  *)
(* it was executed than rolled back.                                       *)
(***************************************************************************)
Command == [kind : Kind, key : Key, prev : Data, data : Data]
Task == [kind : Kind, key : Key, prev : Data, data : Data,
         mine : BOOLEAN, send : BOOLEAN, sends : Nat, net : Int]

VARIABLES
  items,           \* historyItemSet_ and userItemListMap_: the known items
  tasks,           \* historyTaskList_
  currentPlayPos,  \* currentPlayPos_
  allowPainters,   \* allowPainters_
  users,           \* joinerHistory_: the painters the painter list offers
  commandList,     \* commandList_: the undo stack, its top last
  redoCommandList, \* redoCommandList_
  enabled,         \* enabled_ of CSharedPaintManager
  enabledPainter   \* enabledPainter_ of the main window

stacks == <<commandList, redoCommandList>>
switches == <<enabled, enabledPainter>>
historyVars == <<items, tasks, currentPlayPos, allowPainters, users, stacks, switches>>

DEFAULT_INIT_PLAYBACK_POS == -2

TypeOK ==
  /\ items \subseteq Key
  /\ tasks \in Seq(Task)
  /\ currentPlayPos \in Int
  /\ allowPainters \subseteq Painter
  /\ users \subseteq Painter
  /\ commandList \in Seq(Command)
  /\ redoCommandList \in Seq(Command)
  /\ enabled \in BOOLEAN /\ enabledPainter \in BOOLEAN

Init ==
  /\ items = {}
  /\ tasks = <<>>
  /\ currentPlayPos = DEFAULT_INIT_PLAYBACK_POS
  /\ allowPainters = {Me}
  /\ users = {Me}
  /\ commandList = <<>>
  /\ redoCommandList = <<>>
  /\ enabled = TRUE /\ enabledPainter = TRUE

-----------------------------------------------------------------------------
(* Running tasks.                                                           *)

(* Mutant: sendPacket forgets to reset sendData_.                           *)
ExecutedKeepingSend(t) ==
  [t EXCEPT !.net = @ + 1, !.sends = IF t.send THEN @ + 1 ELSE @]

(* Mutant: execute does not call sendPacket.                                *)
ExecutedUnsent(t) == [t EXCEPT !.net = @ + 1]

(* Executing a task: every execute calls sendPacket first.                  *)
Executed(t) ==
  [t EXCEPT !.net = @ + 1,
            !.sends = IF t.send THEN @ + 1 ELSE @,
            !.send = FALSE]

RolledBack(t) == [t EXCEPT !.net = @ - 1]

(* The loops of playback and of the painter filter: the tasks from + 1 ..   *)
(* to are run in order, or rolled back in reverse, those of the painters in *)
(* who.                                                                     *)
RunForward(from, to, who) ==
  [i \in 1 .. Len(tasks) |->
     IF from < i /\ i <= to /\ tasks[i].key[1] \in who
     THEN Executed(tasks[i]) ELSE tasks[i]]

RunBackward(from, to, who) ==
  [i \in 1 .. Len(tasks) |->
     IF to < i /\ i <= from /\ tasks[i].key[1] \in who
     THEN RolledBack(tasks[i]) ELSE tasks[i]]

IsPlaybackMode ==
  /\ currentPlayPos # DEFAULT_INIT_PLAYBACK_POS
  /\ currentPlayPos # Len(tasks) - 1

(* Mutant: the playback test is dropped.                                    *)
SkippedIfHidden(k) == k[1] \notin allowPainters

(* "now playback working or user not allowed, skip to execute this task"    *)
Skipped(k) == IsPlaybackMode \/ k[1] \notin allowPainters

(* Mutant: the position follows the end of the list during playback too.    *)
PositionFollowsEnd == Len(tasks)

(* Mutant: the position is the length of the list after the push.           *)
PositionPastEnd == IF IsPlaybackMode THEN currentPlayPos ELSE Len(tasks) + 1

PositionAfterPush == IF IsPlaybackMode THEN currentPlayPos ELSE Len(tasks)

(* executeTask: record the task; run it unless playback is on or its        *)
(* painter is hidden.  A task that is not run is not sent either.           *)
ExecuteTask(t, sendData) ==
  LET task == [kind |-> t.kind, key |-> t.key, prev |-> t.prev, data |-> t.data,
               mine |-> sendData, send |-> sendData, sends |-> 0, net |-> 0]
  IN  /\ Len(tasks) < MaxTask
      /\ currentPlayPos' = PositionAfterPush
      /\ tasks' = Append(tasks, IF Skipped(t.key) THEN task ELSE Executed(task))

(* executeCommand: run the command, push it, forget what could be redone.   *)
ExecuteCommand(c) ==
  /\ ExecuteTask(c, TRUE)
  /\ commandList' = Append(commandList, c)
  /\ redoCommandList' = <<>>

(* Mutant: undoing a removal removes once more.                             *)
UndoTaskRemoving(c) == [c EXCEPT !.kind = IF @ = "add" THEN "remove" ELSE @]

(* The task that undoing a command runs: the opposite of adding and of      *)
(* removing, but for an update or a move the same task once more.           *)
UndoTask(c) ==
  CASE c.kind = "add"    -> [c EXCEPT !.kind = "remove"]
    [] c.kind = "remove" -> [c EXCEPT !.kind = "add"]
    [] c.kind \in {"update", "move"} -> c

-----------------------------------------------------------------------------
(* Gestures of the local user.                                              *)

(* Mutant: the ids start at 0.                                              *)
NextIdFromZero == Cardinality(items)

(* Mutant: the local user's own items are not counted.                      *)
NextIdOfOthers == Cardinality({k \in items : k[1] # Me}) + 1

(* generateItemId: one more than the number of known items, whoever owns    *)
(* them.                                                                    *)
NextId == Cardinality(items) + 1

NewCommand(kind, k, prev, data) ==
  [kind |-> kind, key |-> k, prev |-> prev, data |-> data]

AddItem ==
  /\ "add" \in Gesture
  /\ enabled
  /\ NextId <= MaxId
  /\ items' = items \cup {<<Me, NextId>>}
  /\ ExecuteCommand(NewCommand("add", <<Me, NextId>>, NoData, NoData))
  /\ UNCHANGED <<allowPainters, users, switches>>

(* The other gestures are made on an item of the canvas, with the mouse or  *)
(* the keyboard; a frozen window takes neither, nor does it while the modal *)
(* progress window of a synchronisation is up, when enabled is off.         *)
CanTouch == enabled /\ enabledPainter

RemoveItem(k) ==
  /\ "remove" \in Gesture
  /\ CanTouch /\ k \in items
  /\ ExecuteCommand(NewCommand("remove", k, NoData, NoData))
  /\ UNCHANGED <<items, allowPainters, users, switches>>

UpdateItem(k, prev, data) ==
  /\ "update" \in Gesture
  /\ CanTouch /\ k \in items
  /\ ExecuteCommand(NewCommand("update", k, prev, data))
  /\ UNCHANGED <<items, allowPainters, users, switches>>

(* A move is carried out when the mouse is released, for an item that the   *)
(* screen may have been cleared of since it was grabbed.                    *)
MoveItem(k, prev, data) ==
  /\ "move" \in Gesture
  /\ CanTouch
  /\ ExecuteCommand(NewCommand("move", k, prev, data))
  /\ UNCHANGED <<items, allowPainters, users, switches>>

UndoCommand ==
  /\ "undo" \in Gesture
  /\ enabled
  /\ commandList # <<>>
  /\ LET c == commandList[Len(commandList)]
     IN  /\ ExecuteTask(UndoTask(c), TRUE)
         /\ redoCommandList' = Append(redoCommandList, c)
         /\ commandList' = SubSeq(commandList, 1, Len(commandList) - 1)
  /\ UNCHANGED <<items, allowPainters, users, switches>>

(* Mutant: a command that was redone stays on the redo stack.               *)
RedoCommandKeepingIt ==
  /\ "undo" \in Gesture
  /\ enabled
  /\ redoCommandList # <<>>
  /\ LET c == redoCommandList[Len(redoCommandList)]
     IN  /\ ExecuteTask(c, TRUE)
         /\ commandList' = Append(commandList, c)
         /\ UNCHANGED redoCommandList
  /\ UNCHANGED <<items, allowPainters, users, switches>>

RedoCommand ==
  /\ "undo" \in Gesture
  /\ enabled
  /\ redoCommandList # <<>>
  /\ LET c == redoCommandList[Len(redoCommandList)]
     IN  /\ ExecuteTask(c, TRUE)
         /\ commandList' = Append(commandList, c)
         /\ redoCommandList' = SubSeq(redoCommandList, 1, Len(redoCommandList) - 1)
  /\ UNCHANGED <<items, allowPainters, users, switches>>

(* setEnabledPainter: the window tells the manager only about a change.     *)
SetEnabledPainter(on) ==
  /\ enabledPainter' = on
  /\ enabled' = IF enabledPainter = on THEN enabled ELSE on

(* The playback slider: 0 to the number of tasks, one more than a position. *)
(* It reports a value only when that changes.                               *)
PlaybackTo(position) ==
  /\ tasks # <<>>
  /\ position # currentPlayPos
  /\ tasks' = IF currentPlayPos < position
              THEN RunForward(currentPlayPos + 1, position + 1, allowPainters)
              ELSE RunBackward(currentPlayPos + 1, position + 1, allowPainters)
  /\ currentPlayPos' = position
  /\ SetEnabledPainter(position = Len(tasks) - 1)
  /\ UNCHANGED <<items, allowPainters, users, stacks>>

(* The check box of a painter in the painter list.                          *)
SetAllowPainterToDraw(u, on) ==
  /\ u \in users
  /\ on <=> u \notin allowPainters
  /\ IF on
     THEN /\ allowPainters' = allowPainters \cup {u}
          /\ tasks' = RunForward(0, currentPlayPos + 1, {u})
     ELSE /\ allowPainters' = allowPainters \ {u}
          /\ tasks' = RunBackward(currentPlayPos + 1, 0, {u})
  /\ UNCHANGED <<items, currentPlayPos, users, stacks, switches>>

(* Mutant: clearing leaves the redo stack.                                  *)
ClearHistoryCommandKeepingRedo ==
  commandList' = <<>> /\ redoCommandList' = redoCommandList

ClearHistoryCommand == commandList' = <<>> /\ redoCommandList' = <<>>

(* Clearing the screen, by the user or by a peer's packet: items, history,  *)
(* commands and the other painters of the list go.  The set of allowed      *)
(* painters stays.                                                          *)
ClearScreen ==
  /\ items' = {}
  /\ tasks' = <<>>
  /\ currentPlayPos' = DEFAULT_INIT_PLAYBACK_POS
  /\ users' = users \cap {Me}
  /\ ClearHistoryCommand
  /\ SetEnabledPainter(TRUE)
  /\ UNCHANGED allowPainters

-----------------------------------------------------------------------------
(* What the session brings.                                                 *)

(* A peer created an item: known from now on, drawn by the task to follow.  *)
(* An id that the owner's list already has is refused.                      *)
PeerCreatesItem(k) ==
  /\ k[1] # Me
  /\ k \notin items
  /\ items' = items \cup {k}
  /\ UNCHANGED <<tasks, currentPlayPos, allowPainters, users, stacks, switches>>

PeerTask(kind, k, prev, data) ==
  /\ kind \in PeerKind
  /\ k \in items \/ Stale
  /\ ExecuteTask(NewCommand(kind, k, prev, data), FALSE)
  /\ UNCHANGED <<items, allowPainters, users, stacks, switches>>

(* A painter joins, or a synchronisation names him: addHistoryUser.         *)
AnnouncePainter(u) ==
  /\ u \notin users
  /\ LateAnnounce \/ \A i \in 1 .. Len(tasks) : tasks[i].key[1] # u
  /\ users' = users \cup {u}
  /\ allowPainters' = allowPainters \cup {u}
  /\ UNCHANGED <<items, tasks, currentPlayPos, stacks, switches>>

(* closeSession and the end of a synchronisation switch editing on, the     *)
(* start of a synchronisation switches it off.                              *)
SessionEnables(on) ==
  /\ enabled' = on
  /\ UNCHANGED <<items, tasks, currentPlayPos, allowPainters, users, stacks, enabledPainter>>

-----------------------------------------------------------------------------
Edit ==
  \/ AddItem
  \/ \E k \in Key : RemoveItem(k)
  \/ \E k \in Key, prev, data \in Data : UpdateItem(k, prev, data)
  \/ \E k \in Key, prev, data \in Data : MoveItem(k, prev, data)
  \/ UndoCommand
  \/ RedoCommand

View ==
  \/ \E position \in -1 .. Len(tasks) - 1 : PlaybackTo(position)
  \/ \E u \in Painter, on \in BOOLEAN : SetAllowPainterToDraw(u, on)
  \/ ClearScreen

Session ==
  \/ \E k \in Key : PeerCreatesItem(k)
  \/ \E kind \in PeerKind, k \in Key, prev, data \in Data : PeerTask(kind, k, prev, data)
  \/ \E u \in Painter : AnnouncePainter(u)
  \/ \E on \in BOOLEAN : SessionEnables(on)

Next == Edit \/ View \/ Session

Spec == Init /\ [][Next]_historyVars

-----------------------------------------------------------------------------
(* What the history must guarantee.                                         *)

(* The play position never leaves the history, and it has its initial value *)
(* exactly when there is no history: executeTask, playbackTo and the clear  *)
(* of the screen keep position and list together (the loops of the painter  *)
(* filter index the list up to the position without a check).               *)
PlayPositionInHistory ==
  /\ currentPlayPos = DEFAULT_INIT_PLAYBACK_POS <=> tasks = <<>>
  /\ currentPlayPos \in DEFAULT_INIT_PLAYBACK_POS .. Len(tasks) - 1

(* The window is frozen exactly while playback is on, whatever tasks arrive *)
(* meanwhile, however the slider is moved and whenever the screen is        *)
(* cleared: the flag of the window is set by the slider and by the clear,   *)
(* the play position also by executeTask.                                   *)
FrozenWhilePlaying == enabledPainter <=> ~IsPlaybackMode

(* A task is on display when playback has reached it and its painter is not *)
(* hidden.                                                                  *)
OnDisplay(i) ==
  i <= currentPlayPos + 1 /\ tasks[i].key[1] \in allowPainters

(* Recording, playback in both directions and the painter filter together   *)
(* run every task exactly once when it comes on display and roll it back    *)
(* exactly once when it goes: no task is run twice, or rolled back without  *)
(* having run.                                                              *)
RunOncePerDisplay ==
  \A i \in 1 .. Len(tasks) : tasks[i].net = IF OnDisplay(i) THEN 1 ELSE 0

(* A local task is sent to the peers at most once, however often it is      *)
(* played forward again, and what came from a peer is never sent back.      *)
SentOnce(t) ==
  /\ t.sends = IF t.mine /\ ~t.send THEN 1 ELSE 0
  /\ t.send => t.mine

SentAtMostOnce == \A i \in 1 .. Len(tasks) : SentOnce(tasks[i])

(* A local task on display has been sent: what the user sees of his own     *)
(* edits, the peers were told.  Only what he does not see is still unsent.  *)
DisplayedIsSent ==
  \A i \in 1 .. Len(tasks) : OnDisplay(i) => ~tasks[i].send

(* Undo and redo only ever name items that are known: no command outlives   *)
(* the items of the screen it was made on.                                  *)
CommandsNameKnownItems ==
  /\ \A i \in 1 .. Len(commandList) : commandList[i].key \in items
  /\ \A i \in 1 .. Len(redoCommandList) : redoCommandList[i].key \in items

(* The id generated for the next item is free among the local user's items, *)
(* though it is computed from the number of everybody's items.              *)
GeneratedIdIsFree == <<Me, NextId>> \notin items
=============================================================================
