------------------------- MODULE PaintHistoryProofs -------------------------
(***************************************************************************)
(* Proofs about the history of one client, for any painters, data, bounds  *)
(* and kinds of edits.                                                     *)
(***************************************************************************)
EXTENDS PaintHistory, FiniteSetTheorems, SequenceTheorems, TLAPS

USE PaintHistoryAssumption

-----------------------------------------------------------------------------
(* What running and rolling back do to a task and to the list.              *)

(* A task that is run or rolled back stays a task, of the same item, kind   *)
(* and maker.                                                               *)
LEMMA ExecutedTask ==
  ASSUME NEW t \in Task
  PROVE  /\ Executed(t) \in Task /\ RolledBack(t) \in Task
         /\ Executed(t).key = t.key /\ RolledBack(t).key = t.key
         /\ Executed(t).mine = t.mine /\ RolledBack(t).mine = t.mine
         /\ Executed(t).net = t.net + 1 /\ RolledBack(t).net = t.net - 1
         /\ Executed(t).send = FALSE /\ RolledBack(t).send = t.send
         /\ Executed(t).sends = (IF t.send THEN t.sends + 1 ELSE t.sends)
         /\ RolledBack(t).sends = t.sends
<1>1. /\ t.kind \in Kind /\ t.key \in Key /\ t.prev \in Data /\ t.data \in Data
      /\ t.mine \in BOOLEAN /\ t.send \in BOOLEAN /\ t.sends \in Nat /\ t.net \in Int
  BY DEF Task
<1>2. DOMAIN t = {"kind", "key", "prev", "data", "mine", "send", "sends", "net"}
  BY DEF Task
<1> DEFINE s == IF t.send THEN t.sends + 1 ELSE t.sends
<1>3. s \in Nat
  BY <1>1
<1>4. RolledBack(t) \in Task
  BY DEF Task, RolledBack
<1>5. Executed(t) = [t EXCEPT !.net = t.net + 1, !.sends = s, !.send = FALSE]
  BY DEF Executed
<1> HIDE DEF s
<1>6. Executed(t) \in Task
  <2> DEFINE u == [t EXCEPT !.net = t.net + 1]
             v == [u EXCEPT !.sends = s]
             w == [v EXCEPT !.send = FALSE]
  <2>1. u \in Task
    BY <1>1 DEF Task
  <2> HIDE DEF u
  <2>2. v \in Task
    BY <1>3, <2>1 DEF Task
  <2> HIDE DEF v
  <2>3. w \in Task
    BY <2>2 DEF Task
  <2> HIDE DEF w
  <2>4. w = Executed(t)
    BY <1>2, <1>5, <2>1, <2>2 DEF u, v, w
  <2> QED
    BY <2>3, <2>4
<1>7. /\ RolledBack(t).key = t.key /\ RolledBack(t).mine = t.mine
      /\ RolledBack(t).net = t.net - 1
      /\ RolledBack(t).send = t.send /\ RolledBack(t).sends = t.sends
  BY <1>2 DEF RolledBack
<1>8. /\ Executed(t).key = t.key /\ Executed(t).mine = t.mine
      /\ Executed(t).net = t.net + 1
      /\ Executed(t).send = FALSE /\ Executed(t).sends = s
  BY <1>2, <1>5
<1>9. s = IF t.send THEN t.sends + 1 ELSE t.sends
  BY DEF s
<1> QED
  BY <1>4, <1>6, <1>7, <1>8, <1>9, Zenon

(* Playback and the painter filter keep the list a list of tasks of the     *)
(* same length, with the same item and maker in every place.                *)
LEMMA RunTasks ==
  ASSUME tasks \in Seq(Task), NEW from \in Int, NEW to \in Int, NEW who
  PROVE  /\ RunForward(from, to, who) \in Seq(Task)
         /\ RunBackward(from, to, who) \in Seq(Task)
         /\ Len(RunForward(from, to, who)) = Len(tasks)
         /\ Len(RunBackward(from, to, who)) = Len(tasks)
         /\ \A i \in 1 .. Len(tasks) :
              /\ RunForward(from, to, who)[i] =
                   IF from < i /\ i <= to /\ tasks[i].key[1] \in who
                   THEN Executed(tasks[i]) ELSE tasks[i]
              /\ RunBackward(from, to, who)[i] =
                   IF to < i /\ i <= from /\ tasks[i].key[1] \in who
                   THEN RolledBack(tasks[i]) ELSE tasks[i]
              /\ tasks[i] \in Task
<1>1. \A i \in 1 .. Len(tasks) : tasks[i] \in Task
  OBVIOUS
<1>2. \A i \in 1 .. Len(tasks) : Executed(tasks[i]) \in Task /\ RolledBack(tasks[i]) \in Task
  BY <1>1, ExecutedTask
<1>3. \A i \in 1 .. Len(tasks) :
        /\ (IF from < i /\ i <= to /\ tasks[i].key[1] \in who
            THEN Executed(tasks[i]) ELSE tasks[i]) \in Task
        /\ (IF to < i /\ i <= from /\ tasks[i].key[1] \in who
            THEN RolledBack(tasks[i]) ELSE tasks[i]) \in Task
  BY <1>1, <1>2
<1>4. Len(tasks) \in Nat
  OBVIOUS
<1>5. /\ RunForward(from, to, who) \in [1 .. Len(tasks) -> Task]
      /\ RunBackward(from, to, who) \in [1 .. Len(tasks) -> Task]
  BY <1>3 DEF RunForward, RunBackward
<1>6. \A f \in [1 .. Len(tasks) -> Task] : f \in Seq(Task) /\ Len(f) = Len(tasks)
  BY <1>4
<1> QED
  BY <1>1, <1>5, <1>6 DEF RunForward, RunBackward

(* The history after recording a task: one task longer, and its last task   *)
(* is the new one, run at once unless it is skipped.                        *)
LEMMA RecordTask ==
  ASSUME tasks \in Seq(Task), currentPlayPos \in Int,
         NEW c \in Command, NEW sendData \in BOOLEAN, ExecuteTask(c, sendData)
  PROVE  /\ tasks' \in Seq(Task)
         /\ currentPlayPos' \in Int
         /\ Len(tasks') = Len(tasks) + 1
         /\ Len(tasks) \in Nat
         /\ \A i \in 1 .. Len(tasks) : tasks'[i] = tasks[i]
         /\ LET t == tasks'[Len(tasks) + 1]
            IN  /\ t \in Task
                /\ t.key = c.key /\ t.mine = sendData
                /\ t.net = IF Skipped(c.key) THEN 0 ELSE 1
                /\ t.send = IF Skipped(c.key) THEN sendData ELSE FALSE
                /\ t.sends = IF ~Skipped(c.key) /\ sendData THEN 1 ELSE 0
<1> DEFINE task == [kind |-> c.kind, key |-> c.key, prev |-> c.prev, data |-> c.data,
                    mine |-> sendData, send |-> sendData, sends |-> 0, net |-> 0]
           new == IF Skipped(c.key) THEN task ELSE Executed(task)
<1>1. task \in Task
  BY DEF Command, Task
<1>2. new \in Task
  BY <1>1, ExecutedTask
<1>3. tasks' = Append(tasks, new)
  BY DEF ExecuteTask
<1>4. currentPlayPos' \in Int
  BY DEF ExecuteTask, PositionAfterPush
<1>5. /\ new.key = c.key /\ new.mine = sendData
      /\ new.net = IF Skipped(c.key) THEN 0 ELSE 1
      /\ new.send = IF Skipped(c.key) THEN sendData ELSE FALSE
      /\ new.sends = IF ~Skipped(c.key) /\ sendData THEN 1 ELSE 0
  <2>1. /\ task.key = c.key /\ task.mine = sendData /\ task.send = sendData
        /\ task.sends = 0 /\ task.net = 0
    OBVIOUS
  <2>2. /\ Executed(task).key = task.key /\ Executed(task).mine = task.mine
        /\ Executed(task).net = task.net + 1 /\ Executed(task).send = FALSE
        /\ Executed(task).sends = (IF task.send THEN task.sends + 1 ELSE task.sends)
    BY <1>1, ExecutedTask
  <2> HIDE DEF task
  <2>3. CASE Skipped(c.key)
    BY <2>1, <2>3
  <2>4. CASE ~Skipped(c.key)
    <3>1. Executed(task).sends = (IF sendData THEN 1 ELSE 0)
      BY <2>1, <2>2
    <3>2. new = Executed(task)
      BY <2>4
    <3> DEFINE n == new
    <3>3. n = Executed(task)
      BY <3>2
    <3> HIDE DEF n, new
    <3>4. /\ n.key = c.key /\ n.mine = sendData /\ n.net = 1 /\ n.send = FALSE
          /\ n.sends = IF sendData THEN 1 ELSE 0
      BY <2>1, <2>2, <3>1, <3>3
    <3> QED
      BY <2>4, <3>4 DEF n
  <2> QED
    BY <2>3, <2>4
<1> HIDE DEF new
<1>6. /\ tasks' \in Seq(Task) /\ Len(tasks') = Len(tasks) + 1 /\ Len(tasks) \in Nat
      /\ \A i \in 1 .. Len(tasks) : tasks'[i] = tasks[i]
      /\ tasks'[Len(tasks) + 1] = new
  BY <1>2, <1>3
<1> QED
  BY <1>2, <1>4, <1>5, <1>6

-----------------------------------------------------------------------------
(* Type correctness.                                                        *)

(* Taking the top off a stack of commands leaves a stack of commands, and   *)
(* undoing a command is a command.                                          *)
LEMMA StackTypes ==
  ASSUME NEW s \in Seq(Command), s # <<>>
  PROVE  /\ s[Len(s)] \in Command
         /\ UndoTask(s[Len(s)]) \in Command
         /\ SubSeq(s, 1, Len(s) - 1) \in Seq(Command)
<1>1. Len(s) \in Nat \ {0}
  OBVIOUS
<1>2. s[Len(s)] \in Command
  BY <1>1
<1>3. \A c \in Command : UndoTask(c) \in Command
  <2> SUFFICES ASSUME NEW c \in Command PROVE UndoTask(c) \in Command
    OBVIOUS
  <2>1. c.kind \in Kind
    BY DEF Command
  <2>2. /\ [c EXCEPT !.kind = "remove"] \in Command
        /\ [c EXCEPT !.kind = "add"] \in Command
    BY DEF Command, Kind
  <2> QED
    BY <2>1, <2>2 DEF UndoTask, Kind
<1>4. SubSeq(s, 1, Len(s) - 1) \in Seq(Command)
  BY <1>1
<1> QED
  BY <1>2, <1>3, <1>4

(* A command made of a kind, an item, and what it was and becomes.          *)
LEMMA NewCommandType ==
  ASSUME NEW kind \in Kind, NEW k \in Key, NEW prev \in Data, NEW data \in Data
  PROVE  NewCommand(kind, k, prev, data) \in Command
BY DEF NewCommand, Command

(* Nothing said of an item is data too.                                     *)
LEMMA NoDataType == NoData \in Data
OBVIOUS

(* A command is executed, pushed and typed.                                 *)
LEMMA ExecuteCommandType ==
  ASSUME TypeOK, NEW c \in Command, ExecuteCommand(c)
  PROVE  /\ tasks' \in Seq(Task) /\ currentPlayPos' \in Int
         /\ commandList' \in Seq(Command) /\ redoCommandList' \in Seq(Command)
<1>1. tasks' \in Seq(Task) /\ currentPlayPos' \in Int
  BY RecordTask DEF ExecuteCommand, TypeOK
<1> QED
  BY <1>1 DEF ExecuteCommand, TypeOK

(* There are finitely many items.                                           *)
LEMMA FiniteKeys == \A S : S \subseteq Key => IsFiniteSet(S)
<1>1. IsFiniteSet(1 .. MaxId)
  BY FS_Interval
<1>2. IsFiniteSet(Painter \X (1 .. MaxId))
  BY <1>1, FS_Product
<1> QED
  BY <1>2, FS_Subset DEF Key

(* Every action of Next preserves the types.                                *)
LEMMA TypeStep ==
  ASSUME TypeOK, [Next]_historyVars
  PROVE  TypeOK'
<1> USE DEF TypeOK
<1>1. CASE AddItem
  <2>1. <<Me, NextId>> \in Key
    <3>1. IsFiniteSet(items) => Cardinality(items) \in Nat
      BY FS_CardinalityType
    <3> QED
      BY <1>1, <3>1, FiniteKeys DEF AddItem, NextId, Key
  <2>2. NewCommand("add", <<Me, NextId>>, NoData, NoData) \in Command
    BY <2>1, NewCommandType, NoDataType DEF Kind
  <2> QED
    BY <1>1, <2>1, <2>2, ExecuteCommandType DEF AddItem, switches
<1>2. ASSUME NEW k \in Key, RemoveItem(k) PROVE TypeOK'
  <2>1. NewCommand("remove", k, NoData, NoData) \in Command
    BY NewCommandType, NoDataType DEF Kind
  <2> QED
    BY <1>2, <2>1, ExecuteCommandType DEF RemoveItem, switches
<1>3. ASSUME NEW k \in Key, NEW prev \in Data, NEW data \in Data, UpdateItem(k, prev, data)
      PROVE  TypeOK'
  <2>1. NewCommand("update", k, prev, data) \in Command
    BY NewCommandType DEF Kind
  <2> QED
    BY <1>3, <2>1, ExecuteCommandType DEF UpdateItem, switches
<1>4. ASSUME NEW k \in Key, NEW prev \in Data, NEW data \in Data, MoveItem(k, prev, data)
      PROVE  TypeOK'
  <2>1. NewCommand("move", k, prev, data) \in Command
    BY NewCommandType DEF Kind
  <2> QED
    BY <1>4, <2>1, ExecuteCommandType DEF MoveItem, switches
<1>5. CASE UndoCommand
  <2>1. /\ commandList[Len(commandList)] \in Command
        /\ UndoTask(commandList[Len(commandList)]) \in Command
        /\ SubSeq(commandList, 1, Len(commandList) - 1) \in Seq(Command)
    BY <1>5, StackTypes DEF UndoCommand
  <2>2. tasks' \in Seq(Task) /\ currentPlayPos' \in Int
    BY <1>5, <2>1, RecordTask DEF UndoCommand
  <2> QED
    BY <1>5, <2>1, <2>2 DEF UndoCommand, switches
<1>6. CASE RedoCommand
  <2>1. /\ redoCommandList[Len(redoCommandList)] \in Command
        /\ SubSeq(redoCommandList, 1, Len(redoCommandList) - 1) \in Seq(Command)
    BY <1>6, StackTypes DEF RedoCommand
  <2>2. tasks' \in Seq(Task) /\ currentPlayPos' \in Int
    BY <1>6, <2>1, RecordTask DEF RedoCommand
  <2> QED
    BY <1>6, <2>1, <2>2 DEF RedoCommand, switches
<1>7. ASSUME NEW position \in -1 .. Len(tasks) - 1, PlaybackTo(position) PROVE TypeOK'
  <2>1. position \in Int
    OBVIOUS
  <2>2. tasks' \in Seq(Task)
    BY <1>7, <2>1, RunTasks DEF PlaybackTo
  <2>3. enabled' \in BOOLEAN /\ enabledPainter' \in BOOLEAN
    BY <1>7 DEF PlaybackTo, SetEnabledPainter
  <2> QED
    BY <1>7, <2>1, <2>2, <2>3 DEF PlaybackTo, stacks
<1>8. ASSUME NEW u \in Painter, NEW on \in BOOLEAN, SetAllowPainterToDraw(u, on) PROVE TypeOK'
  <2>0. /\ RunForward(0, currentPlayPos + 1, {u}) \in Seq(Task)
        /\ RunBackward(currentPlayPos + 1, 0, {u}) \in Seq(Task)
    <3>1. tasks \in Seq(Task) /\ 0 \in Int /\ currentPlayPos + 1 \in Int
      BY DEF TypeOK
    <3> QED
      BY <3>1, RunTasks, Zenon
  <2>1. tasks' \in Seq(Task) /\ allowPainters' \subseteq Painter
    <3>1. CASE on
      BY <1>8, <2>0, <3>1 DEF SetAllowPainterToDraw, TypeOK
    <3>2. CASE ~on
      BY <1>8, <2>0, <3>2 DEF SetAllowPainterToDraw, TypeOK
    <3> QED
      BY <3>1, <3>2
  <2> QED
    BY <1>8, <2>0, <2>1 DEF SetAllowPainterToDraw, stacks, switches
<1>9. CASE ClearScreen
  <2>1. enabled' \in BOOLEAN /\ enabledPainter' \in BOOLEAN
    BY <1>9 DEF ClearScreen, SetEnabledPainter
  <2>2. tasks' \in Seq(Task) /\ commandList' \in Seq(Command) /\ redoCommandList' \in Seq(Command)
    BY <1>9 DEF ClearScreen, ClearHistoryCommand
  <2> QED
    BY <1>9, <2>1, <2>2 DEF ClearScreen, DEFAULT_INIT_PLAYBACK_POS
<1>10. ASSUME NEW k \in Key, PeerCreatesItem(k) PROVE TypeOK'
  BY <1>10 DEF PeerCreatesItem, stacks, switches
<1>11. ASSUME NEW kind \in PeerKind, NEW k \in Key, NEW prev \in Data, NEW data \in Data,
              PeerTask(kind, k, prev, data)
       PROVE  TypeOK'
  <2>1. NewCommand(kind, k, prev, data) \in Command
    BY NewCommandType
  <2>2. tasks' \in Seq(Task) /\ currentPlayPos' \in Int
    BY <1>11, <2>1, RecordTask DEF PeerTask
  <2> QED
    BY <1>11, <2>2 DEF PeerTask, stacks, switches
<1>12. ASSUME NEW u \in Painter, AnnouncePainter(u) PROVE TypeOK'
  BY <1>12 DEF AnnouncePainter, stacks, switches
<1>13. ASSUME NEW on \in BOOLEAN, SessionEnables(on) PROVE TypeOK'
  BY <1>13 DEF SessionEnables, stacks
<1>14. CASE UNCHANGED historyVars
  BY <1>14 DEF historyVars, stacks, switches
<1> QED
  BY <1>1, <1>2, <1>3, <1>4, <1>5, <1>6, <1>7, <1>8, <1>9, <1>10, <1>11, <1>12, <1>13, <1>14
  DEF Next, Edit, View, Session

(* Every variable of the history keeps its type; in particular every task   *)
(* and every command names a painter and an id in range.                    *)
THEOREM TypeCorrect == Spec => []TypeOK
<1>1. Init => TypeOK
  BY DEF Init, TypeOK, DEFAULT_INIT_PLAYBACK_POS
<1>2. TypeOK /\ [Next]_historyVars => TypeOK'
  BY TypeStep
<1> QED
  BY <1>1, <1>2, PTL DEF Spec

-----------------------------------------------------------------------------
(* What a step can do to the list of tasks.                                 *)

Records ==
  /\ \E c \in Command, sendData \in BOOLEAN : ExecuteTask(c, sendData)
  /\ UNCHANGED <<allowPainters, users, enabledPainter>>

LeavesTasks == UNCHANGED <<tasks, currentPlayPos, allowPainters, enabledPainter>>

(* Seven actions record one task and leave the filter and the window alone; *)
(* four others touch the list, the position, the filter or the window.      *)
LEMMA StepKinds ==
  ASSUME TypeOK, [Next]_historyVars
  PROVE  \/ Records
         \/ \E position \in -1 .. Len(tasks) - 1 : PlaybackTo(position)
         \/ \E u \in Painter, on \in BOOLEAN : SetAllowPainterToDraw(u, on)
         \/ ClearScreen
         \/ \E u \in Painter : AnnouncePainter(u)
         \/ LeavesTasks
<1>1. CASE AddItem
  <2>1. <<Me, NextId>> \in Key
    <3>1. Cardinality(items) \in Nat
      BY FiniteKeys, FS_CardinalityType DEF TypeOK
    <3> QED
      BY <1>1, <3>1 DEF AddItem, NextId, Key
  <2>2. NewCommand("add", <<Me, NextId>>, NoData, NoData) \in Command
    BY <2>1, NewCommandType, NoDataType DEF Kind
  <2>3. ExecuteTask(NewCommand("add", <<Me, NextId>>, NoData, NoData), TRUE)
    BY <1>1 DEF AddItem, ExecuteCommand
  <2> QED
    BY <1>1, <2>2, <2>3 DEF AddItem, Records, switches
<1>2. ASSUME NEW k \in Key, RemoveItem(k) PROVE Records
  <2>1. NewCommand("remove", k, NoData, NoData) \in Command
    BY NewCommandType, NoDataType DEF Kind
  <2> QED
    BY <1>2, <2>1 DEF RemoveItem, ExecuteCommand, Records, switches
<1>3. ASSUME NEW k \in Key, NEW prev \in Data, NEW data \in Data, UpdateItem(k, prev, data)
      PROVE  Records
  <2>1. NewCommand("update", k, prev, data) \in Command
    BY NewCommandType DEF Kind
  <2> QED
    BY <1>3, <2>1 DEF UpdateItem, ExecuteCommand, Records, switches
<1>4. ASSUME NEW k \in Key, NEW prev \in Data, NEW data \in Data, MoveItem(k, prev, data)
      PROVE  Records
  <2>1. NewCommand("move", k, prev, data) \in Command
    BY NewCommandType DEF Kind
  <2> QED
    BY <1>4, <2>1 DEF MoveItem, ExecuteCommand, Records, switches
<1>5. CASE UndoCommand
  <2>1. UndoTask(commandList[Len(commandList)]) \in Command
    BY <1>5, StackTypes DEF UndoCommand, TypeOK
  <2> QED
    BY <1>5, <2>1 DEF UndoCommand, Records, switches
<1>6. CASE RedoCommand
  <2>1. redoCommandList[Len(redoCommandList)] \in Command
    BY <1>6, StackTypes DEF RedoCommand, TypeOK
  <2> QED
    BY <1>6, <2>1 DEF RedoCommand, Records, switches
<1>7. ASSUME NEW k \in Key, PeerCreatesItem(k) PROVE LeavesTasks
  BY <1>7 DEF PeerCreatesItem, LeavesTasks, switches
<1>8. ASSUME NEW kind \in PeerKind, NEW k \in Key, NEW prev \in Data, NEW data \in Data,
             PeerTask(kind, k, prev, data)
      PROVE  Records
  <2>1. NewCommand(kind, k, prev, data) \in Command
    BY NewCommandType
  <2> QED
    BY <1>8, <2>1 DEF PeerTask, Records, switches
<1>9. ASSUME NEW on \in BOOLEAN, SessionEnables(on) PROVE LeavesTasks
  BY <1>9 DEF SessionEnables, LeavesTasks
<1>10. CASE UNCHANGED historyVars
  BY <1>10 DEF historyVars, LeavesTasks, switches
<1> QED
  BY <1>1, <1>2, <1>3, <1>4, <1>5, <1>6, <1>7, <1>8, <1>9, <1>10
  DEF Next, Edit, View, Session

-----------------------------------------------------------------------------
(* The play position and the window.                                        *)

(* The inductive invariant for the play position: the guard of playback     *)
(* (IsPlaybackMode) reads the position and the length of the list, and the  *)
(* window's flag follows it, so none of the two is inductive by itself.     *)
PositionInv == TypeOK /\ PlayPositionInHistory /\ FrozenWhilePlaying

(* Every step keeps position, list and window together.                     *)
LEMMA PositionStep ==
  ASSUME PositionInv, [Next]_historyVars
  PROVE  PlayPositionInHistory' /\ FrozenWhilePlaying'
<1> USE DEF DEFAULT_INIT_PLAYBACK_POS
<1>1. /\ tasks \in Seq(Task) /\ Len(tasks) \in Nat /\ currentPlayPos \in Int
      /\ tasks = <<>> <=> Len(tasks) = 0
      /\ enabledPainter \in BOOLEAN
  BY DEF PositionInv, TypeOK
<1>2. /\ tasks' \in Seq(Task) /\ Len(tasks') \in Nat /\ currentPlayPos' \in Int
      /\ tasks' = <<>> <=> Len(tasks') = 0
      /\ enabledPainter' \in BOOLEAN
  <2>1. TypeOK'
    BY TypeStep DEF PositionInv
  <2> QED
    BY <2>1 DEF TypeOK
<1>3. /\ currentPlayPos = -2 <=> Len(tasks) = 0
      /\ currentPlayPos >= -2 /\ currentPlayPos <= Len(tasks) - 1
      /\ enabledPainter <=> currentPlayPos = -2 \/ currentPlayPos = Len(tasks) - 1
  BY <1>1 DEF PositionInv, PlayPositionInHistory, FrozenWhilePlaying, IsPlaybackMode
<1>4. SUFFICES /\ currentPlayPos' = -2 <=> Len(tasks') = 0
               /\ currentPlayPos' >= -2 /\ currentPlayPos' <= Len(tasks') - 1
               /\ enabledPainter' <=> currentPlayPos' = -2 \/ currentPlayPos' = Len(tasks') - 1
  BY <1>2 DEF PlayPositionInHistory, FrozenWhilePlaying, IsPlaybackMode
<1>5. CASE Records
  <2>1. PICK c \in Command, sendData \in BOOLEAN : ExecuteTask(c, sendData)
    BY <1>5 DEF Records
  <2>2. Len(tasks') = Len(tasks) + 1
    BY <1>1, <2>1, RecordTask
  <2>3. currentPlayPos' = IF IsPlaybackMode THEN currentPlayPos ELSE Len(tasks)
    BY <2>1 DEF ExecuteTask, PositionAfterPush
  <2>4. enabledPainter' = enabledPainter
    BY <1>5 DEF Records
  <2> QED
    BY <1>1, <1>3, <2>2, <2>3, <2>4 DEF IsPlaybackMode
<1>6. ASSUME NEW position \in -1 .. Len(tasks) - 1, PlaybackTo(position)
      PROVE  /\ currentPlayPos' = -2 <=> Len(tasks') = 0
             /\ currentPlayPos' >= -2 /\ currentPlayPos' <= Len(tasks') - 1
             /\ enabledPainter' <=> currentPlayPos' = -2 \/ currentPlayPos' = Len(tasks') - 1
  <2>1. Len(tasks') = Len(tasks)
    BY <1>1, <1>6, RunTasks DEF PlaybackTo
  <2>2. /\ currentPlayPos' = position /\ tasks # <<>>
        /\ enabledPainter' <=> position = Len(tasks) - 1
    BY <1>2, <1>6 DEF PlaybackTo, SetEnabledPainter
  <2> QED
    BY <1>1, <2>1, <2>2
<1>7. ASSUME NEW u \in Painter, NEW on \in BOOLEAN, SetAllowPainterToDraw(u, on)
      PROVE  Len(tasks') = Len(tasks) /\ UNCHANGED <<currentPlayPos, enabledPainter>>
  <2>1. /\ Len(RunForward(0, currentPlayPos + 1, {u})) = Len(tasks)
        /\ Len(RunBackward(currentPlayPos + 1, 0, {u})) = Len(tasks)
    BY <1>1, RunTasks
  <2> QED
    BY <1>7, <2>1 DEF SetAllowPainterToDraw, switches
<1>8. CASE ClearScreen
  BY <1>2, <1>8 DEF ClearScreen, SetEnabledPainter
<1>9. ASSUME NEW u \in Painter, AnnouncePainter(u)
      PROVE  UNCHANGED <<tasks, currentPlayPos, enabledPainter>>
  BY <1>9 DEF AnnouncePainter, switches
<1>10. CASE LeavesTasks
  BY <1>3, <1>10 DEF LeavesTasks
<1> QED
  BY <1>3, <1>5, <1>6, <1>7, <1>8, <1>9, <1>10, StepKinds DEF PositionInv

(* The empty history is at its initial position, the window not frozen.     *)
LEMMA PositionInit == Init => PositionInv
<1> SUFFICES ASSUME Init PROVE PositionInv
  OBVIOUS
<1>1. Len(tasks) = 0 /\ tasks = <<>> /\ currentPlayPos = -2 /\ enabledPainter
  BY DEF Init, DEFAULT_INIT_PLAYBACK_POS
<1>2. TypeOK
  BY DEF Init, TypeOK, DEFAULT_INIT_PLAYBACK_POS
<1> QED
  BY <1>1, <1>2 DEF PositionInv, PlayPositionInHistory, FrozenWhilePlaying,
                    IsPlaybackMode, DEFAULT_INIT_PLAYBACK_POS

(* The play position stays in the history, and the window is frozen exactly *)
(* while playback is on: executeTask, the slider and the clear of the       *)
(* screen keep the position, the list and the window together.              *)
THEOREM PositionAndWindow == Spec => [](PlayPositionInHistory /\ FrozenWhilePlaying)
<1>1. Init => PositionInv
  BY PositionInit
<1>2. PositionInv /\ [Next]_historyVars => PositionInv'
  BY PositionStep, TypeStep DEF PositionInv
<1>3. PositionInv => PlayPositionInHistory /\ FrozenWhilePlaying
  BY DEF PositionInv
<1> QED
  BY <1>1, <1>2, <1>3, PTL DEF Spec

-----------------------------------------------------------------------------
(* Sending.                                                                 *)

(* Running a task that was sent at most once sends it only if it was not    *)
(* sent yet; rolling it back sends nothing.                                 *)
LEMMA SentStaysSent ==
  ASSUME NEW t \in Task, SentOnce(t)
  PROVE  SentOnce(Executed(t)) /\ SentOnce(RolledBack(t))
<1>1. t.send \in BOOLEAN /\ t.mine \in BOOLEAN
  BY DEF Task
<1>2. SentOnce(Executed(t))
  <2>1. CASE t.send
    <3>1. t.mine /\ t.sends = 0
      BY <2>1, Zenon DEF SentOnce
    <3>2. /\ Executed(t).sends = t.sends + 1 /\ Executed(t).mine = t.mine
          /\ Executed(t).send = FALSE
      BY <2>1, ExecutedTask, Zenon
    <3> QED
      BY <3>1, <3>2 DEF SentOnce
  <2>2. CASE ~t.send
    <3>1. /\ Executed(t).sends = t.sends /\ Executed(t).mine = t.mine
          /\ Executed(t).send = FALSE
      BY <1>1, <2>2, ExecutedTask
    <3> QED
      BY <1>1, <2>2, <3>1 DEF SentOnce
  <2> QED
    BY <2>1, <2>2
<1>3. SentOnce(RolledBack(t))
  <2>1. /\ RolledBack(t).sends = t.sends /\ RolledBack(t).mine = t.mine
        /\ RolledBack(t).send = t.send
    BY ExecutedTask
  <2> QED
    BY <2>1, Zenon DEF SentOnce
<1> QED
  BY <1>2, <1>3

(* The loops of playback and of the painter filter send no task twice.      *)
LEMMA SentRun ==
  ASSUME TypeOK, SentAtMostOnce, NEW from \in Int, NEW to \in Int, NEW who,
         tasks' = RunForward(from, to, who) \/ tasks' = RunBackward(from, to, who)
  PROVE  SentAtMostOnce'
<1>1. tasks \in Seq(Task) /\ Len(tasks') = Len(tasks)
  <2>1. tasks \in Seq(Task)
    BY DEF TypeOK
  <2>2. /\ Len(RunForward(from, to, who)) = Len(tasks)
        /\ Len(RunBackward(from, to, who)) = Len(tasks)
    BY <2>1, RunTasks
  <2> QED
    BY <2>1, <2>2
<1>2. SUFFICES ASSUME NEW i \in 1 .. Len(tasks) PROVE SentOnce(tasks'[i])
  BY <1>1 DEF SentAtMostOnce
<1>3. tasks[i] \in Task /\ SentOnce(tasks[i])
  BY <1>1 DEF SentAtMostOnce
<1>4. tasks'[i] \in {tasks[i], Executed(tasks[i]), RolledBack(tasks[i])}
  BY <1>1, RunTasks
<1> QED
  BY <1>3, <1>4, SentStaysSent

(* Every step keeps all tasks sent at most once.                            *)
LEMMA SentStep ==
  ASSUME TypeOK, SentAtMostOnce, [Next]_historyVars
  PROVE  SentAtMostOnce'
<1>1. tasks \in Seq(Task) /\ currentPlayPos \in Int
  BY DEF TypeOK
<1>2. CASE Records
  <2>1. PICK c \in Command, sendData \in BOOLEAN : ExecuteTask(c, sendData)
    BY <1>2 DEF Records
  <2> DEFINE t == tasks'[Len(tasks) + 1]
  <2>2. /\ Len(tasks) \in Nat /\ Len(tasks') = Len(tasks) + 1
        /\ \A i \in 1 .. Len(tasks) : tasks'[i] = tasks[i]
        /\ t.mine = sendData
        /\ t.send = IF Skipped(c.key) THEN sendData ELSE FALSE
        /\ t.sends = IF ~Skipped(c.key) /\ sendData THEN 1 ELSE 0
    BY <1>1, <2>1, RecordTask
  <2> HIDE DEF t
  <2>3. SentOnce(t)
    <3>1. CASE Skipped(c.key)
      BY <2>2, <3>1 DEF SentOnce
    <3>2. CASE ~Skipped(c.key)
      BY <2>2, <3>2 DEF SentOnce
    <3> QED
      BY <3>1, <3>2
  <2> QED
    BY <2>2, <2>3 DEF SentAtMostOnce, t
<1>3. ASSUME NEW position \in -1 .. Len(tasks) - 1, PlaybackTo(position) PROVE SentAtMostOnce'
  BY <1>1, <1>3, SentRun DEF PlaybackTo
<1>4. ASSUME NEW u \in Painter, NEW on \in BOOLEAN, SetAllowPainterToDraw(u, on)
      PROVE  SentAtMostOnce'
  BY <1>1, <1>4, SentRun DEF SetAllowPainterToDraw
<1>5. CASE ClearScreen
  BY <1>5 DEF ClearScreen, SentAtMostOnce
<1>6. ASSUME NEW u \in Painter, AnnouncePainter(u) PROVE UNCHANGED tasks
  BY <1>6 DEF AnnouncePainter
<1>7. CASE LeavesTasks
  BY <1>7 DEF LeavesTasks, SentAtMostOnce
<1> QED
  BY <1>2, <1>3, <1>4, <1>5, <1>6, <1>7, StepKinds DEF SentAtMostOnce

(* No task is sent twice and no peer's task is sent back, however often     *)
(* playback and the painter filter execute it again.                        *)
THEOREM SentOnceTheorem == Spec => []SentAtMostOnce
<1>1. Init => TypeOK /\ SentAtMostOnce
  BY DEF Init, TypeOK, SentAtMostOnce, DEFAULT_INIT_PLAYBACK_POS
<1>2. TypeOK /\ SentAtMostOnce /\ [Next]_historyVars => TypeOK' /\ SentAtMostOnce'
  BY TypeStep, SentStep
<1> QED
  BY <1>1, <1>2, PTL DEF Spec

-----------------------------------------------------------------------------
(* Running once per display.                                                *)

DisplayInv == PositionInv /\ RunOncePerDisplay /\ DisplayedIsSent

(* Tasks that are run as they come on display, or rolled back as they go,   *)
(* and the others left alone.                                               *)
LEMMA RunsWhatChanges ==
  ASSUME DisplayInv, TypeOK', NEW from \in Int, NEW to \in Int, NEW who,
         \/ /\ tasks' = RunForward(from, to, who)
            /\ \A i \in 1 .. Len(tasks) :
                 LET runs == from < i /\ i <= to /\ tasks[i].key[1] \in who
                     shown == i <= currentPlayPos' + 1 /\ tasks[i].key[1] \in allowPainters'
                 IN  /\ runs => ~OnDisplay(i) /\ shown
                     /\ ~runs => (shown <=> OnDisplay(i))
         \/ /\ tasks' = RunBackward(from, to, who)
            /\ \A i \in 1 .. Len(tasks) :
                 LET runs == to < i /\ i <= from /\ tasks[i].key[1] \in who
                     shown == i <= currentPlayPos' + 1 /\ tasks[i].key[1] \in allowPainters'
                 IN  /\ runs => OnDisplay(i) /\ ~shown
                     /\ ~runs => (shown <=> OnDisplay(i))
  PROVE  RunOncePerDisplay' /\ DisplayedIsSent'
<1>1. tasks \in Seq(Task)
  BY DEF DisplayInv, PositionInv, TypeOK
<1>2. /\ Len(tasks') = Len(tasks)
      /\ \A i \in 1 .. Len(tasks) : tasks[i] \in Task
  <2>1. /\ Len(RunForward(from, to, who)) = Len(tasks)
        /\ Len(RunBackward(from, to, who)) = Len(tasks)
        /\ \A i \in 1 .. Len(tasks) : tasks[i] \in Task
    BY <1>1, RunTasks
  <2> QED
    BY <2>1
<1>3. SUFFICES ASSUME NEW i \in 1 .. Len(tasks)
               PROVE  /\ tasks'[i].net = IF OnDisplay(i)' THEN 1 ELSE 0
                      /\ OnDisplay(i)' => ~tasks'[i].send
  BY <1>2 DEF RunOncePerDisplay, DisplayedIsSent
<1> DEFINE t == tasks[i]
           shown == i <= currentPlayPos' + 1 /\ t.key[1] \in allowPainters'
<1>4. /\ t \in Task /\ t.net = (IF OnDisplay(i) THEN 1 ELSE 0)
      /\ OnDisplay(i) => ~t.send
  BY <1>2 DEF DisplayInv, RunOncePerDisplay, DisplayedIsSent
<1>5. /\ Executed(t).key = t.key /\ RolledBack(t).key = t.key
      /\ Executed(t).net = t.net + 1 /\ RolledBack(t).net = t.net - 1
      /\ Executed(t).send = FALSE
  BY <1>4, ExecutedTask
<1>6. CASE tasks' = RunForward(from, to, who)
           /\ from < i /\ i <= to /\ t.key[1] \in who /\ ~OnDisplay(i) /\ shown
  <2>1. tasks'[i] = Executed(t)
    BY <1>1, <1>6, RunTasks
  <2>2. OnDisplay(i)'
    BY <1>5, <1>6, <2>1 DEF OnDisplay
  <2> QED
    BY <1>4, <1>5, <1>6, <2>1, <2>2
<1>7. CASE tasks' = RunBackward(from, to, who)
           /\ to < i /\ i <= from /\ t.key[1] \in who /\ OnDisplay(i) /\ ~shown
  <2>1. tasks'[i] = RolledBack(t)
    BY <1>1, <1>7, RunTasks
  <2>2. ~OnDisplay(i)'
    BY <1>5, <1>7, <2>1 DEF OnDisplay
  <2> QED
    BY <1>4, <1>5, <1>7, <2>1, <2>2
<1>8. CASE tasks'[i] = t /\ (shown <=> OnDisplay(i))
  <2>1. OnDisplay(i)' <=> OnDisplay(i)
    BY <1>8 DEF OnDisplay
  <2> QED
    BY <1>4, <1>8, <2>1
<1>9. \/ tasks' = RunForward(from, to, who) /\ from < i /\ i <= to /\ t.key[1] \in who
            /\ ~OnDisplay(i) /\ shown
      \/ tasks' = RunBackward(from, to, who) /\ to < i /\ i <= from /\ t.key[1] \in who
            /\ OnDisplay(i) /\ ~shown
      \/ tasks'[i] = t /\ (shown <=> OnDisplay(i))
  <2>1. CASE /\ tasks' = RunForward(from, to, who)
             /\ LET runs == from < i /\ i <= to /\ t.key[1] \in who
                IN  (runs => ~OnDisplay(i) /\ shown) /\ (~runs => (shown <=> OnDisplay(i)))
    <3>1. ~(from < i /\ i <= to /\ t.key[1] \in who) => tasks'[i] = t
      BY <1>1, <2>1, RunTasks
    <3> QED
      BY <2>1, <3>1
  <2>2. CASE /\ tasks' = RunBackward(from, to, who)
             /\ LET runs == to < i /\ i <= from /\ t.key[1] \in who
                IN  (runs => OnDisplay(i) /\ ~shown) /\ (~runs => (shown <=> OnDisplay(i)))
    <3>1. ~(to < i /\ i <= from /\ t.key[1] \in who) => tasks'[i] = t
      BY <1>1, <2>2, RunTasks
    <3> QED
      BY <2>2, <3>1
  <2> QED
    BY <2>1, <2>2
<1> QED
  BY <1>6, <1>7, <1>8, <1>9

(* Every step runs what comes on display and rolls back what goes: the      *)
(* part of a loop's range that the filter passes is just what changes.      *)
LEMMA DisplayStep ==
  ASSUME LateAnnounce = FALSE, DisplayInv, [Next]_historyVars
  PROVE  RunOncePerDisplay' /\ DisplayedIsSent'
<1>1. /\ TypeOK /\ TypeOK' /\ tasks \in Seq(Task) /\ Len(tasks) \in Nat
      /\ currentPlayPos \in Int /\ currentPlayPos' \in Int
      /\ \A i \in 1 .. Len(tasks) : tasks[i].key[1] \in Painter
  <2>1. TypeOK /\ TypeOK'
    BY TypeStep DEF DisplayInv, PositionInv
  <2>2. tasks \in Seq(Task) /\ currentPlayPos \in Int /\ currentPlayPos' \in Int
    BY <2>1 DEF TypeOK
  <2>3. ASSUME NEW i \in 1 .. Len(tasks) PROVE tasks[i].key \in Key
    <3>1. tasks[i] \in Task
      BY <2>2
    <3> QED
      BY <3>1 DEF Task
  <2> QED
    BY <2>1, <2>2, <2>3 DEF Key
<1>2. /\ currentPlayPos >= -2 /\ currentPlayPos <= Len(tasks) - 1
      /\ currentPlayPos = -2 => Len(tasks) = 0
  BY <1>1 DEF DisplayInv, PositionInv, PlayPositionInHistory, DEFAULT_INIT_PLAYBACK_POS
<1>3. CASE Records
  <2>1. PICK c \in Command, sendData \in BOOLEAN : ExecuteTask(c, sendData)
    BY <1>3 DEF Records
  <2> DEFINE t == tasks'[Len(tasks) + 1]
  <2>2. /\ Len(tasks') = Len(tasks) + 1
        /\ \A i \in 1 .. Len(tasks) : tasks'[i] = tasks[i]
        /\ t.key = c.key
        /\ t.net = IF Skipped(c.key) THEN 0 ELSE 1
        /\ t.send = IF Skipped(c.key) THEN sendData ELSE FALSE
    BY <1>1, <2>1, RecordTask
  <2>3. currentPlayPos' = IF IsPlaybackMode THEN currentPlayPos ELSE Len(tasks)
    BY <2>1 DEF ExecuteTask, PositionAfterPush
  <2>4. allowPainters' = allowPainters
    BY <1>3 DEF Records
  <2> HIDE DEF t
  <2>5. \A i \in 1 .. Len(tasks) : OnDisplay(i)' <=> OnDisplay(i)
    <3> SUFFICES ASSUME NEW i \in 1 .. Len(tasks)
                 PROVE  i <= currentPlayPos' + 1 <=> i <= currentPlayPos + 1
      BY <2>2, <2>4 DEF OnDisplay
    <3>1. CASE IsPlaybackMode
      BY <2>3, <3>1
    <3>2. CASE ~IsPlaybackMode
      <4>1. currentPlayPos = Len(tasks) - 1 /\ currentPlayPos' = Len(tasks)
        BY <1>1, <1>2, <2>3, <3>2 DEF IsPlaybackMode, DEFAULT_INIT_PLAYBACK_POS
      <4> QED
        BY <1>1, <4>1
    <3> QED
      BY <3>1, <3>2
  <2>0. PICK n \in Nat : n = Len(tasks) + 1
    BY <1>1
  <2>6. OnDisplay(n)' <=> ~Skipped(c.key)
    <3>1. OnDisplay(n)' <=> n <= currentPlayPos' + 1 /\ c.key[1] \in allowPainters
      BY <2>0, <2>2, <2>4 DEF OnDisplay, t
    <3>2. n <= currentPlayPos' + 1 <=> ~IsPlaybackMode
      BY <1>1, <1>2, <2>0, <2>3 DEF IsPlaybackMode, DEFAULT_INIT_PLAYBACK_POS
    <3> QED
      BY <3>1, <3>2 DEF Skipped
  <2>7. ASSUME NEW i \in 1 .. Len(tasks)
        PROVE  /\ tasks'[i].net = IF OnDisplay(i)' THEN 1 ELSE 0
               /\ OnDisplay(i)' => ~tasks'[i].send
    BY <2>2, <2>5 DEF DisplayInv, RunOncePerDisplay, DisplayedIsSent
  <2>8. /\ t.net = IF OnDisplay(n)' THEN 1 ELSE 0
        /\ OnDisplay(n)' => ~t.send
    BY <2>2, <2>6
  <2>9. ASSUME NEW i \in 1 .. Len(tasks')
        PROVE  /\ tasks'[i].net = IF OnDisplay(i)' THEN 1 ELSE 0
               /\ OnDisplay(i)' => ~tasks'[i].send
    <3>1. i \in 1 .. Len(tasks) \/ i = n
      BY <1>1, <2>0, <2>2
    <3> QED
      BY <2>0, <2>7, <2>8, <3>1 DEF t
  <2> QED
    BY <2>9 DEF RunOncePerDisplay, DisplayedIsSent
<1>4. ASSUME NEW position \in -1 .. Len(tasks) - 1, PlaybackTo(position)
      PROVE  RunOncePerDisplay' /\ DisplayedIsSent'
  <2>1. /\ position \in Int /\ currentPlayPos + 1 \in Int /\ position + 1 \in Int
        /\ currentPlayPos' = position /\ allowPainters' = allowPainters
    BY <1>1, <1>4 DEF PlaybackTo
  <2>2. CASE currentPlayPos < position
    <3>1. tasks' = RunForward(currentPlayPos + 1, position + 1, allowPainters)
      BY <1>4, <2>2 DEF PlaybackTo
    <3>2. \A i \in 1 .. Len(tasks) :
            LET runs == /\ currentPlayPos + 1 < i /\ i <= position + 1
                        /\ tasks[i].key[1] \in allowPainters
                shown == i <= currentPlayPos' + 1 /\ tasks[i].key[1] \in allowPainters'
            IN  /\ runs => ~OnDisplay(i) /\ shown
                /\ ~runs => (shown <=> OnDisplay(i))
      BY <1>1, <2>1, <2>2 DEF OnDisplay
    <3> QED
      BY <1>1, <2>1, <3>1, <3>2, RunsWhatChanges
  <2>3. CASE ~(currentPlayPos < position)
    <3>1. tasks' = RunBackward(currentPlayPos + 1, position + 1, allowPainters)
      BY <1>4, <2>3 DEF PlaybackTo
    <3>2. \A i \in 1 .. Len(tasks) :
            LET runs == /\ position + 1 < i /\ i <= currentPlayPos + 1
                        /\ tasks[i].key[1] \in allowPainters
                shown == i <= currentPlayPos' + 1 /\ tasks[i].key[1] \in allowPainters'
            IN  /\ runs => OnDisplay(i) /\ ~shown
                /\ ~runs => (shown <=> OnDisplay(i))
      BY <1>1, <2>1, <2>3 DEF OnDisplay
    <3> QED
      BY <1>1, <2>1, <3>1, <3>2, RunsWhatChanges
  <2> QED
    BY <2>2, <2>3
<1>5. ASSUME NEW u \in Painter, NEW on \in BOOLEAN, SetAllowPainterToDraw(u, on)
      PROVE  RunOncePerDisplay' /\ DisplayedIsSent'
  <2>1. currentPlayPos' = currentPlayPos /\ 0 \in Int /\ currentPlayPos + 1 \in Int
    BY <1>1, <1>5 DEF SetAllowPainterToDraw
  <2>2. CASE on
    <3>1. /\ u \notin allowPainters /\ allowPainters' = allowPainters \cup {u}
          /\ tasks' = RunForward(0, currentPlayPos + 1, {u})
      BY <1>5, <2>2 DEF SetAllowPainterToDraw
    <3>2. \A i \in 1 .. Len(tasks) :
            LET runs == 0 < i /\ i <= currentPlayPos + 1 /\ tasks[i].key[1] \in {u}
                shown == i <= currentPlayPos' + 1 /\ tasks[i].key[1] \in allowPainters'
            IN  /\ runs => ~OnDisplay(i) /\ shown
                /\ ~runs => (shown <=> OnDisplay(i))
      BY <1>1, <2>1, <3>1 DEF OnDisplay
    <3> QED
      BY <1>1, <2>1, <3>1, <3>2, RunsWhatChanges
  <2>3. CASE ~on
    <3>1. /\ u \in allowPainters /\ allowPainters' = allowPainters \ {u}
          /\ tasks' = RunBackward(currentPlayPos + 1, 0, {u})
      BY <1>5, <2>3 DEF SetAllowPainterToDraw
    <3>2. \A i \in 1 .. Len(tasks) :
            LET runs == 0 < i /\ i <= currentPlayPos + 1 /\ tasks[i].key[1] \in {u}
                shown == i <= currentPlayPos' + 1 /\ tasks[i].key[1] \in allowPainters'
            IN  /\ runs => OnDisplay(i) /\ ~shown
                /\ ~runs => (shown <=> OnDisplay(i))
      BY <1>1, <2>1, <3>1 DEF OnDisplay
    <3> QED
      BY <1>1, <2>1, <3>1, <3>2, RunsWhatChanges
  <2> QED
    BY <2>2, <2>3
<1>6. CASE ClearScreen
  BY <1>6 DEF ClearScreen, RunOncePerDisplay, DisplayedIsSent
<1>7. ASSUME NEW u \in Painter, AnnouncePainter(u)
      PROVE  RunOncePerDisplay' /\ DisplayedIsSent'
  <2>1. /\ tasks' = tasks /\ currentPlayPos' = currentPlayPos
        /\ allowPainters' = allowPainters \cup {u}
        /\ \A i \in 1 .. Len(tasks) : tasks[i].key[1] # u
    BY <1>7 DEF AnnouncePainter
  <2>2. \A i \in 1 .. Len(tasks) : OnDisplay(i)' <=> OnDisplay(i)
    BY <2>1 DEF OnDisplay
  <2> QED
    BY <2>1, <2>2 DEF DisplayInv, RunOncePerDisplay, DisplayedIsSent
<1>8. CASE LeavesTasks
  BY <1>8 DEF LeavesTasks, DisplayInv, RunOncePerDisplay, DisplayedIsSent, OnDisplay
<1> QED
  BY <1>1, <1>3, <1>4, <1>5, <1>6, <1>7, <1>8, StepKinds

(* Where painters are announced before tasks of their items arrive,         *)
(* recording, playback and the painter filter run every task exactly once   *)
(* for each time it comes on display, and what is on display has been sent. *)
THEOREM DisplayTheorem ==
  ASSUME LateAnnounce = FALSE
  PROVE  Spec => [](RunOncePerDisplay /\ DisplayedIsSent)
<1>1. Init => DisplayInv
  <2>1. Init => PositionInv
    BY PositionInit
  <2>2. Init => RunOncePerDisplay /\ DisplayedIsSent
    BY DEF Init, RunOncePerDisplay, DisplayedIsSent
  <2> QED
    BY <2>1, <2>2 DEF DisplayInv
<1>2. DisplayInv /\ [Next]_historyVars => DisplayInv'
  BY DisplayStep, PositionStep, TypeStep DEF DisplayInv, PositionInv
<1>3. DisplayInv => RunOncePerDisplay /\ DisplayedIsSent
  BY DEF DisplayInv
<1> QED
  BY <1>1, <1>2, <1>3, PTL DEF Spec

-----------------------------------------------------------------------------
(* Generated ids.                                                           *)

(* The local user's ids are counted among the known items: this makes the   *)
(* number of items, plus one, an id that is free.                           *)
OwnIdsCounted == \A k \in items : k[1] = Me => k[2] <= Cardinality(items)

(* An id above every counted one is free.                                   *)
LEMMA CountedIsFree ==
  ASSUME TypeOK, OwnIdsCounted
  PROVE  GeneratedIdIsFree /\ Cardinality(items) \in Nat /\ IsFiniteSet(items)
<1>1. IsFiniteSet(items) /\ Cardinality(items) \in Nat
  BY FiniteKeys, FS_CardinalityType DEF TypeOK
<1> QED
  BY <1>1 DEF OwnIdsCounted, GeneratedIdIsFree, NextId

(* No step takes an own item away except the clear, which takes all.        *)
LEMMA OwnIdsStep ==
  ASSUME TypeOK, OwnIdsCounted, [Next]_historyVars
  PROVE  OwnIdsCounted'
<1>1. Cardinality(items) \in Nat /\ IsFiniteSet(items) /\ <<Me, NextId>> \notin items
  BY CountedIsFree DEF GeneratedIdIsFree
<1>2. \A k \in items : k[2] \in Nat
  BY DEF TypeOK, Key
<1>3. ASSUME NEW k, k \notin items, items' = items \cup {k},
             k[1] = Me => k[2] = Cardinality(items) + 1
      PROVE  OwnIdsCounted'
  <2>1. Cardinality(items') = Cardinality(items) + 1
    BY <1>1, <1>3, FS_AddElement
  <2> QED
    BY <1>1, <1>2, <1>3, <2>1 DEF OwnIdsCounted
<1>4. CASE AddItem
  BY <1>1, <1>3, <1>4 DEF AddItem, NextId
<1>5. ASSUME NEW k \in Key, PeerCreatesItem(k) PROVE OwnIdsCounted'
  BY <1>3, <1>5 DEF PeerCreatesItem
<1>6. CASE ClearScreen
  BY <1>6 DEF ClearScreen, OwnIdsCounted
<1>7. ASSUME ~AddItem, ~ClearScreen, \A k \in Key : ~PeerCreatesItem(k)
      PROVE  items' = items
  BY <1>7 DEF Next, Edit, View, Session, RemoveItem, UpdateItem, MoveItem, UndoCommand,
              RedoCommand, PlaybackTo, SetAllowPainterToDraw, PeerTask, AnnouncePainter,
              SessionEnables, historyVars
<1> QED
  BY <1>4, <1>5, <1>6, <1>7 DEF OwnIdsCounted

(* The id generated for the next item is never that of an item the local    *)
(* user has, though generateItemId only counts the items of all painters.   *)
THEOREM GeneratedIdTheorem == Spec => []GeneratedIdIsFree
<1>1. Init => TypeOK /\ OwnIdsCounted
  BY DEF Init, TypeOK, OwnIdsCounted, DEFAULT_INIT_PLAYBACK_POS
<1>2. TypeOK /\ OwnIdsCounted /\ [Next]_historyVars => TypeOK' /\ OwnIdsCounted'
  BY TypeStep, OwnIdsStep
<1>3. TypeOK /\ OwnIdsCounted => GeneratedIdIsFree
  BY CountedIsFree
<1> QED
  BY <1>1, <1>2, <1>3, PTL DEF Spec

-----------------------------------------------------------------------------
(* Commands and items.                                                      *)

Names(s, known) == \A i \in 1 .. Len(s) : s[i].key \in known

(* Pushing a command of a known item, taking the top off, and learning of   *)
(* more items all leave a stack that names known items.                     *)
LEMMA StackNames ==
  ASSUME NEW s \in Seq(Command), NEW known, NEW more, known \subseteq more, Names(s, known)
  PROVE  /\ Names(s, more)
         /\ \A c \in Command : c.key \in more => Names(Append(s, c), more)
         /\ s # <<>> => /\ s[Len(s)].key \in known
                        /\ Names(SubSeq(s, 1, Len(s) - 1), more)
<1>1. Names(s, more)
  BY DEF Names
<1>2. ASSUME NEW c \in Command, c.key \in more PROVE Names(Append(s, c), more)
  <2>1. Len(Append(s, c)) = Len(s) + 1 /\ Len(s) \in Nat
    OBVIOUS
  <2>2. \A i \in 1 .. Len(s) + 1 : Append(s, c)[i] = IF i <= Len(s) THEN s[i] ELSE c
    OBVIOUS
  <2> QED
    BY <1>1, <1>2, <2>1, <2>2 DEF Names
<1>3. ASSUME s # <<>>
      PROVE  s[Len(s)].key \in known /\ Names(SubSeq(s, 1, Len(s) - 1), more)
  <2>1. Len(s) \in Nat \ {0}
    BY <1>3
  <2> DEFINE n == Len(s) - 1
             t == SubSeq(s, 1, n)
  <2>2. n \in Nat /\ \A i \in 1 .. n : s[i] \in Command
    BY <2>1
  <2>5. Len(t) = n /\ \A i \in 1 .. n : t[i] = s[i]
    <3> HIDE DEF n
    <3>1. /\ Len(t) = IF 1 <= n THEN n - 1 + 1 ELSE 0
          /\ \A i \in 1 .. n - 1 + 1 : t[i] = s[1 + i - 1]
      BY <2>2, SubSeqProperties
    <3> HIDE DEF t
    <3>2. Len(t) = n
      BY <3>1, <2>2
    <3>3. ASSUME NEW i \in 1 .. n PROVE t[i] = s[i]
      <4>1. i \in 1 .. n - 1 + 1 /\ 1 + i - 1 = i
        BY <2>2
      <4> QED
        BY <3>1, <4>1
    <3> QED
      BY <3>2, <3>3
  <2>3. s[Len(s)].key \in known
    BY <2>1 DEF Names
  <2>4. \A i \in 1 .. Len(s) - 1 : s[i].key \in more
    BY <1>1, <2>1 DEF Names
  <2> QED
    BY <2>3, <2>4, <2>5 DEF Names
<1> QED
  BY <1>1, <1>2, <1>3

(* Every step leaves both stacks with commands of known items.              *)
LEMMA CommandsStep ==
  ASSUME "move" \notin Gesture, TypeOK, CommandsNameKnownItems, [Next]_historyVars
  PROVE  CommandsNameKnownItems'
<1>1. /\ commandList \in Seq(Command) /\ redoCommandList \in Seq(Command)
      /\ Names(commandList, items) /\ Names(redoCommandList, items)
  BY DEF TypeOK, CommandsNameKnownItems, Names
<1>2. SUFFICES Names(commandList', items') /\ Names(redoCommandList', items')
  BY DEF CommandsNameKnownItems, Names
<1>3. ASSUME NEW c \in Command, ExecuteCommand(c), c.key \in items', items \subseteq items'
      PROVE  Names(commandList', items') /\ Names(redoCommandList', items')
  <2>1. Names(commandList', items')
    BY <1>1, <1>3, StackNames DEF ExecuteCommand
  <2>2. Names(redoCommandList', items')
    BY <1>3 DEF ExecuteCommand, Names
  <2> QED
    BY <2>1, <2>2
<1>4. CASE AddItem
  <2>1. <<Me, NextId>> \in Key
    <3>1. Cardinality(items) \in Nat
      BY FiniteKeys, FS_CardinalityType DEF TypeOK
    <3> QED
      BY <1>4, <3>1 DEF AddItem, NextId, Key
  <2> DEFINE c == NewCommand("add", <<Me, NextId>>, NoData, NoData)
  <2>2. c \in Command /\ c.key = <<Me, NextId>>
    BY <2>1, NewCommandType, NoDataType DEF Kind, NewCommand
  <2> QED
    BY <1>3, <1>4, <2>2 DEF AddItem
<1>5. ASSUME NEW k \in Key, RemoveItem(k)
      PROVE  Names(commandList', items') /\ Names(redoCommandList', items')
  <2> DEFINE c == NewCommand("remove", k, NoData, NoData)
  <2>1. c \in Command /\ c.key = k
    BY NewCommandType, NoDataType DEF Kind, NewCommand
  <2> QED
    BY <1>3, <1>5, <2>1 DEF RemoveItem
<1>6. ASSUME NEW k \in Key, NEW prev \in Data, NEW data \in Data, UpdateItem(k, prev, data)
      PROVE  Names(commandList', items') /\ Names(redoCommandList', items')
  <2> DEFINE c == NewCommand("update", k, prev, data)
  <2>1. c \in Command /\ c.key = k
    BY NewCommandType DEF Kind, NewCommand
  <2> QED
    BY <1>3, <1>6, <2>1 DEF UpdateItem
<1>7. \A k \in Key, prev, data \in Data : ~MoveItem(k, prev, data)
  BY DEF MoveItem
<1>8. CASE UndoCommand
  <2>1. /\ commandList # <<>> /\ items' = items
        /\ redoCommandList' = Append(redoCommandList, commandList[Len(commandList)])
        /\ commandList' = SubSeq(commandList, 1, Len(commandList) - 1)
    BY <1>8 DEF UndoCommand
  <2>2. /\ commandList[Len(commandList)].key \in items
        /\ commandList[Len(commandList)] \in Command
        /\ Names(commandList', items)
    BY <1>1, <2>1, StackNames, StackTypes
  <2> QED
    BY <1>1, <2>1, <2>2, StackNames
<1>9. CASE RedoCommand
  <2>1. /\ redoCommandList # <<>> /\ items' = items
        /\ commandList' = Append(commandList, redoCommandList[Len(redoCommandList)])
        /\ redoCommandList' = SubSeq(redoCommandList, 1, Len(redoCommandList) - 1)
    BY <1>9 DEF RedoCommand
  <2>2. /\ redoCommandList[Len(redoCommandList)].key \in items
        /\ redoCommandList[Len(redoCommandList)] \in Command
        /\ Names(redoCommandList', items)
    BY <1>1, <2>1, StackNames, StackTypes
  <2> QED
    BY <1>1, <2>1, <2>2, StackNames
<1>10. CASE View
  <2>1. CASE ClearScreen
    <3>1. commandList' = <<>> /\ redoCommandList' = <<>>
      BY <2>1 DEF ClearScreen, ClearHistoryCommand
    <3>2. Len(<<>>) = 0
      OBVIOUS
    <3> QED
      BY <3>1, <3>2 DEF Names
  <2>2. CASE ~ClearScreen
    <3>1. UNCHANGED <<items, commandList, redoCommandList>>
      BY <1>10, <2>2 DEF View, PlaybackTo, SetAllowPainterToDraw, stacks
    <3> QED
      BY <1>1, <3>1
  <2> QED
    BY <2>1, <2>2
<1>11. CASE Session
  <2>1. items \subseteq items' /\ UNCHANGED <<commandList, redoCommandList>>
    BY <1>11 DEF Session, PeerCreatesItem, PeerTask, AnnouncePainter, SessionEnables, stacks
  <2> QED
    BY <1>1, <2>1, StackNames
<1>12. CASE UNCHANGED historyVars
  BY <1>1, <1>12 DEF historyVars, stacks
<1> QED
  BY <1>4, <1>5, <1>6, <1>7, <1>8, <1>9, <1>10, <1>11, <1>12 DEF Next, Edit

(* Where no item is moved, no command outlives the items of the screen it   *)
(* was made on.  (A move can: its item may have been cleared since it was   *)
(* grabbed.)                                                                *)
THEOREM CommandsTheorem ==
  ASSUME "move" \notin Gesture
  PROVE  Spec => []CommandsNameKnownItems
<1>1. Init => TypeOK /\ CommandsNameKnownItems
  BY DEF Init, TypeOK, CommandsNameKnownItems, DEFAULT_INIT_PLAYBACK_POS
<1>2. TypeOK /\ CommandsNameKnownItems /\ [Next]_historyVars
        => TypeOK' /\ CommandsNameKnownItems'
  BY TypeStep, CommandsStep
<1> QED
  BY <1>1, <1>2, PTL DEF Spec
=============================================================================
