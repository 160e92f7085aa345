---------------------------- MODULE PaintCanvas -----------------------------
(***************************************************************************)
(* The history of one client (PaintHistory) together with the canvas it    *)
(* drives: what every item looks like, the graphic that shows it, and the  *)
(* list of items the mouse is moving (CPaintItem, CSharedPainterScene and  *)
(* the task observers of the main window).  Each action is an action of    *)
(* PaintHistory with what it does to the canvas, or a gesture that only    *)
(* the scene sees.  Items are moved as the scene does by default: the      *)
(* graphic follows the mouse, and the move is made when it is released.    *)
(***************************************************************************)
EXTENDS PaintHistory, SequencesExt

CONSTANTS
  Place, Scale,  \* where an item can be and how large
  Origin, Unit,  \* the place and the scale an item is created with
  MaxGraphics,   \* bound: graphics of one item in the scene
  MaxGhosts      \* bound: cleared items still on the list of moving items

Fresh == [pos |-> Origin, scale |-> Unit]

ASSUME PaintCanvasAssumption ==
  /\ Data = [pos : Place, scale : Scale]
  /\ NoData = Fresh
  /\ MaxGraphics \in Nat /\ MaxGhosts \in Nat

VARIABLES
  canvas,  \* of every item, see Look
  ghosts   \* cleared items that the list of moving items keeps alive

(* Of an item: data_ and prevData_; where its graphic is; whether it        *)
(* remembers a graphic (object_); how many graphics of it the scene holds;  *)
(* whether it is in tempMovingItemList_.                                    *)
Look == [data : Data, prev : Data, at : Place, drawn : BOOLEAN,
         graphics : Nat, moving : BOOLEAN]
Ghost == [key : Key, pos : Place, at : Place]

vars == <<historyVars, canvas, ghosts>>

CanvasTypeOK ==
  /\ TypeOK
  /\ canvas \in [Key -> Look]
  /\ ghosts \subseteq Ghost

Hidden == [data |-> Fresh, prev |-> Fresh, at |-> Origin, drawn |-> FALSE,
           graphics |-> 0, moving |-> FALSE]

CanvasInit ==
  /\ Init
  /\ canvas = [k \in Key |-> Hidden]
  /\ ghosts = {}

-----------------------------------------------------------------------------
(* The item operations.                                                     *)

(* setPos keeps the old place in prevData_, setData all of data_.           *)
SetPos(look, p) == [look EXCEPT !.prev.pos = look.data.pos, !.data.pos = p]
SetScale(look, s) == [look EXCEPT !.prev.scale = look.data.scale, !.data.scale = s]
SetData(look, d) == [look EXCEPT !.prev = look.data, !.data = d]

(* draw: always a new graphic, at the item's place; the one the item        *)
(* remembered, if any, stays in the scene.                                  *)
Draw(look) ==
  [SetPos(look, look.data.pos) EXCEPT !.at = look.data.pos, !.drawn = TRUE,
                                      !.graphics = @ + 1]

(* Mutant: the graphic is taken away, but the item still remembers it.      *)
EraseRemembering(look) ==
  IF look.drawn THEN [look EXCEPT !.graphics = @ - 1] ELSE look

(* remove: only the graphic the item remembers is taken away.               *)
Erase(look) ==
  IF look.drawn THEN [look EXCEPT !.drawn = FALSE, !.graphics = @ - 1] ELSE look

(* update: the graphic takes the item's place.  The scene is told when that *)
(* moves it, as if the mouse had, and puts the item on the list of moving   *)
(* items.                                                                   *)
Update(look) ==
  IF look.drawn
  THEN [look EXCEPT !.at = look.data.pos,
                    !.moving = look.moving \/ look.at # look.data.pos]
  ELSE look

(* move: the same without telling the scene.                                *)
Move(look, p) == [SetPos(look, p) EXCEPT !.at = IF look.drawn THEN p ELSE @]

(* What executing a task does to canvas c when the items in known can be    *)
(* found, and what rolling it back does.                                    *)
Execute(c, t, known) ==
  IF t.key \notin known THEN c
  ELSE [c EXCEPT ![t.key] =
          CASE t.kind = "add"    -> Draw(@)
            [] t.kind = "remove" -> Erase(@)
            [] t.kind = "update" -> Update(SetData(@, t.data))
            [] t.kind = "move"   -> Move(@, t.data.pos)]

(* Mutant: rolling an update back restores what it wrote.                   *)
RollbackToData(c, t, known) ==
  IF t.key \notin known THEN c
  ELSE [c EXCEPT ![t.key] =
          CASE t.kind = "add"    -> Erase(@)
            [] t.kind = "remove" -> Draw(@)
            [] t.kind = "update" -> Update(SetData(@, t.data))
            [] t.kind = "move"   -> Move(@, t.prev.pos)]

Rollback(c, t, known) ==
  IF t.key \notin known THEN c
  ELSE [c EXCEPT ![t.key] =
          CASE t.kind = "add"    -> Erase(@)
            [] t.kind = "remove" -> Draw(@)
            [] t.kind = "update" -> Update(SetData(@, t.prev))
            [] t.kind = "move"   -> Move(@, t.prev.pos)]

(* The loops of playback and of the painter filter: the tasks from + 1 ..   *)
(* to are executed in order, or the tasks to + 1 .. from rolled back from   *)
(* the last one down, those of the painters in who.                         *)
Executes(c, i, who) ==
  IF tasks[i].key[1] \in who THEN Execute(c, tasks[i], items) ELSE c

RollsBack(c, i, who) ==
  IF tasks[i].key[1] \in who THEN Rollback(c, tasks[i], items) ELSE c

Forward(from, to, who) ==
  LET run[i \in from .. to] == IF i = from THEN canvas ELSE Executes(run[i - 1], i, who)
  IN  IF from < to THEN run[to] ELSE canvas

(* Mutant: the tasks are rolled back in the order they were run.            *)
BackwardInOrder(from, to, who) ==
  LET run[i \in to .. from] == IF i = to THEN canvas ELSE RollsBack(run[i - 1], i, who)
  IN  IF to < from THEN run[from] ELSE canvas

Backward(from, to, who) ==
  LET run[i \in to .. from] == IF i = from THEN canvas ELSE RollsBack(run[i + 1], i + 1, who)
  IN  IF to < from THEN run[to] ELSE canvas

(* A new task, executed on canvas c unless it is skipped.                   *)
Shown(c, t, known) == IF Skipped(t.key) THEN c ELSE Execute(c, t, known)

-----------------------------------------------------------------------------
(* The bounds: no more graphics of an item than MaxGraphics, and no more    *)
(* cleared items on the list of moving items than MaxGhosts.                *)
Paint(c) ==
  /\ \A k \in Key : c[k].graphics <= MaxGraphics
  /\ canvas' = c

-----------------------------------------------------------------------------
(* Gestures.  Every graphic of an item leads to it, also one it forgot.     *)

Forgotten(k) == canvas[k].graphics - IF canvas[k].drawn THEN 1 ELSE 0

CanReach(k) == CanTouch /\ k \in items /\ canvas[k].graphics > 0

AddOnCanvas ==
  /\ AddItem
  /\ Paint(Shown(canvas, NewCommand("add", <<Me, NextId>>, NoData, NoData), items'))
  /\ UNCHANGED ghosts

RemoveOnCanvas(k) ==
  /\ CanReach(k)
  /\ RemoveItem(k)
  /\ Paint(Shown(canvas, NewCommand("remove", k, NoData, NoData), items))
  /\ UNCHANGED ghosts

(* The mouse wheel: the item is scaled, then the command is made of its     *)
(* data_ and its prevData_.                                                 *)
ScaleOnCanvas(k, s) ==
  LET c == [canvas EXCEPT ![k] = SetScale(@, s)]
  IN  /\ CanReach(k)
      /\ s # canvas[k].data.scale
      /\ UpdateItem(k, c[k].prev, c[k].data)
      /\ Paint(Shown(c, NewCommand("update", k, c[k].prev, c[k].data), items))
      /\ UNCHANGED ghosts

(* The mouse drags a graphic, the one the item remembers or one it forgot:  *)
(* the item is put on the list of moving items.                             *)
Drag(k, p) ==
  /\ "move" \in Gesture
  /\ CanReach(k)
  /\ \/ /\ canvas[k].drawn /\ p # canvas[k].at
        /\ canvas' = [canvas EXCEPT ![k].at = p, ![k].moving = TRUE]
     \/ /\ Forgotten(k) > 0
        /\ canvas' = [canvas EXCEPT ![k].moving = TRUE]
  /\ UNCHANGED <<historyVars, ghosts>>

(* A move task carries places only.                                         *)
At(p) == [pos |-> p, scale |-> Unit]

(* The mouse is released: each item on the list is moved to where its       *)
(* graphic is, one that has none is passed over.  The items are separate    *)
(* steps: peers' tasks are recorded between them.                           *)
Release(k) ==
  LET c == [canvas EXCEPT ![k] = [SetPos(@, @.at) EXCEPT !.moving = FALSE]]
      from == At(c[k].prev.pos)
      to == At(c[k].data.pos)
  IN  /\ canvas[k].moving
      /\ IF canvas[k].drawn
         THEN /\ MoveItem(k, from, to)
              /\ Paint(Shown(c, NewCommand("move", k, from, to), items))
         ELSE /\ CanTouch
              /\ canvas' = [canvas EXCEPT ![k].moving = FALSE]
              /\ UNCHANGED historyVars
      /\ UNCHANGED ghosts

(* The same for an item that was cleared while it was on the list.          *)
ReleaseGhost(g) ==
  /\ MoveItem(g.key, At(g.pos), At(g.at))
  /\ Paint(Shown(canvas, NewCommand("move", g.key, At(g.pos), At(g.at)), items))
  /\ ghosts' = ghosts \ {g}

UndoOnCanvas ==
  /\ UndoCommand
  /\ Paint(Shown(canvas, UndoTask(Last(commandList)), items))
  /\ UNCHANGED ghosts

RedoOnCanvas ==
  /\ RedoCommand
  /\ Paint(Shown(canvas, Last(redoCommandList), items))
  /\ UNCHANGED ghosts

PlaybackOnCanvas(position) ==
  /\ PlaybackTo(position)
  /\ Paint(IF currentPlayPos < position
           THEN Forward(currentPlayPos + 1, position + 1, allowPainters)
           ELSE Backward(currentPlayPos + 1, position + 1, allowPainters))
  /\ UNCHANGED ghosts

FilterOnCanvas(u, on) ==
  /\ SetAllowPainterToDraw(u, on)
  /\ Paint(IF on THEN Forward(0, currentPlayPos + 1, {u})
                 ELSE Backward(currentPlayPos + 1, 0, {u}))
  /\ UNCHANGED ghosts

(* Clearing drops the items: the last reference takes an item's graphic     *)
(* away, unless the list of moving items still holds one.  Graphics that    *)
(* items had forgotten stay, but lead nowhere any more.                     *)
ClearCanvas ==
  /\ ClearScreen
  /\ canvas' = [k \in Key |-> Hidden]
  /\ ghosts' = ghosts \cup
       {[key |-> k, pos |-> canvas[k].data.pos, at |-> canvas[k].at] :
          k \in {j \in items : canvas[j].moving /\ canvas[j].drawn}}
  /\ Cardinality(ghosts') <= MaxGhosts

PeerTaskOnCanvas(kind, k, prev, data) ==
  /\ kind \in {"add", "remove"} => prev = NoData /\ data = NoData
  /\ kind = "move" => prev.scale = Unit /\ data.scale = Unit
  /\ PeerTask(kind, k, prev, data)
  /\ Paint(Shown(canvas, NewCommand(kind, k, prev, data), items))
  /\ UNCHANGED ghosts

-----------------------------------------------------------------------------
CanvasEdit ==
  \/ AddOnCanvas
  \/ \E k \in Key : RemoveOnCanvas(k)
  \/ \E k \in Key, s \in Scale : ScaleOnCanvas(k, s)
  \/ \E k \in Key, p \in Place : Drag(k, p)
  \/ \E k \in Key : Release(k)
  \/ \E g \in ghosts : ReleaseGhost(g)
  \/ UndoOnCanvas
  \/ RedoOnCanvas

CanvasView ==
  \/ \E position \in -1 .. Len(tasks) - 1 : PlaybackOnCanvas(position)
  \/ \E u \in Painter, on \in BOOLEAN : FilterOnCanvas(u, on)
  \/ ClearCanvas

CanvasSession ==
  \/ \E k \in Key : PeerCreatesItem(k) /\ UNCHANGED <<canvas, ghosts>>
  \/ \E kind \in PeerKind, k \in Key, prev, data \in Data :
       PeerTaskOnCanvas(kind, k, prev, data)
  \/ \E u \in Painter : AnnouncePainter(u) /\ UNCHANGED <<canvas, ghosts>>
  \/ \E on \in BOOLEAN : SessionEnables(on) /\ UNCHANGED <<canvas, ghosts>>

CanvasNext == CanvasEdit \/ CanvasView \/ CanvasSession

CanvasSpec == CanvasInit /\ [][CanvasNext]_vars

-----------------------------------------------------------------------------
(* The painting that the first n tasks of a history, or the first n         *)
(* commands of a stack, describe, item by item.                             *)

EditsOf(s, k, kinds, n) == {i \in 1 .. n : s[i].key = k /\ s[i].kind \in kinds}

VisibleAfter(s, k, n) ==
  LET shown == EditsOf(s, k, {"add", "remove"}, n)
  IN  shown # {} /\ s[Max(shown)].kind = "add"

DataAfter(s, k, n) ==
  LET placed == EditsOf(s, k, {"update", "move"}, n)
      scaled == EditsOf(s, k, {"update"}, n)
  IN  [pos   |-> IF placed = {} THEN Origin ELSE s[Max(placed)].data.pos,
       scale |-> IF scaled = {} THEN Unit ELSE s[Max(scaled)].data.scale]

(* A history is consistent when each task fits what the tasks before it     *)
(* describe: an item is added when it is not there, removed when it is, and *)
(* an edit is of an item added before and starts from where that was.       *)
Consistent ==
  \A i \in 1 .. Len(tasks) :
    LET t == tasks[i]
        before == DataAfter(tasks, t.key, i - 1)
    IN  /\ t.kind = "add" => ~VisibleAfter(tasks, t.key, i - 1)
        /\ t.kind = "remove" => VisibleAfter(tasks, t.key, i - 1)
        /\ t.kind \in {"update", "move"} => EditsOf(tasks, t.key, {"add"}, i - 1) # {}
        /\ t.kind = "update" => t.prev = before
        /\ t.kind = "move" => t.prev.pos = before.pos

DisplayedTasks(k) == IF k[1] \in allowPainters THEN currentPlayPos + 1 ELSE 0

ShowsPrefix ==
  \A k \in items :
    LET look == canvas[k]
        n == DisplayedTasks(k)
    IN  /\ look.drawn = VisibleAfter(tasks, k, n)
        /\ look.data = DataAfter(tasks, k, n)
        /\ look.drawn /\ ~look.moving => look.at = look.data.pos

(* Whenever the history is consistent, the canvas shows exactly the         *)
(* painting of the tasks up to the play position, of the painters that are  *)
(* not hidden, however the position and the filter got there; only a        *)
(* graphic that the mouse holds may be elsewhere.                           *)
PlaybackShowsPrefix == Consistent => ShowsPrefix

(* README: "Playback".  Without the proviso: at every play position the     *)
(* canvas shows the painting of the tasks up to there.                      *)
Playback == ShowsPrefix

(* The local user's own edits leave a consistent history, undo and redo     *)
(* and edits in the middle of a playback included.                          *)
OwnHistoryIsConsistent == Consistent

(* README: "Undo/Redo".  What the canvas shows at the end of the history is *)
(* what the commands on the undo stack, and no others, have made of it.     *)
ShowsCommands ==
  ~IsPlaybackMode /\ allowPainters = Painter =>
    \A k \in items :
      /\ canvas[k].drawn = VisibleAfter(commandList, k, Len(commandList))
      /\ canvas[k].data = DataAfter(commandList, k, Len(commandList))

(* No graphic stays in the scene after its item forgot it: a graphic that   *)
(* no item remembers cannot be removed any more, not even by clearing.      *)
NoOrphanGraphics == \A k \in Key : Forgotten(k) = 0
=============================================================================
