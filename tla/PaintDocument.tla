--------------------------- MODULE PaintDocument ----------------------------
(***************************************************************************)
(* The painting of a user who works alone, adding and removing items, is a *)
(* document with undo and redo (UndoableDocument): the history, played to  *)
(* its end, describes the document, and the commands of the two stacks     *)
(* describe the documents to go back and to come back to.                  *)
(***************************************************************************)
EXTENDS PaintCanvas

ASSUME WorksAlone ==
  Painter = {Me} /\ Gesture \subseteq {"add", "remove", "undo"} /\ PeerKind = {}

(* The items that are there when the whole history has been played.         *)
Painting == {k \in Key : VisibleAfter(tasks, k, Len(tasks))}

Done(c, doc) == IF c.kind = "add" THEN doc \cup {c.key} ELSE doc \ {c.key}

(* The document after the first n commands of the undo stack.               *)
After[n \in 0 .. Len(commandList)] ==
  IF n = 0 THEN {} ELSE Done(commandList[n], After[n - 1])

(* The document after the commands of the redo stack from its top down to   *)
(* the j-th were done again.                                                *)
Again[j \in 1 .. Len(redoCommandList)] ==
  Done(redoCommandList[j],
       IF j = Len(redoCommandList) THEN After[Len(commandList)] ELSE Again[j + 1])

Undoable ==
  INSTANCE UndoableDocument WITH
    Document <- SUBSET Key,
    Blank <- {},
    document <- Painting,
    past <- [n \in 1 .. Len(commandList) |-> After[n - 1]],
    future <- [j \in 1 .. Len(redoCommandList) |-> Again[j]]

(* Every gesture is an edit, an undo, a redo or a clear of that document,   *)
(* and whatever else the window does, playback and the painter filter,      *)
(* leaves it and both its stacks alone, even though commands made during    *)
(* a playback or while the painter is hidden are recorded without being     *)
(* carried out.                                                             *)
ImplementsUndoableDocument == Undoable!DocSpec
=============================================================================
