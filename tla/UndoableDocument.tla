-------------------------- MODULE UndoableDocument --------------------------
(***************************************************************************)
(* What undo and redo promise: a document, the documents to go back to and *)
(* the documents to come back to.  An edit makes any document out of the   *)
(* present one and gives up what could be redone; clearing starts afresh.  *)
(***************************************************************************)
EXTENDS Sequences, Naturals

CONSTANTS Document, Blank

VARIABLES document, past, future

docVars == <<document, past, future>>

DocInit == document = Blank /\ past = <<>> /\ future = <<>>

DocEdit ==
  /\ document' \in Document
  /\ past' = Append(past, document)
  /\ future' = <<>>

DocUndo ==
  /\ past # <<>>
  /\ document' = past[Len(past)]
  /\ past' = SubSeq(past, 1, Len(past) - 1)
  /\ future' = Append(future, document)

DocRedo ==
  /\ future # <<>>
  /\ document' = future[Len(future)]
  /\ past' = Append(past, document)
  /\ future' = SubSeq(future, 1, Len(future) - 1)

DocClear == document' = Blank /\ past' = <<>> /\ future' = <<>>

DocNext == DocEdit \/ DocUndo \/ DocRedo \/ DocClear

DocSpec == DocInit /\ [][DocNext]_docVars
=============================================================================
