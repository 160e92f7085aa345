-------------------------- MODULE MCPaintDocument ---------------------------
(* Model values for PaintDocument: every item looks the same.               *)
EXTENDS PaintDocument

ItemData == [pos : Place, scale : Scale]
ItemFresh == [pos |-> Origin, scale |-> Unit]
=============================================================================
