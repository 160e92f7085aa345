--------------------------- MODULE MCPaintCanvas ----------------------------
(* Model values for PaintCanvas: what an item can look like is made of the  *)
(* places and scales of the run.                                            *)
EXTENDS PaintCanvas

ItemData == [pos : Place, scale : Scale]
ItemFresh == [pos |-> Origin, scale |-> Unit]
=============================================================================
