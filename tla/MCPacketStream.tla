--------------------------- MODULE MCPacketStream ---------------------------
(* Packets for PacketStream: with and without ids, with an empty body, with *)
(* one longer than a piece, too big, and of an unknown code.                *)
EXTENDS PacketStream

Shapes == {[known |-> TRUE, from |-> 2, to |-> 1, body |-> 3],
           [known |-> TRUE, from |-> 0, to |-> 0, body |-> 0],
           [known |-> TRUE, from |-> 0, to |-> 0, body |-> MaxBody + 1],
           [known |-> FALSE, from |-> 0, to |-> 0, body |-> 0]}
=============================================================================
