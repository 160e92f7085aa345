---------------------------- MODULE PacketChannel ----------------------------
(***************************************************************************)
(* What a connection promises to the code above it: packets arrive whole,  *)
(* in the order in which they were sent, each once.  Packets can be lost   *)
(* where one was sent that is refused, and a packet that does not name its *)
(* sender or its target may come with a name from a packet before it.      *)
(***************************************************************************)
EXTENDS Integers, Sequences

CONSTANTS
  Shape,   \* the packets: among others, lengths of the sender's id and the target's
  Refused  \* those that the receiver does not take

VARIABLES
  sent,      \* the packets sent
  delivered  \* the packets delivered, by number, with the ids they came with

Init == sent = <<>> /\ delivered = <<>>

Send == \E shape \in Shape : sent' = Append(sent, shape) /\ UNCHANGED delivered

(* The packet whose id packet n may come with.                              *)
Named(n, length) == IF length > 0 THEN {n} ELSE 0 .. n - 1

LastDelivered == IF delivered = <<>> THEN 0 ELSE delivered[Len(delivered)].packet

Deliver(n) ==
  /\ n \in LastDelivered + 1 .. Len(sent)
  /\ sent[n] \notin Refused
  /\ n # LastDelivered + 1 => \E i \in 1 .. Len(sent) : sent[i] \in Refused
  /\ \E from \in Named(n, sent[n].from), to \in Named(n, sent[n].to) :
       delivered' = Append(delivered, [packet |-> n, from |-> from, to |-> to, whole |-> TRUE])
  /\ UNCHANGED sent

Next == Send \/ \E n \in 1 .. Len(sent) : Deliver(n)

Spec == Init /\ [][Next]_<<sent, delivered>>
=============================================================================
