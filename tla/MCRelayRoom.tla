---------------------------- MODULE MCRelayRoom -----------------------------
(* Connections are used once each and are alike.                            *)
EXTENDS RelayRoom, TLC

Connections == Permutations(Client)
=============================================================================
