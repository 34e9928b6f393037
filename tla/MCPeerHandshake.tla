--------------------------- MODULE MCPeerHandshake ----------------------------
(* Instances of the handshake: sidecars are numbered in id order.          *)
EXTENDS PeerHandshake, TLC

TwoSidecars == 1 .. 2
ThreeSidecars == 1 .. 3

(* The failures that the next poll repairs: nothing was consumed, and the  *)
(* sender still knows that it has to send.                                 *)
Recoverable == {"identity", "get", "hello"}
AllFaults == Faulty

TaskSymmetry == Permutations(Task)

===============================================================================
