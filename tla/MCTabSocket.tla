----------------------------- MODULE MCTabSocket -----------------------------
(* TLC instances of TabSocket. *)
EXTENDS TabSocket, TLC

CONSTANTS w1, w2, w3

TwoSockets == {w1, w2}
ThreeSockets == {w1, w2, w3}
SixIds == 1..6

(* The identity of a socket means nothing to the code. *)
SocketSymmetry == Permutations(Sockets)
=============================================================================
