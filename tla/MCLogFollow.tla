----------------------------- MODULE MCLogFollow -----------------------------
(* TLC instances of LogFollow. *)
EXTENDS LogFollow, TLC

CONSTANTS s1, s2, h1, h2

OneStream == {s1}
TwoStreams == {s1, s2}
TwoHandles == {h1, h2}

(* The identity of a stream or of a tail means nothing to the code. *)
SymmetryTwoStreams == Permutations(TwoStreams) \cup Permutations(TwoHandles)
=============================================================================
