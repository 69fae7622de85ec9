---------------------------- MODULE MCConfigStore ----------------------------
(* Two pages that edit the configuration of up to three servers. *)
EXTENDS ConfigStore, TLC

CONSTANTS c1, c2, i1, i2, i3

TwoPages == {c1, c2}
ThreeIds == {i1, i2, i3}

(* The identity of a page or of a server means nothing to the code. *)
StoreSymmetry == Permutations(Pages) \cup Permutations(Ids)
=============================================================================
