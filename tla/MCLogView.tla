------------------------------ MODULE MCLogView ------------------------------
(* Two tabs whose texts may have one line more than the view. *)
EXTENDS LogView

CONSTANTS t1, t2, k1

TwoTabs == {t1, t2}
OneKeyword == {k1}
=============================================================================
