------------------------------ MODULE MCPageTabs ------------------------------
(* TLC instances of PageTabs. *)
EXTENDS PageTabs, TLC

CONSTANTS t1, t2, p1, p2, f1, f2

TwoTabs == {t1, t2}
TwoProjects == {p1, p2}
TwoFiles == {f1, f2}

(* The identity of a tab or a project means nothing to the code. *)
PageSymmetry == Permutations(Tabs) \cup Permutations(Projects)
=============================================================================
