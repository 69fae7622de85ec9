----------------------------- MODULE MCServerPage -----------------------------
(* Two servers that share a project, and the stars of an earlier version. *)
EXTENDS ServerPage

CONSTANTS s1, s2, a, b, t1, t2, t3

TwoServers == {s1, s2}
TwoProjects == {a, b}
BothProjectsAndOne == (s1 :> {a, b}) @@ (s2 :> {b})
BothStarred == <<b, a>>
ThreeTabs == {t1, t2, t3}

(* The identity of a tab means nothing to the code. *)
TabSymmetry == Permutations(Tabs)
=============================================================================
