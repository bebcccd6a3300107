--------------------------- MODULE MC_KeeperShard ---------------------------
(* One writer beside one reader, or two writers alone; two objects, so that *)
(* a pack is appended to after its first run was published.                 *)
EXTENDS KeeperShard, TLC

CONSTANTS w1, w2, r1, a, b

OneWriter  == {w1}
TwoWriters == {w1, w2}
OneReader  == {r1}
NoReader   == {}
TwoObjs    == {a, b}
Symmetry   == Permutations(TwoWriters) \cup Permutations(TwoObjs)
=============================================================================
