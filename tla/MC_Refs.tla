------------------------------- MODULE MC_Refs -------------------------------
EXTENDS Refs, TLC

CONSTANTS w1, w2, r1, x, y, host, p1, main, feat, trunk

Branch == [host |-> Local, path |-> None, query |-> main]
Peer1  == [host |-> host, path |-> p1, query |-> main]
Feat1  == [host |-> host, path |-> p1, query |-> feat]

TwoWriters == {w1, w2}
SameLeaf   == [w \in TwoWriters |-> trunk]
TwoLeaves  == w1 :> trunk @@ w2 :> feat
OneReader  == {r1}
NoReader   == {}
TwoShas    == {x, y}
OneBranch  == {Branch}
OwnPosts   == w1 :> {Branch} @@ w2 :> {}
SamePosts  == [w \in TwoWriters |-> {Branch}]
ShaSymmetry == Permutations(TwoShas)
OnePath    == {Branch, Peer1, Feat1}
NoFail     == {"get", "post", "delete"}
GetFail    == {"get", "post", "delete", "get_fail"}
Symmetry   == Permutations(TwoWriters) \cup Permutations(TwoShas)
=============================================================================
