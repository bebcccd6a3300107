-------------------------- MODULE MC_KeeperBranches --------------------------
(* The trunk and two siblings: a move has a source, a target and a third    *)
(* directory that may not be loaded.                                        *)
EXTENDS KeeperBranches

CONSTANTS p1, p2, x, y, trunk, feat, fix

OneProc  == {p1}
TwoProcs == {p1, p2}
OneObj   == {x}
TwoObjs  == {x, y}

\* Two siblings.
Siblings      == trunk :> <<trunk>> @@ feat :> <<trunk, feat>> @@ fix :> <<trunk, fix>>
SiblingsOrder == <<trunk, feat, fix>>
==============================================================================
