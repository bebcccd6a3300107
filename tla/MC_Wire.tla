------------------------------- MODULE MC_Wire -------------------------------
EXTENDS Wire, TLC

CONSTANTS c1, c2, s, main, feat, u, v, w

TwoClients  == {c1, c2}
TwoBranches == {main, feat}

\* From u a client goes on with v, the server with w.
Fork   == u :> {} @@ v :> {u} @@ w :> {u}
ForkBy == u :> s @@ v :> c1 @@ w :> s
=============================================================================
