---------------------------- MODULE MC_Promote ----------------------------
EXTENDS Promote, TLC

\* The trunk, a with a commit of its own, c below a with one more, and b, which
\* has to be made
Tree  == [t |-> "-", a |-> "t", c |-> "a", b |-> "t"]
First == <<[up |-> 0, tree |-> {}, in |-> {"t"}],
           [up |-> 1, tree |-> {"a"}, in |-> {"a"}],
           [up |-> 2, tree |-> {"a", "c"}, in |-> {"c"}]>>
Tips  == [t |-> 1, a |-> 2, c |-> 3, b |-> 0]
Named == {"a", "b"}
Lower == {"t", "a"}
Alike == Permutations(Wt) \cup Permutations(Line)
=============================================================================
