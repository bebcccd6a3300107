---------------------------- MODULE MC_Worktree ----------------------------
EXTENDS Worktree

TwoPaths == 1..2
OnePath  == {1}
TwoLines == {"l", "m"}
Edits    == {{}, {"l"}}
Posts    == {{"m"}}
Back     == {{}, {"l"}}
=============================================================================
