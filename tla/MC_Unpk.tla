------------------------------ MODULE MC_Unpk ------------------------------
EXTENDS Unpk

CONSTANTS Far, Bad

Ids == 1..4 \cup {Far}

\* Everything that the object at a place can be; only an ofs delta has a base's
\* place and only a ref delta has a base's id.
Objects(i, id) ==
  {[kind |-> "whole", at |-> 0, of |-> Far, id |-> id]}
    \cup {[kind |-> "ofs", at |-> j, of |-> Far, id |-> id] : j \in 1..i-1}
    \cup {[kind |-> "ref", at |-> 0, of |-> b, id |-> id] : b \in Ids \ {id}}

\* Every pack of four; the last object may be a copy of an earlier one.
Four ==
  {<<a, b, c, d>> : a \in Objects(1, 1), b \in Objects(2, 2), c \in Objects(3, 3),
                    d \in UNION {Objects(4, i) : i \in 1..4}}

Elsewhere == {Far}
=============================================================================
