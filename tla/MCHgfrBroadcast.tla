--------------------------- MODULE MCHgfrBroadcast --------------------------
(***************************************************************************)
(* HgfrBroadcast for TLC, in four shapes.                                  *)
(***************************************************************************)
EXTENDS HgfrBroadcast

k == 2
Powers == {k ^ i : i \in 0 .. 6}

Shape(n0, n1, n2, n3) ==
    [l \in 0 .. 4 |->
        CASE l = 0 -> n0 [] l = 1 -> n1 [] l = 2 -> n2 [] l = 3 -> n3 [] OTHER -> 0]

\* The node with the number s in the district (0, .., 0) or (1, .., 1).
InFirst(s) == [l \in 0 .. Top |-> IF l = 0 THEN s ELSE 0]
InLast(s) == [l \in 0 .. Top |-> IF l = 0 THEN s ELSE 1]

Distinct == <<1, 2, 3>>   \* the contacts fall into distinct buckets
Shared   == <<1, 2, 1>>   \* the first and the last fall into one

-----------------------------------------------------------------------------
\* One contact node everywhere: 2 nodes, 2 districts, 4 cities.
SingleNodes  == Shape(2, 2, 4, 0)
SingleCnodes == [l \in 0 .. 4 |-> 1]
OneOrder     == {Distinct}   \* one or two contacts: always reversed
SingleLate   == {InLast(0)}
SingleOrigins == {InFirst(0), InLast(1)}

\* Two contact nodes everywhere: 2 nodes, 2 districts, 2 cities.
PairNodes   == Shape(2, 4, 4, 0)
PairCnodes  == [l \in 0 .. 4 |-> 2]
Nobody      == {}
PairOrigins == {InFirst(1), InLast(0)}   \* one is number 0, one is not

\* Three contact nodes everywhere, 2 cities.
TripleNodes  == Shape(3, 3, 6, 0)
BothOrders   == {Distinct, Shared}
TripleCnodes == [l \in 0 .. 4 |-> 3]
TripleOrigins == {InFirst(1), [l \in 0 .. Top |-> IF l = 2 THEN 1 ELSE 0]}

\* Three contact nodes in district and city, one in the state: 2 states, which
\* disagree about who the one is.
OddNodes   == Shape(3, 3, 3, 2)
OddCnodes  == [l \in 0 .. 4 |-> IF l < 2 THEN 3 ELSE 1]
OddOrigins == {[l \in 0 .. Top |-> IF l \in {0, 3} THEN 1 ELSE 0]}

=============================================================================
