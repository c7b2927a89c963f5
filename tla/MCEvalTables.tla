---------------------------- MODULE MCEvalTables ----------------------------
(***************************************************************************)
(* EvalTables and RingStructure for TLC.  Four levels, four nodes to a     *)
(* district and three contact nodes everywhere, two regions to each ring:  *)
(* 32 nodes.  The contacts of each of six regions fall into distinct hash  *)
(* buckets, or the first and the last into one, so that regions disagree   *)
(* about the order of their contacts in 62 of 64 cases.                    *)
(***************************************************************************)
EXTENDS EvalTables

MCNumNodes == [l \in 0 .. 4 |-> CASE l = 0 -> 4 [] l \in 1 .. 3 -> 6 [] OTHER -> 0]
MCNumCnodes == [l \in 0 .. 4 |-> 3]
MCBucketMaps == {<<1, 2, 3>>, <<1, 2, 1>>}

\* A top level contact node and a node of a district elsewhere.
MCLate == {[l \in 0 .. Top |-> 0], [l \in 0 .. Top |-> IF l = 0 THEN 2 ELSE 1]}

\* Everyone; without a node that is no contact; without one that is.
MCNodeLists == {Node, Node \ {[l \in 0 .. Top |-> IF l = 0 THEN 3 ELSE 0]},
                Node \ {[l \in 0 .. Top |-> IF l = 0 THEN 2 ELSE 1]}}

Shape(n, c, k) ==
    [nodes |-> [l \in 0 .. 4 |-> n[l + 1]], cnodes |-> [l \in 0 .. 4 |-> c[l + 1]],
     continents |-> k]

\* The shape of the test scripts cut down; absent levels in between and on top;
\* counts of contacts that differ from level to level.
MCShapes ==
    {Shape(<<2, 4, 4, 0, 0>>, <<2, 2, 2, 1, 1>>, 1),
     Shape(<<3, 2, 0, 0, 0>>, <<1, 1, 1, 1, 1>>, 1),
     Shape(<<2, 2, 0, 2, 0>>, <<1, 1, 1, 1, 1>>, 1),
     Shape(<<1, 2, 4, 0, 0>>, <<1, 2, 1, 1, 1>>, 1),
     Shape(<<1, 2, 4, 2, 0>>, <<1, 2, 1, 1, 1>>, 1),
     Shape(<<1, 2, 4, 0, 0>>, <<2, 1, 1, 1, 1>>, 1),
     Shape(<<2, 2, 2, 2, 2>>, <<1, 2, 2, 2, 2>>, 2),
     Shape(<<2, 0, 0, 0, 0>>, <<2, 2, 2, 2, 2>>, 2)}

=============================================================================
