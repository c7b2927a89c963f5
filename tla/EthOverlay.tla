----------------------------- MODULE EthOverlay -----------------------------
(***************************************************************************)
(* The overlay of the gossip baseline: every node draws its own routing    *)
(* table (BaseAppETH::form_structure) and gossips to a few random entries  *)
(* of it (PeerManagerETH::broadcast).  A node is its order, the number that*)
(* convert_ID_string_to_int gives its id.                                  *)
(***************************************************************************)
EXTENDS Integers, FiniteSets

CONSTANTS
    num_nodes_total,
    TABLE_SIZE,       \* TABLE_SIZE_ETH
    NUM_RECEIVERS,    \* NUM_RECEIVERS_ETH
    Origins,          \* bound: the nodes that broadcast
    MaxLost           \* bound: how many datagrams may be lost

\* With fewer nodes form_structure would draw neighbours for ever, with fewer
\* entries broadcast would draw receivers for ever.
ASSUME OverlayAssumption ==
    /\ num_nodes_total \in Nat /\ TABLE_SIZE \in Nat /\ NUM_RECEIVERS \in Nat \ {0}
    /\ num_nodes_total >= TABLE_SIZE + 2
    /\ TABLE_SIZE >= NUM_RECEIVERS

VARIABLE table   \* table[n]: the routing table of n

-----------------------------------------------------------------------------
Node == 0 .. num_nodes_total - 1

ASSUME BoundsAssumption == Origins \subseteq Node /\ MaxLost \in Nat

Successor(n) == IF n = num_nodes_total - 1 THEN 0 ELSE n + 1

\* What form_structure may draw: the successor comes first (that of the last
\* node because it is node 0), then TABLE_SIZE others in ascending order.
RoutingTables(n) ==
    {t \in [0 .. TABLE_SIZE -> Node] :
        /\ t[0] = Successor(n)
        /\ \A i \in 1 .. TABLE_SIZE : t[i] \notin {n, t[0]}
        /\ \A i \in 1 .. TABLE_SIZE, j \in 1 .. TABLE_SIZE : i < j => t[i] < t[j]}

\* The receivers of one broadcast: the first entry in 99 of 100 cases, and
\* NUM_RECEIVERS - 1 others, drawn from all but the last.
Receivers(n) ==
    {first \cup {table[n][i] : i \in random_ids} :
        first \in {{}, {table[n][0]}},
        random_ids \in {I \in SUBSET (1 .. TABLE_SIZE - 1) :
                            Cardinality(I) = NUM_RECEIVERS - 1}}

FormStructure ==
    /\ table \in [Node -> UNION {RoutingTables(n) : n \in Node}]
    /\ \A n \in Node : table[n] \in RoutingTables(n)

=============================================================================
