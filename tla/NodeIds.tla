------------------------------ MODULE NodeIds -------------------------------
(***************************************************************************)
(* Node ids and their numbers (utils.cpp), and the gossip tables that      *)
(* EvalClient::create_kad_table fills with their help.  A node has a number*)
(* (its rank in the structure, for its port and for a registration) and an *)
(* id string, cut into fields: here the digits 0 (single) to 5 (continent).*)
(* The two conversions count the regions of a level each in its own way.   *)
(***************************************************************************)
EXTENDS Integers, Sequences, FiniteSets, SequencesExt

CONSTANT TABLE_SIZE   \* TABLE_SIZE_ETH: numbers drawn for a gossip table (13)

ASSUME IdsAssumption == TABLE_SIZE \in Nat

\* A shape is what an operator enters: counts of nodes and of contact nodes for
\* dist (0) to continent (4), and the number of continents.  The counts of
\* contact nodes divide; 0 would end the process.
IsShape(s) ==
    /\ DOMAIN s = {"nodes", "cnodes", "continents"}
    /\ s.nodes \in [0 .. 4 -> Nat] /\ s.nodes[0] > 0
    /\ s.cnodes \in [0 .. 4 -> Nat \ {0}]
    /\ s.continents \in Nat \ {0}

-----------------------------------------------------------------------------
\* How many level l-1 regions (nodes, for level 0) a level l region has, as
\* convert_ID_int_to_string counts them: an absent level is one region wide.
Width(s, l) ==
    IF l = 0 THEN s.nodes[0]
    ELSE LET w == s.nodes[l] \div s.cnodes[l - 1] IN IF w = 0 THEN 1 ELSE w

\* As convert_ID_string_to_int counts: absent levels are 0 wide, and the
\* cities of a state go by the contact nodes of a dist, not of a city.
WidthBack(s, l) ==
    IF l = 0 THEN s.nodes[0]
    ELSE s.nodes[l] \div s.cnodes[IF l = 2 THEN 0 ELSE l - 1]

\* The nodes of one level l-1 region: num_nodes_in_one_{dist,...,continent}.
Weights(w) ==
    LET Weight[l \in 0 .. 5] == IF l = 0 THEN 1 ELSE Weight[l - 1] * w[l - 1]
    IN  Weight

Weight(s) == Weights([l \in 0 .. 4 |-> Width(s, l)])
WeightBack(s) == Weights([l \in 0 .. 4 |-> WidthBack(s, l)])

convert_ID_int_to_string(id, s) ==
    [l \in 0 .. 5 |->
        LET units == id \div Weight(s)[l]
        IN  IF l = 5 THEN units ELSE units % Width(s, l)]

convert_ID_string_to_int(id, s) ==
    LET Sum[l \in 0 .. 5] ==
            id[l] * WeightBack(s)[l] + (IF l = 0 THEN 0 ELSE Sum[l - 1])
    IN  Sum[5]

num_nodes_total(s) == Weight(s)[5] * s.continents

-----------------------------------------------------------------------------
\* The ids a structure has, in the order create_kad_table's loops visit them.
IdsInOrder(s) ==
    [i \in 1 .. num_nodes_total(s) |-> convert_ID_int_to_string(i - 1, s)]

\* A mutant: all in the order they are found.
EnteredLast(table, id, self_order, s) == Append(table, id)

\* The number after the own goes to the front.
Entered(table, id, self_order, s) ==
    IF convert_ID_string_to_int(id, s) = self_order + 1
    THEN <<id>> \o table
    ELSE Append(table, id)

\* create_kad_table: the ids whose numbers were drawn, apart from the own id
\* and those not listed; Filled[k] is the table when k ids were looked at.
KadTable(self, neighbor_ids, node_list, s) ==
    LET ids == IdsInOrder(s)
        self_order == convert_ID_string_to_int(self, s)
        Chosen(id) == /\ convert_ID_string_to_int(id, s) \in neighbor_ids
                      /\ id # self /\ id \in node_list
        Filled[k \in 0 .. num_nodes_total(s)] ==
            IF k = 0 THEN <<>>
            ELSE IF Chosen(ids[k]) THEN Entered(Filled[k - 1], ids[k], self_order, s)
            ELSE Filled[k - 1]
    IN  Filled[num_nodes_total(s)]

\* The number of the node after a node, whose place in its table is sure.
Successor(self, s) == (convert_ID_string_to_int(self, s) + 1) % num_nodes_total(s)

\* What may be drawn besides: distinct numbers, neither the own nor the
\* successor's.  Where there are too few of them the draw never ends.
Draws(self, s) ==
    LET left == (0 .. num_nodes_total(s) - 1)
                    \ {convert_ID_string_to_int(self, s), Successor(self, s)}
    IN  {d \in SUBSET left : Cardinality(d) = TABLE_SIZE}

\* neighbor_ids after the draw.
NeighborIds(self, draw, s) == {Successor(self, s)} \cup draw

-----------------------------------------------------------------------------
\* The two ways of counting agree wherever a digit can differ from 0.
CountsAgree(s) ==
    \A l \in 0 .. 5 :
        (IF l = 5 THEN s.continents ELSE Width(s, l)) > 1
            => WeightBack(s)[l] = Weight(s)[l]

(***************************************************************************)
(* An id becomes a number and the number the same id again exactly in the  *)
(* shapes in which the two conversions count alike; in those no two ids    *)
(* share a number.  app.cpp picks the node that broadcasts (line 516) and  *)
(* everyone's port (line 73) by these numbers, and has no other check.     *)
(***************************************************************************)
RoundTrip(s) ==
    LET ids == IdsInOrder(s)
        order == [i \in DOMAIN ids |-> convert_ID_string_to_int(ids[i], s)]
    IN  /\ Cardinality(ToSet(ids)) = num_nodes_total(s)
        /\ CountsAgree(s) <=> \A i \in DOMAIN ids : order[i] = i - 1

(***************************************************************************)
(* Whatever is drawn, a gossip table filled from a whole node list has a   *)
(* peer for every number drawn, and its first entry is the node after its  *)
(* owner, as PeerManagerETH::broadcast takes it to be (routing_table[0]):  *)
(* also in the table of the last node, where node 0 is first for another   *)
(* reason.                                                                 *)
(***************************************************************************)
TableHasSuccessor(s) ==
    LET total == num_nodes_total(s)
        id(i) == convert_ID_int_to_string(i, s)
    IN  CountsAgree(s) =>
            \A i \in 0 .. total - 1 : \A draw \in Draws(id(i), s) :
                LET drawn == NeighborIds(id(i), draw, s)
                    table == KadTable(id(i), drawn, ToSet(IdsInOrder(s)), s)
                IN  /\ {convert_ID_string_to_int(n, s) : n \in ToSet(table)}
                            = drawn \ {i}
                    /\ total > 1 => table[1] = id((i + 1) % total)

(***************************************************************************)
(* What an evaluation relies on in the shape it is given.                  *)
(***************************************************************************)
IdsFit(s) == RoundTrip(s) /\ TableHasSuccessor(s)

=============================================================================
