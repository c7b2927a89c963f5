--------------------------- MODULE RingStructure ----------------------------
(***************************************************************************)
(* How the overlay comes to be: every node, on its own and from the same   *)
(* command line, works out the rings it resides in (BaseApp::form_structure*)
(* in app.cpp) and keeps them in its NodeTable.  Nothing is exchanged; that*)
(* the tables of different nodes fit together is a property, not a given.  *)
(*                                                                         *)
(* A node id is cut into digits: single (0), district (1), city (2), state *)
(* (3), country (4), continent (5).  The ring of level l joins the nodes   *)
(* that agree on the digits above l: level 0 all nodes of a district, level*)
(* l the contact nodes of the level l-1 rings.                             *)
(***************************************************************************)
EXTENDS Integers, Sequences, FiniteSets, SequencesExt

CONSTANTS
    NumNodes,       \* NumNodes[l]: num_nodes_in_{dist,city,state,country,continent}
    NumCnodes,      \* NumCnodes[l]: num_cnodes_in_{dist,city,state,country,continent}
    NumContinents,  \* num_continents
    BucketMaps,     \* how the contacts of a ring may fall into hash buckets
    Late            \* nodes whose process may start late

ASSUME ShapeAssumption ==
    /\ NumNodes \in [0 .. 4 -> Nat] /\ NumNodes[0] > 0
    /\ NumCnodes \in [0 .. 4 -> Nat \ {0}]   \* form_structure divides by them
    /\ NumContinents \in Nat \ {0}

VARIABLES
    hash,   \* hash[r]: the buckets the contacts of region r fall into
    up      \* the nodes that have formed their tables

structureVars == <<hash, up>>

-----------------------------------------------------------------------------
\* The highest ring formed: form_structure returns at the first level that
\* has no nodes (it does not look at num_continents).
Top ==
    LET absent == {l \in 1 .. 4 : NumNodes[l] = 0}
    IN  IF absent = {} THEN 5 ELSE Min(absent) - 1

\* How many level l-1 regions a ring of level l joins; nodes, for level 0.
Width(l) ==
    CASE l = 0 -> NumNodes[0]
      [] l = 5 -> NumContinents
      [] OTHER -> NumNodes[l] \div NumCnodes[l - 1]

\* How many of a level l ring's peers are its contact nodes.  Level 3 goes by
\* num_cnodes_in_state like level 2, and the levels above lag by one.
ContactLimit(l) == NumCnodes[IF l < 3 THEN l ELSE l - 1]

Node ==
    {id \in [0 .. Top -> UNION {0 .. Width(l) - 1 : l \in 0 .. Top}] :
        \A l \in 0 .. Top : id[l] < Width(l)}

ASSUME LateAssumption == Late \subseteq Node

\* The part of a node's id that the members of its level l ring share.
Region(n, l) == [d \in l + 1 .. Top |-> n[d]]

Regions == {Region(n, l) : n \in Node, l \in 1 .. Top - 1}

\* The nodes the level l ring of n would have by their ids alone.
SameRegion(n, l) == {m \in Node : Region(m, l) = Region(n, l)}

-----------------------------------------------------------------------------
(***************************************************************************)
(* contact_nodes_list is refilled by iterating an unordered_map.  Its      *)
(* order in libstdc++: buckets newest first, in a bucket the newest entry  *)
(* first, where a bucket is as old as its first entry.                     *)
(***************************************************************************)
MapIteration(bucket, s) ==
    LET Oldest(i) == Min({j \in DOMAIN s : bucket[j] = bucket[i]})
        Precedes(i, j) == \/ Oldest(i) > Oldest(j)
                          \/ Oldest(i) = Oldest(j) /\ i > j
        order == CHOOSE p \in [DOMAIN s -> DOMAIN s] :
                    \A i, j \in DOMAIN s : i < j => Precedes(p[i], p[j])
    IN  [i \in DOMAIN s |-> s[order[i]]]

\* A mutant: counting starts one late.
FirstOfLate(s, c) == SubSeq(s, 2, IF c < Len(s) THEN c + 1 ELSE Len(s))

FirstOf(s, c) == SubSeq(s, 1, IF c < Len(s) THEN c ELSE Len(s))

\* The level 0 ring: all nodes of the district, by number.
DistrictPeers(self) ==
    [i \in 1 .. Width(0) |-> [self EXCEPT ![0] = i - 1]]

\* A mutant: the regions are counted from the own one.
RingPeersSelfFirst(self, l, contact_nodes_list) ==
    LET c == Len(contact_nodes_list)
    IN  [i \in 1 .. Width(l) * c |->
            [d \in 0 .. Top |->
                IF d < l THEN contact_nodes_list[((i - 1) % c) + 1][d]
                ELSE IF d = l THEN (self[l] + (i - 1) \div c) % Width(l)
                ELSE self[d]]]

\* The ring of a level above: region by region, the contacts of the own
\* region transplanted into it.
RingPeers(self, l, contact_nodes_list) ==
    LET c == Len(contact_nodes_list)
    IN  [i \in 1 .. Width(l) * c |->
            [d \in 0 .. Top |->
                IF d < l THEN contact_nodes_list[((i - 1) % c) + 1][d]
                ELSE IF d = l THEN (i - 1) \div c
                ELSE self[d]]]

\* A mutant: every peer of a ring is taken for a contact node.
RingAllContacts(peer_list, l) ==
    [peer_list |-> peer_list, contact_nodes |-> ToSet(peer_list)]

Ring(peer_list, l) ==
    [peer_list |-> peer_list,
     contact_nodes |-> ToSet(FirstOf(peer_list, ContactLimit(l)))]

\* The tables and the contacts' list after level l, when those after the level
\* below are known: a node forms the ring if the list has it, and refills the
\* list as the map iterates.
NextLevel(self, h, l, below) ==
    LET peers == RingPeers(self, l, below.list)
    IN  IF self \notin ToSet(below.list) THEN below
        ELSE [tables |-> Append(below.tables, Ring(peers, l)),
              list |-> IF l = Top THEN <<>>
                       ELSE MapIteration(h[Region(self, l)],
                                FirstOf(peers, ContactLimit(l)))]

\* Level 0 is formed anyway, and its contacts' list is in order.
FormStructure(self, h) ==
    LET Formed[l \in 0 .. Top] ==
            IF l = 0
            THEN [tables |-> <<Ring(DistrictPeers(self), 0)>>,
                  list |-> FirstOf(DistrictPeers(self), ContactLimit(0))]
            ELSE NextLevel(self, h, l, Formed[l - 1])
    IN  Formed[Top].tables

\* All tables under all hash orders, as a constant; their domains are listed, so
\* that TLC forms every table once and not at every look into it.
Hashes == [Regions -> BucketMaps]
FormedTables ==
    LET Each(S) == {x : x \in S}
    IN  [h \in Each(Hashes) |-> [n \in Each(Node) |-> FormStructure(n, h)]]

\* NodeTable: the rings of n, from level 0 up; tables[n][l + 1] is level l.
tables(n) == IF n \in up THEN FormedTables[hash][n] ELSE <<>>

-----------------------------------------------------------------------------
(***************************************************************************)
(* NodeTable's questions, as the code answers them for its own node.       *)
(***************************************************************************)
is_contact_node(n, l) == l + 1 <= Len(tables(n))

get_contact_nodes(n, l) ==
    IF is_contact_node(n, l) THEN tables(n)[l + 1].contact_nodes ELSE {}

peer_list(n, l) == tables(n)[l + 1].peer_list

\* The last index, -1 for a ring the node does not reside in.
get_peer_list_size(n, l) ==
    IF is_contact_node(n, l) THEN Len(peer_list(n, l)) - 1 ELSE -1

\* The index of the first entry for the id, -1 if there is none.
get_node_id_in_vector(n, l) ==
    LET at == IF is_contact_node(n, l)
              THEN {i \in DOMAIN peer_list(n, l) : peer_list(n, l)[i] = n}
              ELSE {}
    IN  IF at = {} THEN -1 ELSE Min(at) - 1

get_top_level(n) == Len(tables(n)) - 1

-----------------------------------------------------------------------------
StructureInit ==
    /\ hash \in Hashes
    /\ up = Node \ Late

\* BaseApp::start on node n, up to the start of its server.
Form(n) ==
    /\ n \notin up
    /\ up' = up \cup {n}
    /\ UNCHANGED hash

StructureNext == \E n \in Late : Form(n)

StructureSpec == StructureInit /\ [][StructureNext]_structureVars

-----------------------------------------------------------------------------
\* Members of a ring, in the eyes of one of them.
Peers(n, l) == ToSet(peer_list(n, l))

Resides(n, l) == l <= get_top_level(n)

(***************************************************************************)
(* Nodes that never spoke to each other agree on their rings: whoever one  *)
(* node lists in a ring resides in that ring by its own account, lists the *)
(* same nodes in it and names the same contact nodes.  Hash order, which   *)
(* differs from region to region, must not show.                           *)
(***************************************************************************)
RingsAgree ==
    \A n \in up : \A l \in 0 .. get_top_level(n) : \A m \in Peers(n, l) \cap up :
        /\ Resides(m, l)
        /\ Peers(m, l) = Peers(n, l)
        /\ get_contact_nodes(m, l) = get_contact_nodes(n, l)

(***************************************************************************)
(* node_table.cpp:95, "resides in higher levels -> must be one of the      *)
(* contact nodes of that level's ring": a ring's members take exactly those*)
(* of them for contact nodes that reside in the ring above.                *)
(***************************************************************************)
ContactsResideAbove ==
    \A n \in up : \A l \in 0 .. get_top_level(n) : \A m \in Peers(n, l) \cap up :
        l < Top => (m \in get_contact_nodes(n, l) <=> Resides(m, l + 1))

(***************************************************************************)
(* Every level l-1 region has one member in the level l ring whose single  *)
(* digit is 0.  broadcast_within_ring lets only such members carry a       *)
(* broadcast down, so a region without one would hear nothing and a region *)
(* with two everything twice.                                              *)
(***************************************************************************)
Representatives(n, l, i) == {m \in Peers(n, l) : m[l] = i /\ m[0] = 0}

OneRepresentative ==
    \A n \in up : \A l \in 1 .. get_top_level(n) : \A i \in 0 .. Width(l) - 1 :
        Cardinality(Representatives(n, l, i)) = 1

=============================================================================
