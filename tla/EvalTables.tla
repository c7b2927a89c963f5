----------------------------- MODULE EvalTables -----------------------------
(***************************************************************************)
(* What an evaluation client makes of the shape in its CONFIG and of the   *)
(* node list in its TABLE: EvalClient::create_hgfr_table, a copy of        *)
(* form_structure that takes the nodes of its rings from the list, passes  *)
(* over those missing there, and has drifted from the original: a state has*)
(* num_cnodes_in_dist regions too few or too many, absent city and state   *)
(* levels end nothing, and the contacts found at city level are not carried*)
(* over to the level of the states.                                        *)
(*                                                                         *)
(* RingStructure is the same structure as formed from the command line.    *)
(***************************************************************************)
EXTENDS RingStructure

CONSTANTS
    Shapes,      \* shapes an operator may enter
    NodeLists,   \* node lists a client may have got: sets of ids
    NoShape,     \* a model value: nothing was entered yet
    TABLE_SIZE   \* of a gossip table, for NodeIds

Ids == INSTANCE NodeIds

\* Absent dist and city levels, which leave rings without peers, are left out.
ASSUME TablesAssumption ==
    /\ Top >= 2
    /\ \A s \in Shapes : Ids!IsShape(s)
    /\ NodeLists \subseteq SUBSET Node
    /\ TABLE_SIZE \in Nat

VARIABLES
    shape,      \* what the operator entered
    node_list   \* node_list_ of every client

evalVars == <<hash, up, shape, node_list>>

-----------------------------------------------------------------------------
\* create_hgfr_table returns before the states or before the countries.
LastLevel == IF NumNodes[3] = 0 THEN 2 ELSE IF NumNodes[4] = 0 THEN 3 ELSE 5

\* The regions a ring joins: num_cities_in_state divides by the contacts of a
\* dist, form_structure's by those of a city.
ListedWidth(l) == IF l = 2 THEN NumNodes[2] \div NumCnodes[0] ELSE Width(l)

\* A mutant: a node missing in the list keeps its place.
ListedAll(s, list) == s

\* The members of S in s, in order: Kept[i] are those among the first i.
Among(s, S) ==
    LET Kept[i \in 0 .. Len(s)] ==
            IF i = 0 THEN <<>>
            ELSE IF s[i] \in S THEN Append(Kept[i - 1], s[i])
            ELSE Kept[i - 1]
    IN  Kept[Len(s)]

\* Nodes that are not in the list are passed over.
Listed(s, list) == Among(s, list)

ListedPeers(self, l, contacts, list) ==
    LET c == Len(contacts)
        transplanted ==
            [i \in 1 .. ListedWidth(l) * c |->
                [d \in 0 .. Top |->
                    IF d < l THEN contacts[((i - 1) % c) + 1][d]
                    ELSE IF d = l THEN (i - 1) \div c
                    ELSE self[d]]]
    IN  Listed(transplanted, list)

\* A mutant: nor does the dist level hand its contacts on.
CarriesHigher(l) == l > 2

\* Which levels make their contacts those of the next; where not, they stay in
\* contact_nodes_next and are still there at the next level.
Carries(l) == l # 2

\* The district's ring, and its contacts.
FirstListed(self, list) ==
    LET district == DistrictPeers(self)
        contacts == Listed(FirstOf(district, NumCnodes[0]), list)
    IN  [tables |-> <<[peer_list |-> Listed(district, list),
                       contact_nodes |-> ToSet(contacts)]>>,
         contact_nodes_list |-> contacts, next |-> <<>>]

\* tables, contact_nodes_list and contact_nodes_next after the ring of level l,
\* when those after the level below are known.
NextListed(self, h, l, below, list) ==
    LET peers == ListedPeers(self, l, below.contact_nodes_list, list)
        next == below.next \o Among(FirstOf(peers, ContactLimit(l)),
                                    Node \ ToSet(below.next))
        tables_next == Append(below.tables,
                              [peer_list |-> peers, contact_nodes |-> ToSet(next)])
    IN  IF self \notin ToSet(below.contact_nodes_list) THEN below
        ELSE IF Carries(l)
        THEN [tables |-> tables_next,
              contact_nodes_list |-> IF l = LastLevel THEN <<>>
                                     ELSE MapIteration(h[Region(self, l)], next),
              next |-> <<>>]
        ELSE [tables |-> tables_next,
              contact_nodes_list |-> below.contact_nodes_list, next |-> next]

create_hgfr_table(self, h, list) ==
    LET Created[l \in 0 .. LastLevel] ==
            IF l = 0 THEN FirstListed(self, list)
            ELSE NextListed(self, h, l, Created[l - 1], list)
    IN  Created[LastLevel].tables

-----------------------------------------------------------------------------
TablesInit == StructureInit /\ shape = NoShape /\ node_list = {}

Idle == shape = NoShape /\ node_list = {} /\ up = Node \ Late

\* CONFIG, with any shape.
Configure ==
    /\ Idle
    /\ shape' \in Shapes
    /\ UNCHANGED <<hash, up, node_list>>

\* TABLE, for the shape that RingStructure's constants are.
Table ==
    /\ Idle
    /\ node_list' \in NodeLists
    /\ UNCHANGED <<hash, up, shape>>

TablesNext ==
    \/ shape = NoShape /\ node_list = {} /\ StructureNext /\ UNCHANGED <<shape, node_list>>
    \/ Configure
    \/ Table

TablesSpec == TablesInit /\ [][TablesNext]_evalVars

-----------------------------------------------------------------------------
(***************************************************************************)
(* utils.cpp's conversions undo each other in exactly the shapes in which  *)
(* both count alike, and there gossip tables are filled rightly, whatever  *)
(* shape an operator enters.                                               *)
(***************************************************************************)
IdsFit ==
    shape # NoShape => Ids!IdsFit(shape)

\* The tables of all listed nodes.
ListedTables ==
    [n \in node_list |-> create_hgfr_table(n, hash, node_list)]

(***************************************************************************)
(* Up to the city ring (where dist and city have as many contacts) an      *)
(* evaluation has the rings of form_structure: of the district's ring those*)
(* who are listed, and the rings above it as they are, however many others *)
(* than contacts never registered.                                         *)
(***************************************************************************)
CopyKeeps ==
    NumCnodes[0] = NumCnodes[1] /\ (\A x \in Node \ node_list : x[0] >= NumCnodes[0]) =>
        LET t == ListedTables
            f == FormedTables[hash]
        IN  \A n \in node_list :
                /\ ToSet(t[n][1].peer_list) = ToSet(f[n][1].peer_list) \cap node_list
                /\ t[n][1].contact_nodes = f[n][1].contact_nodes
                /\ \A l \in 1 .. 2 : /\ l < Len(t[n]) <=> l < Len(f[n])
                                     /\ l < Len(t[n]) => t[n][l + 1] = f[n][l + 1]

(***************************************************************************)
(* With a whole list an evaluation forms what form_structure forms.  Whom a*)
(* ring of level 3 is for stands in both, in the same words: a node that   *)
(* "should be the contact node of the state level ring" (eval_client.cpp:  *)
(* 351, app.cpp:236).                                                      *)
(***************************************************************************)
CopyForms ==
    node_list = Node /\ NumCnodes[0] = NumCnodes[1] =>
        \A n \in Node : ListedTables[n] = FormedTables[hash][n]

(***************************************************************************)
(* A node that never registered is missing in everybody's list.  If it is  *)
(* no contact of its district the others still agree on their rings up to  *)
(* the state's (a country's they agree on in no case, see CountriesDiffer);*)
(* if it is, its neighbours carry its absence over to the districts around *)
(* them, which know nothing of it, and the rings of the two differ.        *)
(***************************************************************************)
ListedRingsAgree ==
    LET t == ListedTables
        RingOf(n, l) == ToSet(t[n][l + 1].peer_list)
        Agree == \A n \in node_list : \A l \in 0 .. Len(t[n]) - 1 : l <= 3 =>
                    \A m \in RingOf(n, l) : /\ m \in node_list /\ l < Len(t[m])
                                            /\ RingOf(m, l) = RingOf(n, l)
    IN  node_list # {} =>
            (Agree <=> \A x \in Node \ node_list : x[0] >= NumCnodes[0])

=============================================================================
