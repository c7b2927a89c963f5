--------------------------- MODULE HgfrBroadcast ----------------------------
(***************************************************************************)
(* One broadcast through the whole hierarchy: PeerManager::broadcast,      *)
(* on_receive and the functions they call, on every node, over the tables  *)
(* that RingStructure's nodes have formed.                                 *)
(*                                                                         *)
(* A broadcast climbs from contact node to contact node (types 1 and 0) to *)
(* a node of the top ring, which turns it around: it casts in its ring of  *)
(* the top level and of every level below, and so does every               *)
(* representative of a region that is reached on the way down (type 2);    *)
(* other members only pass it on inside their ring (type 5).               *)
(*                                                                         *)
(* The sent_ids a packet carries are left out: no decision reads them.     *)
(***************************************************************************)
EXTENDS RingStructure

CONSTANTS
    Strides,   \* the values pow(k, 0), pow(k, 1), ... of the code, k = 2
    Origins,   \* bound: the nodes that may broadcast
    MaxLost,   \* bound: how many datagrams may be lost
    NoNode     \* nobody has broadcast yet

\* What the code relies on of the powers of 2: each is at least twice the one
\* before, and every order a ring's list can have is below the double of one.
ASSUME StridesAssumption ==
    /\ Strides \subseteq Nat \ {0}
    /\ \A s, t \in Strides : s < t => 2 * s <= t
    /\ \A l \in 0 .. Top :
        \A o \in 1 .. Width(l) * (IF l = 0 THEN 1 ELSE ContactLimit(l - 1)) - 1 :
            \E s \in Strides : s <= o /\ o < 2 * s

ASSUME BroadcastAssumption ==
    Origins \subseteq Node /\ NoNode \notin Node /\ MaxLost \in Nat

VARIABLES
    origin,    \* the node that broadcast, or NoNode
    net,       \* datagrams under way, a bag: the same may be sent twice
    calls,     \* messages a node addressed to itself: a direct call
    casts,     \* casts[n][l]: casts that n began in its ring of level l
    heard,     \* heard[n][l]: packets of a level l cast that n handled
    shown,     \* how often a node showed the payload ("Received data: ")
    lost       \* datagrams that were lost, a bag

broadcastVars == <<origin, net, calls, casts, heard, shown, lost>>
vars == <<hash, up, broadcastVars>>

-----------------------------------------------------------------------------
UpFromBelow == 0   \* climbing: from a contact node, for the ring above
UpSameLevel == 1   \* climbing: from a node of the same ring
Down        == 2   \* in the ring, and down from its receiver
InRing      == 5   \* in the ring only

Message == [type : {UpFromBelow, UpSameLevel, Down, InRing}, level : 0 .. Top,
            order : Int, from : Node, to : Node]

Wrap(i, end_ID) == IF i > end_ID THEN i - (end_ID + 1) ELSE i

\* Mutants of TypeAt: whoever resides highest carries the message down; only
\* the level counts.
TypeAtAny(receiver, l) == IF l = 0 THEN InRing ELSE Down
TypeAtNone(receiver, l) == InRing

\* Down, for the representative of a region; level 0 has nothing below it.
TypeAt(receiver, l) == IF l = 0 \/ receiver[0] # 0 THEN InRing ELSE Down

\* A mutant: the stride that equals the own order is taken again.
WithinRingAgain(n, l, order) ==
    LET end_ID == get_peer_list_size(n, l)
        here == get_node_id_in_vector(n, l)
        Receiver(s) == peer_list(n, l)[Wrap(here + s, end_ID) + 1]
    IN  {[type |-> TypeAt(Receiver(s), l), level |-> l, order |-> order + s,
          from |-> n, to |-> Receiver(s)] :
            s \in {s \in Strides : order + s <= end_ID /\ ~ (s < order)}}

\* broadcast_within_ring: nothing, for a ring n does not reside in.
WithinRing(n, l, order) ==
    LET end_ID == get_peer_list_size(n, l)
        here == get_node_id_in_vector(n, l)
        Receiver(s) == peer_list(n, l)[Wrap(here + s, end_ID) + 1]
    IN  {[type |-> TypeAt(Receiver(s), l), level |-> l, order |-> order + s,
          from |-> n, to |-> Receiver(s)] :
            s \in {s \in Strides : order + s <= end_ID /\ ~ (s <= order)}}

\* Mutants: a broadcast handed down leaves out the districts; the order of the
\* new casts is left as the constructor sets it.
DownwardsShort(n, l) == UNION {WithinRing(n, j, 0) : j \in 1 .. l}
DownwardsUnset(n, l) == UNION {WithinRing(n, j, -1) : j \in 0 .. l}

\* The loops "downwards" of on_receive: n casts anew in its rings up to l.
Downwards(n, l) == UNION {WithinRing(n, j, 0) : j \in 0 .. l}

-----------------------------------------------------------------------------
\* on_receive runs on a datagram that reached a running node, or on the
\* message a handler of the same node is just calling it with.
Runs(m) ==
    \/ m \in calls
    \/ /\ BagIn(m, net)
       /\ m.to \in up
       /\ \A c \in calls : c.to # m.to

\* The handler of m sends the messages S (PeerManager::send: to itself by a
\* direct call) and begins casts in the rings of the levels L.
Sends(m, S, L) ==
    LET own == {x \in S : x.to = m.to}
    IN  /\ net' = (IF m \in calls THEN net ELSE net (-) SetToBag({m}))
                    (+) SetToBag(S \ own)
        /\ calls' = (calls \ {m}) \cup own
        /\ casts' = [casts EXCEPT ![m.to] =
                        [l \in 0 .. Top |-> IF l \in L THEN @[l] + 1 ELSE @[l]]]

Shows(m) == shown' = [shown EXCEPT ![m.to] = @ + 1]

\* The ring whose member a climbing message looks for.
Climbing(m) == m.type \in {UpFromBelow, UpSameLevel}

\* Mutants: a climbing message is always taken to come from below, or never.
ClimbsToAbove(m) == m.level + 1
ClimbsToSame(m) == m.level

ClimbsTo(m) == IF m.type = UpFromBelow THEN m.level + 1 ELSE m.level

\* broadcast: hand the payload to some contact node of the own district.
Broadcast(n) ==
    /\ origin = NoNode
    /\ n \in up
    /\ origin' = n
    /\ \E r \in get_contact_nodes(n, 0) :
        LET m == [type |-> UpSameLevel, level |-> 0, order |-> -1, from |-> n, to |-> r]
        IN  IF r = n THEN calls' = {m} /\ UNCHANGED net
                     ELSE net' = SetToBag({m}) /\ UNCHANGED calls
    /\ UNCHANGED <<hash, up, casts, heard, shown, lost>>

\* Types 0 and 1 below the top ring: on to some contact node of the ring above.
Climb(m) ==
    /\ Runs(m) /\ Climbing(m)
    /\ is_contact_node(m.to, ClimbsTo(m))
    /\ \E r \in get_contact_nodes(m.to, ClimbsTo(m) + 1) :
        Sends(m, {[type |-> UpFromBelow, level |-> ClimbsTo(m), order |-> -1,
                   from |-> m.to, to |-> r]}, {})
    /\ UNCHANGED <<hash, up, origin, heard, shown, lost>>

\* Types 0 and 1 in the top ring: show the payload and turn around.
TurnDown(m) ==
    /\ Runs(m) /\ Climbing(m)
    /\ is_contact_node(m.to, ClimbsTo(m))
    /\ get_contact_nodes(m.to, ClimbsTo(m) + 1) = {}
    /\ Sends(m, Downwards(m.to, ClimbsTo(m)), 0 .. ClimbsTo(m))
    /\ Shows(m)
    /\ UNCHANGED <<hash, up, origin, heard, lost>>

\* Types 0 and 1 at a node outside the ring the sender took it to reside in:
\* it knows no contact nodes above either (tables has no gaps), so broadcast_up
\* shows the payload and casts in that ring, with the order -1 of a new Message.
Stranded(m) ==
    /\ Runs(m) /\ Climbing(m)
    /\ ~ is_contact_node(m.to, ClimbsTo(m))
    /\ Sends(m, WithinRing(m.to, ClimbsTo(m), m.order), {})
    /\ Shows(m)
    /\ UNCHANGED <<hash, up, origin, heard, lost>>

\* The part types 2 and 5 share: the packet counts in its ring, and in the
\* highest ring of its receiver the payload is shown.
Hears(m) ==
    /\ heard' = [heard EXCEPT ![m.to][m.level] = @ + 1]
    /\ IF m.level = get_top_level(m.to) THEN Shows(m) ELSE UNCHANGED shown
    /\ UNCHANGED <<hash, up, origin, lost>>

\* Type 2: pass on in the ring, and cast in every ring below.
PassDown(m) ==
    /\ Runs(m) /\ m.type = Down
    /\ Sends(m, WithinRing(m.to, m.level, m.order) \cup Downwards(m.to, m.level - 1),
             0 .. m.level - 1)
    /\ Hears(m)

\* Type 5: pass on in the ring.
PassOn(m) ==
    /\ Runs(m) /\ m.type = InRing
    /\ Sends(m, WithinRing(m.to, m.level, m.order), {})
    /\ Hears(m)

\* A datagram is lost, or arrives where no server is running yet.
Lose(m) ==
    /\ BagIn(m, net)
    /\ \/ BagCardinality(lost) < MaxLost
       \/ m.to \notin up
    /\ net' = net (-) SetToBag({m})
    /\ lost' = lost (+) SetToBag({m})
    /\ UNCHANGED <<hash, up, origin, calls, casts, heard, shown>>

-----------------------------------------------------------------------------
Init ==
    /\ StructureInit
    /\ origin = NoNode
    /\ net = EmptyBag
    /\ calls = {}
    /\ casts = [n \in Node |-> [l \in 0 .. Top |-> 0]]
    /\ heard = [n \in Node |-> [l \in 0 .. Top |-> 0]]
    /\ shown = [n \in Node |-> 0]
    /\ lost = EmptyBag

OnReceive(m) == Climb(m) \/ TurnDown(m) \/ Stranded(m) \/ PassDown(m) \/ PassOn(m)

Start == StructureNext /\ UNCHANGED broadcastVars

Next ==
    \/ Start
    \/ \E n \in Origins : Broadcast(n)
    \/ \E m \in BagToSet(net) \cup calls : OnReceive(m) \/ Lose(m)

Spec == Init /\ [][Next]_vars

\* Receiver and handler threads run forever on every node: what has arrived,
\* and what is called, is handled.  This is weak fairness of OnReceive with its
\* ENABLED condition spelled out as Runs.
HandlersRun ==
    \/ []<>(\A m \in BagToSet(net) \cup calls : ~ Runs(m))
    \/ []<><<\E m \in BagToSet(net) \cup calls : OnReceive(m)>>_vars

FairSpec == Spec /\ HandlersRun

-----------------------------------------------------------------------------
Quiet == origin # NoNode /\ net = EmptyBag /\ calls = {}

\* The regions of level l, each the set of its nodes.
RegionsAt == [l \in 0 .. Top |-> {SameRegion(n, l) : n \in Node}]

\* The nodes that have begun a cast in the level l ring of the region R.
Casters(R, l) == {n \in R : casts[n][l] > 0}

(***************************************************************************)
(* Type invariant: among the rest, a climbing message has no order yet and *)
(* a packet of a cast has one that its sender's list can have.             *)
(***************************************************************************)
TypeOK ==
    /\ hash \in Hashes /\ up \subseteq Node
    /\ origin \in Origins \cup {NoNode}
    /\ \A b \in {net, lost} : b \in [BagToSet(b) -> Nat \ {0}]
    /\ \A m \in BagToSet(net) \cup calls \cup BagToSet(lost) :
        /\ m \in Message
        /\ m.order \in IF Climbing(m) THEN {-1}
                       ELSE 1 .. get_peer_list_size(m.from, m.level)
    /\ casts \in [Node -> [0 .. Top -> Nat]]
    /\ heard \in [Node -> [0 .. Top -> Nat]]
    /\ shown \in [Node -> Nat]

(***************************************************************************)
(* No node shows the payload twice, though none remembers having seen it.  *)
(***************************************************************************)
ShownAtMostOnce == \A n \in Node : shown[n] <= 1

(***************************************************************************)
(* A climbing message only ever reaches nodes that reside in the ring it   *)
(* climbs to, by their own tables, not only by those of its sender; it     *)
(* turns around once, and in the top ring of the whole structure: no cast  *)
(* begins anywhere before one node has begun the cast there.               *)
(***************************************************************************)
ClimbEndsAtTop ==
    /\ \A m \in BagToSet(net) \cup calls :
        Climbing(m) /\ m.to \in up => is_contact_node(m.to, ClimbsTo(m))
    /\ (\E n \in Node, l \in 0 .. Top : casts[n][l] > 0)
        => \E r \in Node : Casters(Node, Top) = {r} /\ casts[r][Top] = 1

(***************************************************************************)
(* peer_manager.cpp:192, "regions sent - avoid repeated messages": a       *)
(* region's ring is cast in by one node only, and once.                    *)
(***************************************************************************)
RegionsSentOnce ==
    \A l \in 0 .. Top : \A R \in RegionsAt[l] : \A p, q \in Casters(R, l) :
        p = q /\ casts[p][l] = 1

(***************************************************************************)
(* What comes twice comes twice near the turning point only: outside the   *)
(* top region of the node that turned the broadcast around every node      *)
(* shows the payload at most once, although a ring joins several contact   *)
(* nodes of each region and they cannot tell whether another one is at it. *)
(***************************************************************************)
RepeatsNearTurn ==
    \A r \in Casters(Node, Top), n \in Node : n[Top] # r[Top] => shown[n] <= 1

(***************************************************************************)
(* peer_manager.cpp:183, "k-ary distributed spanning tree": a cast that is *)
(* begun once in a ring takes at most one path to each member, each member *)
(* computing its children from its own copy of the list.                   *)
(***************************************************************************)
SpanningTree ==
    \A l \in 0 .. Top : \A R \in RegionsAt[l] : \A p \in Casters(R, l) :
        Casters(R, l) = {p} /\ casts[p][l] = 1
            => \A n \in R : casts[n][l] + heard[n][l] <= 1

(***************************************************************************)
(* What a loss costs, over the whole hierarchy, with one contact node per  *)
(* ring: when the broadcast has come to rest, exactly those have not shown *)
(* it who are below a lost packet - its receiver's subtree in the ring and *)
(* the regions these members represent - or all, if it was lost on its way *)
(* up.  No other path makes up for it, and nothing else gets lost with it. *)
(***************************************************************************)
Below(m, n) ==
    LET order == (n[m.level] - m.to[m.level] + m.order) % Width(m.level)
    IN  /\ Region(n, m.level) = Region(m.to, m.level)
        /\ \E s \in Strides : /\ s <= m.order /\ m.order < 2 * s
                              /\ order % (2 * s) = m.order

LossCutsRegions ==
    Quiet => \A n \in Node :
        shown[n] = 0 <=> \E m \in BagToSet(lost) : Climbing(m) \/ Below(m, n)

(***************************************************************************)
(* Every broadcast dies out, even over tables that disagree: no packet is  *)
(* passed around forever.                                                  *)
(***************************************************************************)
BroadcastEnds == origin # NoNode ~> Quiet

(***************************************************************************)
(* Every node gets to show every broadcast, if nothing is lost.            *)
(***************************************************************************)
EveryoneServed == origin # NoNode ~> \A n \in Node : shown[n] > 0

(***************************************************************************)
(* In each ring of each region the broadcast is one cast as RingCast       *)
(* promises it, however the casts of different rings interleave.           *)
(***************************************************************************)
Times(R, l) == [n \in R |-> casts[n][l] + heard[n][l]]

RingCastOf(R, l) == INSTANCE RingCast WITH Members <- R, times <- Times(R, l)

RingCastStep(R, l) == RingCastOf(R, l)!Next \/ UNCHANGED Times(R, l)

ImplementsRingCasts ==
    /\ \A l \in 0 .. Top : \A R \in RegionsAt[l] : RingCastOf(R, l)!Init
    /\ [][\A l \in 0 .. Top : \A R \in RegionsAt[l] : RingCastStep(R, l)]_vars

=============================================================================
