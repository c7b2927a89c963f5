--------------------------- MODULE RingBroadcast ----------------------------
(***************************************************************************)
(* PeerManager::broadcast_within_ring: one broadcast inside one ring, as   *)
(* a k-ary spanning tree nobody stores.  A packet carries its "order", the *)
(* distance of its receiver from the member that began the cast, and every *)
(* receiver computes from the order alone whom it has to serve.            *)
(*                                                                         *)
(* A member is its place in the ring's peer_list; all members hold the     *)
(* same list here (RingStructure and HgfrBroadcast drop that assumption).  *)
(* Packets travel in UDP datagrams: they overtake each other and get lost. *)
(***************************************************************************)
EXTENDS Integers, FiniteSets

CONSTANTS
    RingSize,    \* number of entries of peer_list
    Strides,     \* the values pow(k, 0), pow(k, 1), ... of the code, k = 2
    MaxLoss      \* bound: how many datagrams the network may lose

ASSUME RingAssumption == RingSize \in Nat \ {0} /\ MaxLoss \in Nat

\* What the tree needs of the powers of two: each is at least double the one
\* before, and every distance lies between one of them and its double.
ASSUME StridesAssumption ==
    /\ Strides \subseteq Nat \ {0}
    /\ \A s, t \in Strides : s < t => 2 * s <= t
    /\ \A o \in 1 .. RingSize - 1 : \E s \in Strides : s <= o /\ o < 2 * s

VARIABLES
    root,      \* the member that begins the cast, order 0
    started,   \* has it begun?
    net,       \* packets under way
    rcvd,      \* packets that were handled by their receivers
    lost,      \* packets the network dropped
    times      \* how often each member has come by the payload

vars == <<root, started, net, rcvd, lost, times>>

-----------------------------------------------------------------------------
end_ID  == RingSize - 1              \* NodeTable::get_peer_list_size
Members == 0 .. end_ID
Packets == [from : Members, to : Members, order : 1 .. end_ID]

\* A mutant: the index is never wrapped.
WrapNever(i) == i

\* An index past the end of peer_list starts over at its front.
Wrap(i) == IF i > end_ID THEN i - (end_ID + 1) ELSE i

\* Mutants: the stride equal to the own order is not skipped; the last member
\* is left out; no stride is skipped.
ChildStridesAgain(o) == {s \in Strides : o + s <= end_ID /\ ~ (s < o)}
ChildStridesShort(o) == {s \in Strides : o + s < end_ID /\ ~ (s <= o)}
ChildStridesAll(o) == {s \in Strides : o + s <= end_ID}

\* The orders served by the member of order o: a stride that is not above o
\* has been taken by an ancestor already.
ChildStrides(o) == {s \in Strides : o + s <= end_ID /\ ~ (s <= o)}

\* A mutant: the packet carries the stride in place of the receiver's order.
SendsStride(p, o) ==
    {[from |-> p, to |-> Wrap(p + s), order |-> s] : s \in ChildStrides(o)}

\* All the packets one call of broadcast_within_ring sends.
Sends(p, o) ==
    {[from |-> p, to |-> Wrap(p + s), order |-> o + s] : s \in ChildStrides(o)}

-----------------------------------------------------------------------------
Init ==
    /\ root \in Members
    /\ started = FALSE
    /\ net = {}
    /\ rcvd = {}
    /\ lost = {}
    /\ times = [p \in Members |-> 0]

\* on_receive of a packet that starts the cast in this ring with order 0.
Begin ==
    /\ ~ started
    /\ started' = TRUE
    /\ times' = [times EXCEPT ![root] = @ + 1]
    /\ net' = Sends(root, 0)
    /\ UNCHANGED <<root, rcvd, lost>>

\* on_receive, types 2 and 5: pass the packet on with the order it carries.
Handle(m) ==
    /\ m \in net
    /\ rcvd' = rcvd \cup {m}
    /\ times' = [times EXCEPT ![m.to] = @ + 1]
    /\ net' = (net \ {m}) \cup Sends(m.to, m.order)
    /\ UNCHANGED <<root, started, lost>>

\* A datagram does not arrive; nobody notices and nobody sends it again.
Lose(m) ==
    /\ m \in net
    /\ Cardinality(lost) < MaxLoss
    /\ net' = net \ {m}
    /\ lost' = lost \cup {m}
    /\ UNCHANGED <<root, started, rcvd, times>>

Next ==
    \/ Begin
    \/ \E m \in net : Handle(m) \/ Lose(m)

Spec == Init /\ [][Next]_vars

\* The threads of every member run forever (AsyncUDPServer::run), so a packet
\* that stays in a buffer is handled some time.
Fairness == WF_vars(Begin) /\ WF_vars(\E m \in net : Handle(m))

FairSpec == Spec /\ Fairness

-----------------------------------------------------------------------------
\* Members that hold the payload.
Reached == {p \in Members : times[p] > 0}

Quiet == started /\ net = {}

\* Every packet, whatever happened to it.
Sent == net \cup rcvd \cup lost

(***************************************************************************)
(* Type invariant: in particular no packet is addressed past the end of    *)
(* the peer_list, where get_peer_by_order would throw.                     *)
(***************************************************************************)
TypeOK ==
    /\ root \in Members
    /\ started \in BOOLEAN
    /\ net \subseteq Packets
    /\ rcvd \subseteq Packets
    /\ lost \subseteq Packets
    /\ times \in [Members -> Nat]

(***************************************************************************)
(* The order in a packet and the place it is addressed to never drift      *)
(* apart, although each hop computes both anew, and the place modulo the   *)
(* ring's length: the order is the distance from the root to the receiver. *)
(***************************************************************************)
OrderIsDistance == \A m \in Sent : m.to = (root + m.order) % RingSize

(***************************************************************************)
(* No member comes by the payload twice, the root not even once more.      *)
(* PeerManager keeps no memory of broadcasts it has seen: that the tree    *)
(* has one path to every member is all that prevents it, whatever          *)
(* overtakes what.                                                         *)
(***************************************************************************)
AtMostOnce == \A p \in Members : times[p] <= 1

(***************************************************************************)
(* Once a cast that lost nothing has come to rest, it has reached every    *)
(* member of the ring, whatever the ring's size and whoever began.         *)
(***************************************************************************)
ReachesAll == Quiet /\ lost = {} => Reached = Members

(***************************************************************************)
(* What a loss costs: with no acknowledgement and no retry a lost packet   *)
(* cuts off its receiver and everyone below it in the tree, and nobody     *)
(* else.  The members below order q are those whose order agrees with q in *)
(* its low digits.                                                         *)
(***************************************************************************)
CutOff(o) == \E m \in lost, s \in Strides :
                /\ s <= m.order /\ m.order < 2 * s
                /\ o % (2 * s) = m.order

LossCutsSubtree ==
    Quiet => \A o \in 1 .. end_ID : o \notin {m.order : m \in rcvd} <=> CutOff(o)

(***************************************************************************)
(* The ring broadcast is an implementation of RingCast.                    *)
(***************************************************************************)
Cast == INSTANCE RingCast

ImplementsCast == Cast!Spec

(***************************************************************************)
(* Every cast gets to every member some time, unless a packet is lost.     *)
(***************************************************************************)
AllReached == <>(lost # {} \/ Reached = Members)

=============================================================================
