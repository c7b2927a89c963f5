------------------------------- MODULE EthPush ------------------------------
(***************************************************************************)
(* PeerManagerETH in PUSH mode: whoever gets a broadcast for the first time*)
(* sends it on to a few random entries of its routing table, with a time to*)
(* live that is one less.                                                  *)
(*                                                                         *)
(* broadcasted_msgs holds the ids of a node's own broadcasts and only gives*)
(* them numbers; broadcasted_msgs_all_nodes holds those it has forwarded.  *)
(* A broadcast is named by its origin: a node broadcasts once here.        *)
(***************************************************************************)
EXTENDS EthOverlay

CONSTANT TTL   \* TTL_ETH

ASSUME PushAssumption == TTL \in Nat

VARIABLES
    begun,     \* the broadcasts that were begun
    seen,      \* broadcasted_msgs_all_nodes of each node
    sends,     \* sends[n][b]: how often n sent b to its receivers
    skipped,   \* <<n, b>>: n sent b and left out its successor
    net,       \* datagrams under way
    lost,      \* datagrams that did not arrive
    expired    \* datagrams dropped at their receivers for ttl 0

vars == <<table, begun, seen, sends, skipped, net, lost, expired>>

-----------------------------------------------------------------------------
Message == [bid : Origins, ttl : 0 .. TTL, from : Node, to : Node]

\* broadcast: n sends b to the receivers it draws; done are datagrams handled.
Send(n, b, ttl, done) ==
    /\ \E R \in Receivers(n) :
        /\ net' = (net \ done) \cup
                    {[bid |-> b, ttl |-> ttl, from |-> n, to |-> r] : r \in R}
        /\ skipped' = IF table[n][0] \in R THEN skipped ELSE skipped \cup {<<n, b>>}
    /\ sends' = [sends EXCEPT ![n][b] = @ + 1]

\* BaseAppETH::broadcast; a node does not note its own broadcast as forwarded.
Broadcast(n) ==
    /\ n \notin begun
    /\ begun' = begun \cup {n}
    /\ Send(n, n, TTL, {})
    /\ UNCHANGED <<table, seen, lost, expired>>

\* Mutants: the sender's list is asked; the list of own broadcasts is asked.
SawAtSender(m) == m.bid \in seen[m.from]
SawOwn(m) == m.bid = m.to

Saw(m) == m.bid \in seen[m.to]

\* A mutant: the time to live is not looked at.
DeadNever(m) == FALSE

Dead(m) == m.ttl = 0

\* receive: nothing left to live, dropped before it is even logged.
Expire(m) ==
    /\ m \in net
    /\ Dead(m)
    /\ net' = net \ {m}
    /\ expired' = expired \cup {m}
    /\ UNCHANGED <<table, begun, seen, sends, skipped, lost>>

\* A mutant: the handler does not take the datagram out of its queue.
IgnoreStays(m) == m \in net /\ ~ Dead(m) /\ Saw(m) /\ UNCHANGED vars

\* on_receive: forwarded before.
Ignore(m) ==
    /\ m \in net
    /\ ~ Dead(m)
    /\ Saw(m)
    /\ net' = net \ {m}
    /\ UNCHANGED <<table, begun, seen, sends, skipped, lost, expired>>

\* on_receive: note it and send it on.
Forward(m) ==
    /\ m \in net
    /\ ~ Dead(m)
    /\ ~ Saw(m)
    /\ seen' = [seen EXCEPT ![m.to] = @ \cup {m.bid}]
    /\ Send(m.to, m.bid, m.ttl - 1, {m})
    /\ UNCHANGED <<table, begun, lost, expired>>

\* The network drops a datagram.
Lose(m) ==
    /\ m \in net
    /\ Cardinality(lost) < MaxLost
    /\ net' = net \ {m}
    /\ lost' = lost \cup {m}
    /\ UNCHANGED <<table, begun, seen, sends, skipped, expired>>

-----------------------------------------------------------------------------
Init ==
    /\ FormStructure
    /\ begun = {}
    /\ seen = [n \in Node |-> {}]
    /\ sends = [n \in Node |-> [b \in Origins |-> 0]]
    /\ skipped = {}
    /\ net = {}
    /\ lost = {}
    /\ expired = {}

Receive(m) == Expire(m) \/ Ignore(m) \/ Forward(m)

Next ==
    \/ \E n \in Origins : Broadcast(n)
    \/ \E m \in net : Receive(m) \/ Lose(m)

Spec == Init /\ [][Next]_vars

\* The handler threads run forever.
Fairness == WF_vars(\E m \in net : Receive(m))

FairSpec == Spec /\ Fairness

-----------------------------------------------------------------------------
Holds(n, b) == (n = b /\ b \in begun) \/ b \in seen[n]

(***************************************************************************)
(* Type invariant.                                                         *)
(***************************************************************************)
TypeOK ==
    /\ FormStructure
    /\ begun \subseteq Origins
    /\ seen \in [Node -> SUBSET begun]
    /\ sends \in [Node -> [Origins -> Nat]]
    /\ skipped \subseteq Node \X begun
    /\ net \cup lost \cup expired \subseteq Message

(***************************************************************************)
(* The seen list works: however often and from however many sides a        *)
(* broadcast comes in, a node sends it to its receivers once, and the      *)
(* origin, which does not remember its own, at most once more.             *)
(***************************************************************************)
SendsBounded ==
    \A n \in Node, b \in Origins : sends[n][b] <= IF n = b THEN 2 ELSE 1

(***************************************************************************)
(* A time to live is used up by different nodes only: a datagram has lost  *)
(* no more of it than there are nodes that forwarded the broadcast.  With a*)
(* TTL_ETH above the number of nodes it never runs out.                    *)
(***************************************************************************)
Forwarders(b) == {n \in Node : b \in seen[n]}

TtlCountsForwards ==
    \A m \in net \cup lost \cup expired :
        TTL - m.ttl <= Cardinality(Forwarders(m.bid))

(***************************************************************************)
(* Who can have been left out when gossip has died down: a node whose      *)
(* predecessor in the ring of first entries was left out itself, drew      *)
(* receivers without it, or sent it a datagram that was lost or expired.   *)
(* In all other cases the ring of successors makes random gossip reliable. *)
(***************************************************************************)
NobodyLeftOut ==
    net = {} => \A p \in Node, b \in begun :
        Holds(p, b) => \/ Holds(Successor(p), b)
                       \/ <<p, b>> \in skipped
                       \/ \E m \in lost \cup expired :
                            m.bid = b /\ m.from = p /\ m.to = Successor(p)

(***************************************************************************)
(* Gossip dies down, whatever is drawn and lost.                           *)
(***************************************************************************)
GossipEnds == begun # {} ~> net = {}

=============================================================================
