------------------------------- MODULE EthPull ------------------------------
(***************************************************************************)
(* PeerManagerETH in PULL mode: a node that has data invites a few entries *)
(* of its routing table, whoever lacks the data requests it from each node *)
(* that invites it, and invites others every time the data arrives.        *)
(*                                                                         *)
(* Data is named by the node that broadcasts it; each broadcasts once.     *)
(***************************************************************************)
EXTENDS EthOverlay, Bags

VARIABLES
    data_map,   \* data_map of each node: the data it has
    invited,    \* <<n, r, d>>: n invited r to d
    rounds,     \* rounds[n][d]: how often n invited others to d
    requests,   \* requests[n][d]: how often n requested d
    pull_net,   \* datagrams under way, a bag
    pull_lost   \* datagrams that did not arrive, a bag

pullVars == <<table, data_map, invited, rounds, requests, pull_net, pull_lost>>

-----------------------------------------------------------------------------
PullMessage ==
    [type : {"inv", "data", "request"}, item : Origins, from : Node, to : Node]

Reply(type, m) == [type |-> type, item |-> m.item, from |-> m.to, to |-> m.from]

\* The datagrams in a set, each once, in place of the bag done.
Put(msgs, done) == pull_net' = (pull_net (-) done) (+) SetToBag(msgs)

\* broadcast: n invites the receivers it draws.
Invite(n, d, done) ==
    /\ \E R \in Receivers(n) :
        /\ Put({[type |-> "inv", item |-> d, from |-> n, to |-> r] : r \in R}, done)
        /\ invited' = invited \cup {<<n, r, d>> : r \in R}
    /\ rounds' = [rounds EXCEPT ![n][d] = @ + 1]

\* BaseAppETH::broadcast: keep the data, then invite.
PullBroadcast(n) ==
    /\ n \notin data_map[n]
    /\ data_map' = [data_map EXCEPT ![n] = @ \cup {n}]
    /\ Invite(n, n, EmptyBag)
    /\ UNCHANGED <<table, requests, pull_lost>>

\* A mutant: the sender's data is looked at.
HasSender(m) == m.item \in data_map[m.from]

Has(m) == m.item \in data_map[m.to]

\* A mutant: the handler does not take the datagram out of its queue.
UselessInvStays(m) == m.type = "inv" /\ Has(m) /\ UNCHANGED pullVars

\* on_receive, an invitation to data the node has.
UselessInv(m) ==
    /\ m.type = "inv"
    /\ Has(m)
    /\ Put({}, SetToBag({m}))
    /\ UNCHANGED <<table, data_map, invited, rounds, requests, pull_lost>>

\* on_receive, an invitation to data it lacks, also if it requested it before.
Request(m) ==
    /\ m.type = "inv"
    /\ ~ Has(m)
    /\ Put({Reply("request", m)}, SetToBag({m}))
    /\ requests' = [requests EXCEPT ![m.to][m.item] = @ + 1]
    /\ UNCHANGED <<table, data_map, invited, rounds, pull_lost>>

\* Mutants: the data is passed on and not kept; it is kept under a wrong key.
ReceiveDataForgets(m) ==
    /\ m.type = "data"
    /\ Invite(m.to, m.item, SetToBag({m}))
    /\ UNCHANGED <<table, data_map, requests, pull_lost>>

\* on_receive, the data: keep it and invite others, also if it came before.
ReceiveData(m) ==
    /\ m.type = "data"
    /\ data_map' = [data_map EXCEPT ![m.to] = @ \cup {m.item}]
    /\ Invite(m.to, m.item, SetToBag({m}))
    /\ UNCHANGED <<table, requests, pull_lost>>

\* A mutant: only what is asked of the origin is answered.
AnswerAtOrigin(m) ==
    /\ m.type = "request"
    /\ Put(IF m.to = m.item THEN {Reply("data", m)} ELSE {}, SetToBag({m}))
    /\ UNCHANGED <<table, data_map, invited, rounds, requests, pull_lost>>

\* on_receive, a request: the data is looked up, unchecked, and sent.
Answer(m) ==
    /\ m.type = "request"
    /\ Put({Reply("data", m)}, SetToBag({m}))
    /\ UNCHANGED <<table, data_map, invited, rounds, requests, pull_lost>>

\* The network drops a datagram.
PullLose(m) ==
    /\ BagCardinality(pull_lost) < MaxLost
    /\ Put({}, SetToBag({m}))
    /\ pull_lost' = pull_lost (+) SetToBag({m})
    /\ UNCHANGED <<table, data_map, invited, rounds, requests>>

-----------------------------------------------------------------------------
PullInit ==
    /\ FormStructure
    /\ data_map = [n \in Node |-> {}]
    /\ invited = {}
    /\ rounds = [n \in Node |-> [d \in Origins |-> 0]]
    /\ requests = [n \in Node |-> [d \in Origins |-> 0]]
    /\ pull_net = EmptyBag
    /\ pull_lost = EmptyBag

PullReceive(m) == UselessInv(m) \/ Request(m) \/ ReceiveData(m) \/ Answer(m)

PullNext ==
    \/ \E n \in Origins : PullBroadcast(n)
    \/ \E m \in BagToSet(pull_net) : PullReceive(m) \/ PullLose(m)

PullSpec == PullInit /\ [][PullNext]_pullVars

\* The handler threads run forever.
PullFairness == WF_pullVars(\E m \in BagToSet(pull_net) : PullReceive(m))

FairPull == PullSpec /\ PullFairness

-----------------------------------------------------------------------------
(***************************************************************************)
(* Type invariant.                                                         *)
(***************************************************************************)
PullTypeOK ==
    /\ FormStructure
    /\ data_map \in [Node -> SUBSET Origins]
    /\ invited \subseteq Node \X Node \X Origins
    /\ rounds \in [Node -> [Origins -> Nat]]
    /\ requests \in [Node -> [Origins -> Nat]]
    /\ IsABag(pull_net) /\ BagToSet(pull_net) \subseteq PullMessage
    /\ IsABag(pull_lost) /\ BagToSet(pull_lost) \subseteq PullMessage

(***************************************************************************)
(* on_receive answers a request with data_map.find(...)->second, unchecked:*)
(* whoever is asked has the data, in whatever order datagrams come in.     *)
(***************************************************************************)
RequestsAnswerable ==
    \A m \in BagToSet(pull_net) : m.type = "request" => m.item \in data_map[m.to]

\* Requests of n for d and data d on its way to n; each as often as it is in bag.
Concerns(m, n, d) == m.item = d /\ \/ m.type = "request" /\ m.from = n
                                   \/ m.type = "data" /\ m.to = n

Copies(bag, n, d) ==
    UNION {{m} \X (1 .. bag[m]) : m \in {x \in BagToSet(bag) : Concerns(x, n, d)}}

HowMany(bag, n, d) == Cardinality(Copies(bag, n, d))

(***************************************************************************)
(* Every request is answered by one datagram and leads to one round of     *)
(* invitations, and nothing else does, but for the origin's first round:   *)
(* requests, rounds, what is under way and what was lost balance at every  *)
(* node.                                                                   *)
(***************************************************************************)
RequestsBalance ==
    \A n \in Node, d \in Origins :
        requests[n][d] + (IF n = d /\ d \in data_map[d] THEN 1 ELSE 0)
            = rounds[n][d] + HowMany(pull_net, n, d) + HowMany(pull_lost, n, d)

(***************************************************************************)
(* At rest everyone who was invited has the data, or a datagram between    *)
(* the two was lost.                                                       *)
(***************************************************************************)
InvitedAreServed ==
    pull_net = EmptyBag => \A e \in invited :
        \/ e[3] \in data_map[e[2]]
        \/ \E m \in BagToSet(pull_lost) : m.item = e[3] /\ {m.from, m.to} = {e[1], e[2]}

(***************************************************************************)
(* Gossip dies down, although a node requests data it has requested before *)
(* and invites its neighbours again for every answer.                      *)
(***************************************************************************)
PullEnds == pull_net # EmptyBag ~> pull_net = EmptyBag

=============================================================================
