# A formal model of fring's broadcast

fring connects nodes in a hierarchy of rings that follows geography (district,
city, state, country, continent) and broadcasts through it without flooding.
This directory holds TLA+ modules translated from the C++ sources, the
configurations that model-check them with TLC, and proofs checked by TLAPS.
File and line references are to the repository.

## Inventory

| Part | State it keeps | Operations | Hard parts | What makes it correct |
|---|---|---|---|---|
| Ring broadcast, `broadcast_within_ring` (`peer_manager.cpp:184`) | none; a packet carries the receiver's *order* | send to the places at powers of two, pass on | reordering, loss, no memory of what was seen, wrap at the list's end | each member served exactly once; a loss cuts off a subtree only |
| Ring structure, `form_structure` (`app.cpp:23`) and `NodeTable` | per node, one `Ring` per level it resides in | form all tables from the command line; queries by level | nodes never compare tables; hash order of contact lists; counts that act one level off | members of a ring agree on it; contact nodes reside above; one representative per region |
| Hierarchical broadcast, `PeerManager` | tables, message log | `broadcast`, `broadcast_up`, `on_receive` | climbing and casting interleave over all rings; handler and main thread; late nodes | everyone shows the payload, once; it dies out |
| Message log, `MessageTable` | map of messages, csv file | insert sent, insert received | two threads, no lock; constant key; file truncated after the start | every message is recorded; ids are unique |
| Transport, `AsyncUDPServer`, `AtomicQueue` | socket, queue, two threads | `send`, `receive`, `handle`, `stop` | condition variable, threads without an end | handled once, in order of arrival; `stop` stops |
| Gossip baseline, `PeerManagerETH` | routing table, seen lists, `data_map` | push with time to live, pull by invitation | duplicates, own messages, unchecked lookups | forwarded once per node; requests are answered |
| Evaluation bootstrap, `EvalServer`, `EvalClient` | server: registrations, configuration, log files; client: configuration, node list, two manager pointers, log files | register, configure, send the node list in pages, order a broadcast, pull logs in pages | lost and overtaken pages, restarts that register again, reconfiguration, unchecked pointers, a port that stays bound, a draw that need not end | clients of a run find each other; orders are followed; logs arrive whole |
| Evaluation tables, `create_hgfr_table` | none | form ring tables from a shape and a node list | a copy that has drifted; nodes that are not listed | same rings as `form_structure`; agreement of those listed |
| Ids, `utils.cpp`, `create_kad_table` | none | id to number and back; gossip table from drawn numbers | integer division, counts of other levels | the two are inverse; ids are unique; the successor is first |
| `Discovery`, `Node` | unused; records with setters | | | |

The components interact as follows. A program (`app.cpp`) forms the tables of
its node and hands them to a `PeerManager`, which owns an `AsyncUDPServer`. The
server's receiver thread puts datagrams into the queue; its handler thread takes
them out and calls `PeerManager::receive`, which parses, logs and calls
`on_receive`. That one asks the `NodeTable` and sends datagrams. One node
(number 1) calls `broadcast` from its main thread five seconds after it started.

On many machines the same managers are run by `EvalClient`s. Each registers with
an `EvalServer`, whose operator types commands; the server turns a command into one
datagram per registration (CONFIG with the shape, TABLE with a page of the node
list, BROADCAST, PULL_LOG), and a client answers PULL_LOG with pages of its log.
On TABLE a client builds the tables (`create_hgfr_table` or `create_kad_table`) and
starts a manager; the next CONFIG drops the pointer to it.

## Modules

| Module | Models | Theorems |
|---|---|---|
| `RingCast` | abstract: what a cast in one ring promises | |
| `RingBroadcast` | `broadcast_within_ring` on one ring, with a lossy network | |
| `RingBroadcast_proofs` | proofs about `RingBroadcast` | 9 |
| `RingStructure` | `form_structure` on every node, `NodeTable`'s queries | |
| `RingStructure_proofs` | proofs about `RingStructure` | 5 |
| `HgfrBroadcast` | one broadcast through all levels, extends `RingStructure` | |
| `HgfrBroadcast_proofs` | proofs about `HgfrBroadcast`, on those about `RingStructure` | 8 |
| `EthOverlay` | routing tables and choice of receivers of the gossip baseline | |
| `EthPush`, `EthPull` | gossip by pushing and by invitation, both over `EthOverlay` | |
| `EthGossip` | one manager with either mode, of `EthPush` and `EthPull` | |
| `EthPush_proofs`, `EthPull_proofs` | proofs about the two | 6, 4 |
| `FifoChannel` | abstract: what the transport promises a `PeerManager` | |
| `NodeProcess` | the threads of one process, their queue, the csv file | |
| `NodeProcess_proofs` | proofs about `NodeProcess` | 4 |
| `NodeIds` | the two conversions between ids and numbers, `create_kad_table` | |
| `EvalTables` | `create_hgfr_table` next to `RingStructure`'s tables, and `NodeIds` over shapes | |
| `EvalTables_proofs` | proofs about `EvalTables`, on those about `RingStructure` | 5 |
| `EvalBootstrap` | `EvalServer` and `EvalClient`s, extends `NodeIds` | |
| `EvalBootstrap_proofs` | proofs about `NodeIds` and `EvalBootstrap` | 8 |
| `MCRingBroadcast`, `MCEvalTables`, `MCHgfrBroadcast`, `MCEthGossip`, `MCNodeProcess`, `MCEvalBootstrap` | values of the constants for TLC | |

Operators marked "A mutant" are plausible mistakes in the code next to them. No
specification uses them; put in place of the operator below them they break a
property.

### RingBroadcast

A member is its place in the ring's `peer_list`. `Sends(p, o)` is one call of
`broadcast_within_ring` at place `p` with order `o`: the loop over `pow(k, i)`
with its end test, the skipped powers (`pow(k, i) <= node_order`) and the wrap at
the list's end. `Begin` is the call with order 0, `Handle` is `on_receive` of a
type 2 or 5 packet, `Lose` is the network. `rcvd` and `lost` are history; `times`
counts how often a member comes by the payload. The powers of two are the
constant `Strides`, constrained by what the tree needs: each at least doubles the
one before, and every order lies between one of them and its double.

### RingStructure

A node is the tuple of its digits. `FormStructure` is the whole of
`form_structure`: the level 0 ring by number; then (`NextLevel`), as long as the
node is among the contact nodes, the ring above, whose peers are the own region's contact nodes
transplanted into every region (`RingPeers`), and whose first peers are its
contact nodes (`Ring`, `ContactLimit`, which keeps the code's choice of
`num_cnodes_in_state` for the state level). From level 1 up the contact list is
refilled by iterating an `unordered_map`; `MapIteration` gives libstdc++'s order
for a given assignment of contacts to hash buckets (the one listing in which each
entry precedes the next), and `hash` chooses an
assignment for every region. `Form(n)` is the start of a process. The operators
`is_contact_node`, `get_contact_nodes`, `get_peer_list_size`,
`get_node_id_in_vector`, `get_top_level` are NodeTable's.

Addresses are not modelled: a message to a node reaches that node. The code gets
the port of a peer from `convert_ID_string_to_int`, which is right when
`num_cnodes_in_dist = num_cnodes_in_city` (`RoundTrip` in `NodeIds` says exactly when),
as in every shape used with this module.

### HgfrBroadcast

`net` is a bag of datagrams, `calls` the messages a node addressed to itself,
which `send` turns into a direct call of `on_receive`. The actions are the branches
of `on_receive`:

| Action | Code |
|---|---|
| `Broadcast` | `broadcast`: to a random contact node of the district |
| `Climb` | types 0 and 1 below the top: `broadcast_up` to a random contact node above |
| `TurnDown` | types 0 and 1 at the top: cast in the top ring and in all below |
| `Stranded` | types 0 and 1 at a node outside the ring: `broadcast_up` finds nobody |
| `PassDown` | type 2: pass on in the ring, cast in all below |
| `PassOn` | type 5: pass on in the ring |
| `Lose` | the network, or a node that has not started |

The powers of two are the constant `Strides` here too, constrained for all lists
there can be. Random choices are nondeterministic. `casts`, `heard` and `shown` count what
happened at each node; the code keeps no such memory, and no guard reads them. The
`sent_ids` a packet carries are left out because no decision in the code reads
them (the test at `peer_manager.cpp:246` is commented out). The simulated delays
only reorder, which the bag does anyway. One broadcast is modelled: broadcasts do
not influence each other, since nodes remember nothing of them.

### EthOverlay, EthPush, EthPull, EthGossip

A node of the baseline is its number. `RoutingTables(n)` is what
`BaseAppETH::form_structure` may draw: the successor first, then `TABLE_SIZE`
others in ascending order. `Receivers(n)` is what `broadcast` may draw from it: the
first entry or not, and `NUM_RECEIVERS - 1` of the others except the last, which
`random_num_in_range(0, TABLE_SIZE_ETH-1)` never yields. `OverlayAssumption` says
when both draws end; smaller networks hang in `form_structure`.

| Action of `EthPush` | Code (`peer_manager_eth.cpp`) |
|---|---|
| `Broadcast` | `BaseAppETH::broadcast`, which calls `broadcast` with a new id |
| `Expire` | `receive`: ttl 0 |
| `Ignore` | `on_receive`: in `broadcasted_msgs_all_nodes` |
| `Forward` | `on_receive`: noted, then `broadcast` with ttl - 1 |
| `Lose` | the network |

`sends`, `skipped`, `lost` and `expired` are history: nothing reads them but the
properties. The set `net` needs no multiplicities, as no two datagrams of a
broadcast agree in sender, receiver and ttl.

| Action of `EthPull` | Code (`peer_manager_eth.cpp`) |
|---|---|
| `PullBroadcast` | `broadcast` with a new id: data into `data_map`, invitations |
| `UselessInv`, `Request` | `on_receive` type 1, data there or not |
| `ReceiveData` | type 2: data into `data_map`, invitations, every time |
| `Answer` | type 3: the unchecked `data_map.find(...)->second`, data back |
| `PullLose` | the network |

Here the datagrams under way (`pull_net`) are a bag: a node that gets data twice sends
the same invitations twice.
Data stands for its hash; payloads are taken to be different. `PeerManagerETH` is one
class with both: `EthGossip` adds its `mode`, which is set before the manager is
started and asked for by every handler. The program sets
push mode (`app_eth.cpp:171`); pull mode is the line below, commented out.

### NodeProcess

The threads of one process of `app.cpp`, from the moment `BaseApp::start` has
returned. The handling of a datagram is reduced to what the threads share: it
appends a row to the csv file, then sends up to `MaxSends` datagrams, each with a
row of its own.

| Actions | Code |
|---|---|
| `RecvFrom`, `RecvFails` | `AsyncUDPServer::receive`; a failure ends the thread |
| `EnqueueLock`, `Push`, `NotifyUnlock` | `AtomicQueue::enqueue_and_notify` |
| `DequeueLock`, `Check`, `Wait`, `SpuriousWake`, `PopUnlock` | `AtomicQueue::wait_for_dequeue` |
| `Receive`, `HandlerSend`, `ReceiveReturns` | `handle`, `PeerManager::receive`, `send` |
| `OpenLog`, `CloseLog` | `main`: the file is truncated; the header is buffered and written by `close` |
| `Broadcast`, `MainSend`, `BroadcastReturns` | `main` on node 1 |
| `Joined` | `AsyncUDPServer::stop` |

The file is a sequence of lines. `append_message_record` opens, writes and closes
with the append flag, so a row is one step; `main` writes the header at offset 0,
where it overwrites the beginning of a row that is there already (`Damaged`; a row
holds four ids and is longer than the header). `entered`, `taken`, `rows` and `cut` are
history; the first two are the variables of `FifoChannel`. Broadcast modules take from this one that a node handles its datagrams
one at a time; they do not rely on the order.

### NodeIds, EvalTables

`NodeIds` has a shape as a parameter: the ten counts an operator enters and the
number of continents. `Width` and `WidthBack` are the two ways in which `utils.cpp`
counts the regions of a level: `convert_ID_int_to_string` takes an absent level for
one region wide, `convert_ID_string_to_int` for none, and divides the cities of a
state by the contact nodes of a dist (line 133). `KadTable` is `create_kad_table` for
the numbers drawn, its loop a recursive function of the number of ids
looked at. What is drawn is any set of `TABLE_SIZE` (`TABLE_SIZE_ETH`, 13) numbers
without the own and the successor's (`Draws`); the successor's comes in addition
(`NeighborIds`). With too few nodes `Draws` is empty, as the code's loop never ends. `RoundTrip` and `TableHasSuccessor` are statements about one shape, and
`IdsFit` is both.

`EvalTables` extends `RingStructure` with `create_hgfr_table`, which EvalClient has
as a copy of `form_structure` of its own. It differs in four ways, all modelled: it
leaves out nodes that are not in the list (`Listed`), counts the states' cities
otherwise (`ListedWidth`), goes on above absent levels (`LastLevel`), and does not
hand on the contacts of the city level (`Carries`). `FirstListed` is the district's
ring, `NextListed` what one level adds to the rings, the contacts' list and
`contact_nodes_next`. The behaviour is one step:
`Configure` chooses a shape, `Table` a node list, or a late node forms its tables.

### EvalBootstrap

A client is its address. `down[c]` and `up[c]` are the datagrams on the way to
it and from it, in order; `Disturb` lets one vanish or be overtaken.

| Action | Code |
|---|---|
| `Start` | `main`, `EvalClient::run`, `send_init` |
| `Crash` | the process ends; its log files stay |
| `HandleConfig` | `handle_config`: the pointer of the old type is reset |
| `HandleTable` | `handle_table`: page into `node_list_`; after the last, tables and `start`, or a draw without end |
| `HandleBroadcast` | `handle_broadcast`; what the broadcast does is rows in logs |
| `HandlePullLog` | `send_push_log`; without a manager a null pointer: the process ends |
| `ServerReceive` | `EvalServer::receive`: INIT into `db_`, PUSH_LOG into a file |
| `handle_config`, `handle_table` | the operator's commands, one datagram per registration and page |
| `Order` | `handle_broadcast`, `handle_pull_log`, also those of `expr` and `pull_log_all` |
| `Vanish` | a datagram arrives where no process runs |

`port[c]` is the manager whose server is bound to the client's port. The first
manager keeps it for good: `PeerManager::start` gave the server a `shared_ptr` to
the manager that owns it, so neither is ever destroyed. `told`, `disturbed`, `hasty`,
`refused` and `pulled` are history. `hung` holds the clients whose handler thread is
in a draw that never ends (`create_kad_table` in a structure of fewer than
`TABLE_SIZE_ETH + 2` nodes, `TablesEnd`): they handle nothing any more, and only a
restart helps. A gossip table that is short since some nodes never registered is read
beyond its end by `PeerManagerETH::broadcast` (`peer_manager_eth.cpp:124`, `132`). That
is undefined behaviour: if it ends the process, `Crash` with the order still on its
way is what happens; other outcomes are not modelled. One command is one step, since `mlock_` keeps
registrations out and the datagrams it sends are handled any time later anyway.

## Runs

| Run | Bounds | Distinct states | Shows |
|---|---|---|---|
| `ring` | ring of 11, up to 2 losses, every root, fair | 29 018 | order = distance, at most once, complete without loss, a loss cuts off one subtree, implements `RingCast`, everyone is reached if nothing is lost |
| `structure` | 32 nodes, 4 levels, 3 contacts, 64 hash assignments, 2 late nodes, 3 node lists, 8 shapes | 960 | tables fit together, one representative per region; ids and numbers; what the copy of `form_structure` keeps, and what a missing node does to it |
| `hgfr_single` | 16 nodes, 3 levels, 1 contact, 2 origins, 1 loss, 1 late node | 28 531 | exactly once for everyone or for exactly those not below a loss; each ring's casts implement `RingCast` |
| `hgfr_pairs` | 8 nodes, 3 levels, 2 contacts, 2 origins, no loss, fair | 30 457 | everyone shows it; repeats only in the turning node's top region; a single cast is a tree |
| `hgfr_odd` | 6 nodes, 4 levels, counts 3/3/1, fair | 14 872 | a broadcast dies out even over tables that disagree |
| `gossip` | 4 nodes, tables of 2 + 1, 2 receivers, both modes, ttl 3, 2 losses, fair | 46 211 | push: sent once, twice by the origin; the ttl is used up by nodes; nobody is left out without a reason; pull: requests find their data and balance with rounds, invitations are kept; both die down |
| `process` | 3 datagrams, 1 send each, one broadcast, fair | 212 076 | no lost wakeup; a FIFO channel; all arrivals are handled; the file misses no row from after the header |
| `bootstrap` | 2 clients, pages of 2 entries and of 2 lines, 3 configurations of different type and shape, up to 4 registrations, 1 datagram lost or overtaken, fair | 239 136 | clients of a run find each other; one manager; orders given in time are followed; logs arrive whole; a client told everything gets a manager, unless its gossip table cannot be drawn |
| `hgfr_repeats` | as `hgfr_pairs` | | violated: see findings |
| `hgfr_triples` | 6 nodes, 3 levels, 3 contacts | | violated: see findings |
| `structure_copy` | as `structure` | | violated: see findings |
| `bootstrap_reset` | as `bootstrap`, 2 runs, nothing else | | violated: see findings |

Why these bounds suffice. A ring of 11 has orders with one, two and three
non-zero binary digits, crosses the end of the list from all roots but one, and
is no power of two; the proofs remove the bound for all safety properties. Two lost packets are the fewest that can hide each other (one
below the other) or lie apart. Three levels have a top, a middle and a bottom;
two levels would not let a representative both receive from above and be handed
down again. Three contact nodes are the fewest whose hash orders can differ: two
are always listed in reverse. Datagrams to a late node are lost without counting
against `MaxLost`.

Gossip among four nodes: a broadcast can come back to its origin over one, two or
three others, so the origin's second round, repeats on all paths and a node reached
only over the longest one all occur; a ttl of 3 runs out on the fourth hop only. The
origin is the last node, so that its successor is across the wrap.
For the safety properties the proofs remove the bound.

Three datagrams let one be handled, one be queued and one arrive at the same time,
and let two rows come before the header; one send per datagram puts rows of both
threads next to each other.

The structure of 32 nodes has four nodes and three contacts to a district, so that
one node is no contact, regions can differ in hash order (in 62 of 64 assignments
they do), and there are two states, above which the copy goes its own way. The node
lists miss nobody, a node that is no contact, and one that is; the shapes of
`IdsFit` have absent levels on top and in between, and counts on both sides of
`CountsAgree`, and numbers of nodes for which two numbers can be drawn and for which
not; a table of two numbers besides the successor's has room for orders in which it is
found first, last and in between. The proofs remove the bound for the three invariants of
`RingStructure`, for `IdsFit` and `CopyKeeps`, for `ClimbEndsAtTop` and the types of `HgfrBroadcast`, for
`SpanningTree` and `RepeatsNearTurn` with one or two contact nodes, and for its other
safety properties with one.

In `bootstrap` a behaviour has one of five budgets of operator commands, starts and
disturbances (`MCBudgets`): two runs with a broadcast and a log; one run over a
network that loses or swaps a datagram; three registrations of two machines in two
runs; four registrations; three runs, of which the last has too few nodes for a
gossip table, and an order behind the list. A page of two entries makes three or four of them fill two
pages, and only with four does the second end at a multiple of the page size, which
is `TableSize`'s special case. Shapes with districts of two nodes and of one give the
same number different ids in the two runs, so entries of the first run stay in the
list of the second. A broadcast leaves three rows, a page and a half. `MaxLag` lets
the operator go on while a client is one datagram behind. Two numbers are drawn for
a gossip table (`TABLE_SIZE`, 13 in the code), so that four nodes are just enough for it
and three too few. The proofs remove all these bounds but for `SessionProceeds`.

Deadlock is not checked: a broadcast that has come to rest is the normal end.

Fairness. `handle` and `receive` of `AsyncUDPServer` loop for ever on every node,
so a datagram that arrived is handled some time: weak fairness of handling any
message (`Fairness`, `HandlersRun`; the latter spells out the ENABLED condition,
which TLC evaluates slowly); `FairSpec` of `RingBroadcast`, of both gossip modules and of
`EvalBootstrap` (`Handle` of every client, `ServerReceive` from every client) asks
for no more. The draw of a gossip table that can end is taken to end (it does with
probability 1).
`NodeProcess` goes below that: its threads go on when they can, and one that wants
`buffer_mutex` gets it if it is free again and again (strong fairness: without it
spurious wakeups of the handler could keep the receiver out for ever, which no
scheduler does). Arrivals, failures and spurious wakeups are not fair, and `main`
needs no fairness.
Nothing else is fair: nobody has to broadcast, to type, to start, or to lose
anything. What is said about delivery (`AllReached`, `EveryoneServed`,
`SessionProceeds`) excludes loss, because nothing in the code makes up for it; gossip
dies down with and without.

## Findings

* **Regions are cast in twice** (`hgfr_repeats`). `peer_manager.cpp:192` has
  "regions sent - avoid repeated messages", but the set is only carried along. A
  broadcast that is turned around by a contact node other than number 0 of its
  district is cast in that node's lower rings both by it and by number 0.
  `RepeatsNearTurn` (checked in `hgfr_pairs`, proved for any size) says that the
  repeats stay within one region of the top ring.
* **With three contact nodes a cast is no tree** (`hgfr_triples`).
  `peer_manager.cpp:183` calls it a "k-ary distributed spanning tree", which needs
  one list order in all members; `app.cpp:163` orders the lists by hash, which
  differs between regions. A member is then served twice and another not at all.
  With one or two contact nodes the order is the same everywhere (`OrdersAgree`).
* **A copy forms other rings** (`structure_copy`). `eval_client.cpp:351` says of whoever
  makes a ring of level 3 "should be the contact node of the state level ring", as
  `app.cpp:236` does. `create_hgfr_table` does not refill its contacts after the city
  level, as `form_structure` does, so every contact of a city makes such a ring, of the
  nodes of one city number: a state gets as many rings above it as it has cities.
  `CopyNeverForms` proves that this is so for every such structure; up to the ring of a
  city the two agree (`CopyKeeps`).
* **A reset manager stays** (`bootstrap_reset`). `eval_client.cpp:21` says "Reset", and
  resets the pointer to the manager of the last run. The manager's server lives on with
  its threads and holds the port, so the next manager's `bind` fails, which is only
  printed. From the second run on a client sends as its new manager and hears as its
  first.

Also seen, without a claim of the sources against it: if a level has fewer contact
nodes than the one below (`hgfr_odd`), nodes disagree about who they are, a
climbing message strands, and only the node where it strands shows the payload.
Rows of datagrams that arrive between `BaseApp::start` and the header's being
written are missing from the csv file (`LogKeepsRows` says that no others are), and
a damaged row can be its second line; the line counts of `test/eval.sh` and
`test/num_msgs.sh` take it as it is. `stop` never returns, as neither thread is
asked to end.

Of the evaluation: in the rings that `create_hgfr_table` makes of a
country members do not agree who is in them: only those of city 0 in state 0 do
(`CountriesDiffer`). It passes over nodes
that never registered, and if one of those is a contact of its district the rings of
the others fall apart (`ListedRingsAgree`). Without a city level it makes rings without
peers. Shapes whose counts disagree give a node the port of another one (`IdsFit`).
A PULL_LOG names a run, and the help at `eval_server.cpp:333` says "upload its log of
experiment run_id", but the client uploads the log of its current run whatever is
named; one without a manager dereferences a null pointer (`OrdersFollowed` says which
orders cannot meet one). `node_list_` is never cleared; entries of earlier runs stay,
and `PeersFindEachOther` says that they hide nobody of the current run. `expr` divides
by the number of registrations (line 308) without asking whether there are any. In an
evaluation of gossip with fewer than 15 nodes no client ever gets a manager: its handler
thread draws for ever (`Endless` in `SessionProceeds`).

## Proofs

`RingBroadcast_proofs` proves, for every `RingSize`, every `Strides` that satisfies
`StridesAssumption`, every root and every number of losses: `TypeOK`,
`OrderIsDistance`, `AtMostOnce`, `ReachesAll`, `LossCutsSubtree`, and that `Spec`
implements `RingCast`. The assumptions are `RingAssumption` and `StridesAssumption`, which
TLC evaluates in the run `ring`.

The invariants are not inductive: nothing in `AtMostOnce` says why a second packet
to a member cannot be under way. `IInv` adds that every packet ever sent has its
parent in the tree (`HasParent`), is where its order says (`Placed`), is in one
place (`InOnePlace`), that whoever holds the payload has sent all its packets
(`Forwarded`), and that `times` counts packets handled (`Counted`). The argument:

1. A member has one parent (`UniqueParent`): two strides that lead to the same
   order would each be above the other's order, by the skip in the loop. Hence a
   packet is sent once (`OrderIdentifies`).
2. Going on from the place of order p by s ends at the place of order p + s,
   wrapped or not (`WrapAdds`), and different orders are at different places
   (`WrapInjective`). Hence one packet per member (`OnePacketEach`) and at most
   one delivery.
3. Every order but 0 has a parent (`ParentExists`), so in a cast at rest without
   loss the least order left out would have been served by its parent
   (`NobodyForgotten`, with the least-number principle as `LeastNatural`).
4. A place is below a packet of order o sent with stride s if its order leaves
   remainder o when divided by 2s. `StridesAssumption` does not say that strides are
   powers of two, but inside a ring they are in effect: a stride that is no multiple
   of the double of a lower one would leave a gap between the least of its kind and
   the stride before, and the assumption allows none (`StridesDouble`). So an
   order is cut off if the packet there was lost or its parent's order is cut off
   (`CutOffStep`), and at rest it was handled if neither that packet was lost nor its
   parent left out (`HandledStep`): the least order for which `LossCutsSubtree` were
   wrong would have a parent for which it is right.
5. Beginning maps to `Begin` of `RingCast`, handling to `HandOver`, losing to a
   stutter (`StepSimulates`).

`EthPush_proofs` proves for every size of the network, the tables and the lists of
receivers (`OverlayAssumption`), every ttl, set of origins and number of losses
(`PushAssumption`): `TypeOK`, `SendsBounded`, `TtlCountsForwards`,
`NobodyLeftOut`, and that nothing ever expires if the ttl is above the number of
nodes (10000 in the code). `IInv` adds what was sent when (`Counted`), that nothing
is under way that was not begun (`Begun`), that only ttl 0 expires (`UsedUp`), and
`Told`: what a holder sent its successor can still be found, or its receiver
holds it. `Forward` is the one interesting step: its node is a new forwarder,
which pays for the unit of ttl, and its datagrams replace the one handled.

`EthPull_proofs` proves `RequestsAnswerable`, `InvitedAreServed` and
`RequestsBalance` likewise. The
invariant needs `InvitersHave` (whoever has an invitation under way has the data,
which is why `on_receive` must keep it before it calls `broadcast`) and
`ExchangesGoOn`: invitation, request and data hand the exchange to each other until
the data is there or a loss is on record. Both rounds of invitations (`RoundOf`) and
all other steps (`OneReply`) are treated once. `RequestsBalance` adds up how often
datagrams are in a bag. The sum is the cardinality of a set, the numbered copies
(`Copies`), and one more copy is one more element, so no fold has to be unfolded.
`Books` adds that data is nowhere before its origin broadcast it (`OriginsFirst`):
the origin's first round, the only one nobody asked for, is its first.

`RingStructure_proofs` proves `RingsAgree`, `ContactsResideAbove` and
`OneRepresentative` for any number of nodes, regions and levels, any late nodes and
any hash order, under the hypothesis `SameLimits`: every ring above takes as many
contact nodes as there are in a district. The shapes of `test/bootstrap_40.sh` and of
all `test/bootstrap_hgfrr_*.sh` do. Without it the nodes of the code may disagree about
who they are, as in the shape of `hgfr_odd`.
The argument replaces what a node computes by what the digits of its id say: it
resides in ring l if its number is below `Contacts` and its digits from 1 to l - 1
are 0 (`ResidesById`). `DistrictList` and `RingList` say what one level's list is,
`IterationPermutes` that iterating a map permutes a list whatever the buckets (the
order of `MapIteration` is total, so a listing exists), and `NextLevelRight` that a
right list below gives a right one. There are at most six levels, so the recursion is
unrolled (`LevelsUnrolled`) and no induction is needed. `TablesRight` is the result;
`Answers` puts it in `NodeTable`'s terms.
With one or two contact nodes per ring (`FewContacts`) a map of so many entries iterates
in reverse whatever the buckets (`IterationReverses`), so the order of a list is a
matter of its level, and a node's place in its ring of its id (`Place`, `ListPlaces`,
`PlacesDiffer`): all members list a ring in one order (`OrdersAgree`).

`HgfrBroadcast_proofs` goes on from there, in three parts.

1. For any number of contact nodes (`SameLimits`): `TypeOK` and `ClimbEndsAtTop`.
   `ClimbInv` says where messages are addressed (`RightMessage`: a climbing one to
   a node that resides above the ring it climbs to) and that the broadcast is in one
   of three phases (`Phase`): nothing is under way; or one climbing message, one copy
   of it, and nothing cast; or nothing climbs and one node has cast in the top ring.
   `NeverStranded` follows, and with it only `TurnDown` changes the phase.
2. For one contact node per ring (`OneContact`, the shape of `hgfr_single` in any
   size): `ShownAtMostOnce`, `RegionsSentOnce`, `LossCutsRegions`,
   and that `Spec` implements `RingCast` in every ring of every region. Then each
   cast is begun by the member with digit 0, and a member's order is its digit, so
   whatever is ever sent is among `Packets`, a set given by the ids alone, in which
   each node but 0 has exactly one incoming packet (`PacketUnique`, `PacketExists`).
   The casts of all rings together are one tree. `TreeInv` is a flow along its edges
   (`Balanced`): copies under way, copies lost and showings of the receiver add up
   to the showings of the sender; and the counters are functions of `shown`
   (`CountsMatch`). Showing at most once, one caster per region and one path per
   member follow at once. For the refinement, one node at most shows the payload in a
   step (`OneShows`), so a ring's `times` change at one member (`RingStep`).
   `LossCutsRegions` goes like `LossCutsSubtree`, with the tree of all rings for that of
   one (`BelowStep`) and a node of least depth, the sum of its digits, for the least
   order (`Deeper`, `CutBelow`).
3. For one or two contact nodes (`FewContacts`, the shapes of `hgfr_single` and
   `hgfr_pairs` in any size): `SpanningTree` and `RepeatsNearTurn`. There a cast may be
   begun twice, so what is sent is no longer given by the ids. But a node's order in a
   cast is, once the caster is (`OrderFrom`), and a member has one packet of a cast
   (`EdgeUnique`). `CastsInv` says of every ring (`RingRight`): without a caster it is
   quiet, and with a single cast it is a tree in flow (`RingTree`); a ring with more casts
   may be in any state, and no ring gets fewer casts. `FarCasts` adds why
   there is no second cast away from the turn: only the receiver with single digit 0 of
   a packet casts below, and in all rings below at once, so the caster of a ring is
   the node with digits 0 that got its packet in the highest ring it resides in, one
   node for each ring (`OneCaster`, `FarRing`). Showing is casting nowhere else than at
   the turn or hearing a packet (`ShownHeard`), and a node outside that region hears in
   one ring only, of one cast, over one path.

With two contact nodes `RegionsSentOnce` is false (`hgfr_repeats`), and with three
`SpanningTree` is as well (`hgfr_triples`).

`NodeProcess_proofs` proves, for every set of datagrams and every bound on sends
(`ProcessAssumption`), `NoLostWakeup`, `LogKeepsRows`, and that `Spec` implements
`FifoChannel`. None of the three is inductive. `IInv` adds who holds the mutex at
which place (`Locked`), where a datagram is carried (`Carried`), and that what the
handler thread found out under the mutex is still so (`Checked`): while it is at
"wait" the queue is empty, for a push would have needed the mutex. `InOrder` is the
refinement's link: what was pushed is what was taken, the datagram between queue and
`receive`, and the queue, in this order, so that `taken` is always a prefix of
`entered` and the next to be taken is the next entered. `FileFollows` covers the
moment between truncation and header, when the file is a tail of all rows;
`AppendToTail` carries that over an append, and `CloseLog` turns it into the two cases
of `LogKeepsRows`.

`EvalBootstrap_proofs` first proves `RoundTrip` of `NodeIds` (`RoundTrips`) for every shape, which `IdsFit` has
as its first half: no two numbers share an id string, and the number of every id comes
back if and only if the two conversions count alike wherever a digit can differ from
0. If: `DigitStep` splits a remainder by W times w into a digit and a remainder by W,
so a number is the sum of its digits by weight (`ValueOfDigits`), and the digits of
levels where the counts differ are 0. Only if: the weight of such a level is the
number of a node whose other digits are 0 (`UnitAt`, from `WeightsDivide`), and what
comes back is the weight in the other count. The recursive functions have a domain of
six, so they are unrolled (`WeightsStep`, `SumUnrolled`) and no induction is needed.

It proves `TableHasSuccessor`, the second half, as well (`SuccessorsFound`; both
together are `ShapesFit`, which is what `IdsFit` of `EvalTables` says of the shape
entered). There ids come back, so the loop of `create_kad_table` can be
read as one over numbers (`Filling`), and `FilledInOrder` follows it: what was looked
at and drawn is in the table, and from the successor on it is in front. If the
successor is the next number it gets there by being put in front, after which all go
to the back; the last node's successor is node 0, which gets there by being found
first. This takes induction over the ids. The library's rules of induction have an
operator as parameter, which the provers cannot instantiate; `Counted` states induction
over a set of numbers instead, and follows from the strict inclusion among finite sets
being well-founded. By it the function exists (`FillsExist`).

Of `EvalBootstrap` the module proves `OneManager`, `OrdersFollowed` and `PeersFindEachOther`
for any number of clients, runs, pages, crashes and disturbances
(`BootstrapAssumption`). For `OneManager`, `IInv` adds that a client without a
configuration has no manager (`ConfiguredFirst`), without which the first CONFIG,
which resets nothing, could leave one. The two others rest on `RInv`, which adds types
and that what clients hold and are sent was entered and registered (`Right`).

`OrdersInv` looks along the datagrams on their way to a client: in front of every order
lies what makes it answerable (`Ready`), either a manager and no CONFIG, or the last
page of a node list with a configuration before it and no CONFIG after it. Handling
the first datagram moves all positions up by one (`FrontHandled`), sending appends;
a restarted client is in `hasty` if orders were on the way. A client that hangs in its
draw handles no order, so the invariant asks nothing of it until it is started again.

`PeersInv` says why lists are complete although registration and paging overlap:
numbers are given at "config" and a run's pages are sent after that, so between a
configuration and the last page after it every number given in its run is read
(`PagesFollow`), or is listed already once the configuration was handled
(`PagesComplete`); a manager is made at the last page (`ManagerLists`). That a number
not yet paged cannot come in later is the other half: `Given` counts what is on its
way, and a new number comes only with a new "config", which names a new run.
Entries of the other runs hide nobody since different numbers have different ids in a
shape (`RoundTrips` again).

`LogsWhole` compares three sequences of rows: what was filed, what is on its way
in pages, and what was pulled. `LogsInv` adds types and `LogsOwned`: the pages of a
run and node id, and the file they go to, belong to one client, the one with that
number, so what others send or receive does not touch them (`OneOwner`). Then a pull
lengthens both sides by the same rows, since its pages put together are the log
(`PagesAreLog`), and an arrival moves the first page from the way to the file
(`FirstPart`). `InFlight` joins the pages with the community modules' `FlattenSeq`,
a recursive function over a sequence, so this takes induction, again by `Counted`: the
function exists (`ChainExists`), and what it returns is the last of the sequence's
prefixes (`FlattenPrefixes`), from which `FlattenConcat`, `FlattenSingle` follow.

`EvalTables_proofs` compares the tables of `create_hgfr_table` with those of
`form_structure` for every size, every number of levels from the city's up and every
hash order, under `SameLimits` again. It proves `CopyKeeps` (`KeptRings`);
that `CopyForms` is false wherever there are states of two cities (`CopyNeverForms`: the
node with digit 1 for its city and 0 below has a level 3 ring only in the copy); and
`CountriesDiffer` about country rings, which the structure of the run does not have.
With a whole list nothing is passed over (`AllKept`), and up to the districts' ring
the two keep the same state (`Alike`, from `FirstAlike` and `NextAlike`), so that the
contacts and residents there are those that `RingStructure_proofs` found. The ring of
a city is the same as well, but the list of contacts stays. Then the ring of level 3
transplants a city's contacts (`CitysRing`), and what it hands on is
its own first peers together with the ones the city level left behind (`HandedOn`;
`MembersKept` says which of the new ones are not among the old): the contacts of city
0 in the own state and those of the own city number in state 0. `CountryOf` makes of them
the ring of a country (`CountryRing`), of which the contacts of city 0 in state 0, who
are in all of them, know only themselves. Levels only add rings (`LevelsExtend`), so
what holds of a ring when it is made holds at the end. `AllKept` and `MembersKept` are
about `Among`, a recursive function over a list, and go by induction over a
set of numbers (`Counting`).

`ListedAgreement` proves `ListedRingsAgree`, under `SameLimits`, equal counts in districts
and cities, and `FewMissing`: at least two contacts to a district and two districts to a
city, and lists in which at most one contact is missing, besides any number of other
nodes. With a single contact to a district, the others would all do without it and agree;
the rest of `FewMissing` lets the proof find the disagreement in a city's ring, where
districts that all miss the contact of the same number would agree too. As long as all contacts are
listed, the list and a whole one keep the construction in step (`InStep`: the same contacts, nothing
but contacts in them, the same rings above the district's), since the rings above are made
of contacts alone (`ContactsListed`), so that their members are those of `Drifted`, and
the district's are those that are listed (`RingsListed`; `KeptRings` has this from
`TablesInStep`, too, and needs no bound on who is missing besides contacts). In the other case
`FirstRings` says whom the city ring of any contact joins, in any list at all, and
`AbsenceSpreads` names three nodes: another contact of the district that misses one, its
counterpart in another district of the city, and the counterpart of the missing one
there, whom the second has in its ring and the first has not.

Only model-checked: liveness (`AllReached`, `EveryoneServed`, `BroadcastEnds`,
`GossipEnds`, `PullEnds`, `ArrivalsHandled` and `SessionProceeds`).

## Not modelled

Predecessor, successor and pings (written, never used); message types 3 and 4,
`contact_node_election`, `broadcast_down` and `multicast_to_contact_nodes` (never
called); `Discovery` (never created); the TCP classes of the transport (compiled
under `NDEBUG` only, and then used by nobody); parsing and formatting of datagrams,
log output and the simulated delay; the scripts; the commands `count`, `check` and
`help` of the evaluation server, which change nothing. An evaluation's broadcast is
reduced to the rows it leaves; what it does is the matter of the broadcast modules.
Shapes with an absent district or city level are left out of `EvalTables`.
Levels that are present but join no region are left out too: `test/bootstrap.sh` and
`test/bootstrap_180.sh` have one node in a country and two contact nodes in a state, a
quotient of 0, for which `form_structure` makes a state ring without peers, while
`Node` of `RingStructure` has no element.
`MessageTable` itself is left out: its key is a timestamp that is never set
(`message.cpp:106`), so it holds one record, and the program asks only for its
size, for message ids that nothing compares. The unlocked accesses of main and
handler thread to it and to `data_map` are data races inside the standard library's
containers. Both protocols log every datagram they send or get; the log influences
neither, so it is modelled in `NodeProcess` only.

## Plan

1. `RingCast`, `RingBroadcast` and its proofs; `RingStructure`; `HgfrBroadcast`. Done.
2. `EthOverlay`, `EthPush`, `EthPull`, `EthGossip` and their proofs. Done.
3. `FifoChannel`, `NodeProcess`: threads, queue, csv file, and their proofs. Done.
4. `NodeIds` and its proofs, `EvalTables`, `EvalBootstrap` and its first proof. Done.
5. `RingStructure_proofs`, `HgfrBroadcast_proofs`, the proofs about `EvalBootstrap`,
   `LossCutsSubtree`, `RequestsBalance`. Done.
6. The other half of the proofs about `NodeIds` and `EvalBootstrap`, `OrdersAgree`,
   `RepeatsNearTurn`, `EvalTables_proofs`. Done.
7. Open, in the model: rings without peers, on top of a structure.
