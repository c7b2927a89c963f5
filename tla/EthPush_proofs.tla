---------------------------- MODULE EthPush_proofs --------------------------
(***************************************************************************)
(* Proofs about EthPush, for every size of network, table and receiver     *)
(* list, every time to live and any number of origins and losses.          *)
(***************************************************************************)
EXTENDS EthPush, FiniteSetTheorems, TLAPS

-----------------------------------------------------------------------------
(***************************************************************************)
(* Routing tables and receivers.                                           *)
(***************************************************************************)
\* The nodes are as many as form_structure counts.
LEMMA NodesFinite == IsFiniteSet(Node) /\ Cardinality(Node) = num_nodes_total
<1>1. num_nodes_total \in Nat \ {0}
  BY OverlayAssumption
<1>2. QED BY <1>1, FS_Interval DEF Node

\* The successor of the last node is node 0.
LEMMA SuccessorType == \A n \in Node : Successor(n) \in Node
  BY OverlayAssumption DEF Node, Successor

\* The first entry of a routing table is the successor, all are nodes.
LEMMA TableType ==
    ASSUME FormStructure, NEW n \in Node
    PROVE  /\ table[n][0] = Successor(n)
           /\ \A i \in 0 .. TABLE_SIZE : table[n][i] \in Node
  BY OverlayAssumption DEF FormStructure, RoutingTables

\* broadcast sends to nodes only: it draws no index beyond the table.
LEMMA ReceiversAreNodes ==
    ASSUME FormStructure, NEW n \in Node, NEW R \in Receivers(n)
    PROVE  R \subseteq Node
<1>1. PICK first \in {{}, {table[n][0]}}, I \in SUBSET (1 .. TABLE_SIZE - 1) :
        R = first \cup {table[n][i] : i \in I}
  BY DEF Receivers
<1>2. I \subseteq 0 .. TABLE_SIZE /\ 0 \in 0 .. TABLE_SIZE
  BY OverlayAssumption
<1>3. QED BY <1>1, <1>2, TableType

-----------------------------------------------------------------------------
(***************************************************************************)
(* The inductive invariant.                                                *)
(***************************************************************************)

\* Every datagram that was sent and not ignored or forwarded.
Datagrams == net \cup lost \cup expired

\* Nobody sends what was not begun.
Begun == \A m \in Datagrams : m.bid \in begun

\* A node has sent a broadcast once for each list it is in.
Counted ==
    \A n \in Node, b \in Origins :
        sends[n][b] = (IF b \in seen[n] THEN 1 ELSE 0)
                        + (IF n = b /\ b \in begun THEN 1 ELSE 0)

\* Only a time to live that is used up is a reason to drop a datagram.
UsedUp == \A m \in expired : m.ttl = 0

\* p's datagram to its successor is where it can still be found.
Found(p, b) == \E m \in Datagrams : m.bid = b /\ m.from = p /\ m.to = Successor(p)

\* What a holder sent its successor is known there or can still be found.
Told ==
    \A p \in Node, b \in begun :
        Holds(p, b) => \/ Holds(Successor(p), b)
                       \/ <<p, b>> \in skipped
                       \/ Found(p, b)

IInv == TypeOK /\ Begun /\ Counted /\ UsedUp /\ TtlCountsForwards /\ Told

-----------------------------------------------------------------------------
(***************************************************************************)
(* Facts about counting forwarders and about sending.                      *)
(***************************************************************************)
\* There are no more forwarders than nodes.
LEMMA ForwardersFinite ==
    \A b : /\ IsFiniteSet(Forwarders(b))
           /\ Cardinality(Forwarders(b)) \in Nat
           /\ Cardinality(Forwarders(b)) <= num_nodes_total
<1> TAKE b
<1>1. Forwarders(b) \in SUBSET Node
  BY DEF Forwarders
<1>2. IsFiniteSet(Forwarders(b)) /\ Cardinality(Forwarders(b)) <= num_nodes_total
  BY <1>1, NodesFinite, FS_Subset
<1>3. QED BY <1>2, FS_CardinalityType

\* What the steps that send have in common, as far as the invariant sees it.
SendEffects(n, b, ttl, done) ==
    /\ \A m \in net' : m \in net \/ (m \in Message /\ m.bid = b /\ m.ttl = ttl /\ m.from = n)
    /\ net \ done \subseteq net'
    /\ skipped \subseteq skipped' /\ skipped' \subseteq skipped \cup {<<n, b>>}
    /\ \/ <<n, b>> \in skipped'
       \/ \E m \in net' : m.bid = b /\ m.from = n /\ m.to = Successor(n)
    /\ sends' = [sends EXCEPT ![n][b] = @ + 1]

\* Sending leaves everything in the network but what was handled, puts only
\* datagrams of the given kind into it, and tells the successor or notes that
\* it does not.
LEMMA SendEffect ==
    ASSUME TypeOK, NEW n \in Node, NEW b \in Origins, NEW ttl \in 0 .. TTL,
           NEW done, Send(n, b, ttl, done)
    PROVE  SendEffects(n, b, ttl, done)
<1>1. PICK R \in Receivers(n) :
        /\ net' = (net \ done) \cup
                    {[bid |-> b, ttl |-> ttl, from |-> n, to |-> r] : r \in R}
        /\ skipped' = IF table[n][0] \in R THEN skipped ELSE skipped \cup {<<n, b>>}
  BY DEF Send
<1>2. FormStructure
  BY DEF TypeOK
<1>3. R \subseteq Node
  BY <1>2, ReceiversAreNodes
<1>4. table[n][0] = Successor(n)
  BY <1>2, TableType
<1>5. \A r \in R : [bid |-> b, ttl |-> ttl, from |-> n, to |-> r] \in Message
  BY <1>3 DEF Message
<1>6. \/ <<n, b>> \in skipped'
      \/ \E m \in net' : m.bid = b /\ m.from = n /\ m.to = Successor(n)
  <2>1. CASE table[n][0] \in R
    <3>1. [bid |-> b, ttl |-> ttl, from |-> n, to |-> Successor(n)] \in net'
      BY <1>1, <1>4, <2>1
    <3>2. QED BY <3>1
  <2>2. CASE table[n][0] \notin R
    BY <1>1, <2>2
  <2>3. QED BY <2>1, <2>2
<1>7. sends' = [sends EXCEPT ![n][b] = @ + 1]
  BY DEF Send
<1>8. \A m \in net' : m \in net \/ (m \in Message /\ m.bid = b /\ m.ttl = ttl /\ m.from = n)
  BY <1>1, <1>5
<1>9. net \ done \subseteq net' /\ skipped \subseteq skipped'
        /\ skipped' \subseteq skipped \cup {<<n, b>>}
  BY <1>1
<1>10. QED BY <1>6, <1>7, <1>8, <1>9 DEF SendEffects

-----------------------------------------------------------------------------
(***************************************************************************)
(* The invariant is inductive.                                             *)
(***************************************************************************)
\* Before the first broadcast nothing is under way.
LEMMA InitEstablishes == Init => IInv
<1> SUFFICES ASSUME Init PROVE IInv
  OBVIOUS
<1>1. TypeOK
  BY DEF Init, TypeOK
<1>2. Begun /\ UsedUp /\ TtlCountsForwards
  BY DEF Init, Begun, UsedUp, Datagrams, TtlCountsForwards
<1>3. Counted
  BY DEF Init, Counted
<1>4. Told
  BY DEF Init, Told
<1>5. QED BY <1>1, <1>2, <1>3, <1>4 DEF IInv

\* Seen lists that only grow lose no forwarder.
LEMMA ForwardersStay ==
    ASSUME \A n \in Node : seen[n] \subseteq seen[n]', NEW b
    PROVE  Cardinality(Forwarders(b)) <= Cardinality(Forwarders(b)')
<1>1. Forwarders(b) \in SUBSET (Forwarders(b)') /\ Forwarders(b)' \in SUBSET Node
  BY DEF Forwarders
<1>2. IsFiniteSet(Forwarders(b)')
  BY <1>1, NodesFinite, FS_Subset
<1>3. QED BY <1>1, <1>2, FS_Subset

\* A node begins: it sends once, with the whole time to live.
LEMMA BroadcastPreserves ==
    ASSUME IInv, NEW n \in Origins, Broadcast(n)
    PROVE  IInv'
<1>1. /\ TypeOK /\ n \in Node /\ TTL \in 0 .. TTL
      /\ n \notin begun /\ begun' = begun \cup {n} /\ Send(n, n, TTL, {})
      /\ UNCHANGED <<table, seen, lost, expired>>
  BY PushAssumption, BoundsAssumption DEF IInv, Broadcast
<1> DEFINE New(m) == m \in Message /\ m.bid = n /\ m.ttl = TTL /\ m.from = n
<1>2. /\ \A m \in net' : m \in net \/ New(m)
      /\ net \subseteq net'
      /\ skipped \subseteq skipped' /\ skipped' \subseteq skipped \cup {<<n, n>>}
      /\ \/ <<n, n>> \in skipped'
         \/ \E m \in net' : m.bid = n /\ m.from = n /\ m.to = Successor(n)
      /\ sends' = [sends EXCEPT ![n][n] = @ + 1]
  <2>1. SendEffects(n, n, TTL, {})
    BY <1>1, SendEffect
  <2>2. QED BY <2>1 DEF SendEffects
<1>3. \A m \in Datagrams' : m \in Datagrams \/ New(m)
  BY <1>1, <1>2 DEF Datagrams
<1>4. Datagrams \subseteq Datagrams'
  BY <1>1, <1>2 DEF Datagrams
<1>5. TypeOK'
  <2>1. FormStructure'
    BY <1>1 DEF TypeOK, FormStructure
  <2>2. sends' \in [Node -> [Origins -> Nat]]
    BY <1>1, <1>2 DEF TypeOK
  <2>3. skipped' \subseteq Node \X begun'
    BY <1>1, <1>2 DEF TypeOK
  <2>4. net' \cup lost' \cup expired' \subseteq Message
    BY <1>1, <1>2 DEF TypeOK
  <2>5. begun' \subseteq Origins /\ seen' \in [Node -> SUBSET begun']
    BY <1>1 DEF TypeOK
  <2>6. QED BY <2>1, <2>2, <2>3, <2>4, <2>5 DEF TypeOK
<1>6. Begun'
  BY <1>1, <1>3 DEF IInv, Begun
<1>7. Counted'
  <2>1. SUFFICES ASSUME NEW x \in Node, NEW b \in Origins
                 PROVE  sends'[x][b] = (IF b \in seen[x] THEN 1 ELSE 0)
                                        + (IF x = b /\ b \in begun' THEN 1 ELSE 0)
    BY <1>1 DEF Counted
  <2>2. sends[x][b] = (IF b \in seen[x] THEN 1 ELSE 0)
                        + (IF x = b /\ b \in begun THEN 1 ELSE 0)
    BY DEF IInv, Counted
  <2>3. sends[x][b] \in Nat /\ sends'[x][b] = IF x = n /\ b = n THEN sends[x][b] + 1 ELSE sends[x][b]
    BY <1>1, <1>2 DEF TypeOK
  <2>4. QED BY <1>1, <2>2, <2>3
<1>8. UsedUp'
  BY <1>1 DEF IInv, UsedUp
<1>9. TtlCountsForwards'
  <2>1. SUFFICES ASSUME NEW m \in Datagrams'
                 PROVE  TTL - m.ttl <= Cardinality(Forwarders(m.bid))
    BY <1>1 DEF TtlCountsForwards, Datagrams, Forwarders
  <2>2. CASE m \in Datagrams
    BY <2>2 DEF IInv, TtlCountsForwards, Datagrams
  <2>3. CASE New(m)
    BY <2>3, PushAssumption, BoundsAssumption, ForwardersFinite
  <2>4. QED BY <1>3, <2>2, <2>3
<1>10. Told'
  <2>1. SUFFICES ASSUME NEW p \in Node, NEW b \in begun', Holds(p, b)'
                 PROVE  Holds(Successor(p), b)' \/ <<p, b>> \in skipped' \/ Found(p, b)'
    BY DEF Told, Successor
  <2>2. CASE Holds(p, b) /\ b \in begun
    <3>1. Holds(Successor(p), b) \/ <<p, b>> \in skipped \/ Found(p, b)
      BY <2>2 DEF IInv, Told
    <3>2. Holds(Successor(p), b) => Holds(Successor(p), b)'
      BY <1>1, SuccessorType DEF Holds
    <3>3. Found(p, b) => Found(p, b)'
      BY <1>4 DEF Found
    <3>4. QED BY <1>2, <3>1, <3>2, <3>3
  <2>3. CASE ~ (Holds(p, b) /\ b \in begun)
    <3>1. p = n /\ b = n
      BY <1>1, <2>1, <2>3 DEF Holds, TypeOK
    <3>2. QED BY <1>2, <3>1 DEF Found, Datagrams
  <2>4. QED BY <2>2, <2>3
<1>11. QED BY <1>5, <1>6, <1>7, <1>8, <1>9, <1>10 DEF IInv

\* A node forwards: it is a new forwarder, which pays for the lower ttl.
LEMMA ForwardPreserves ==
    ASSUME IInv, NEW m \in net, Forward(m)
    PROVE  IInv'
<1> DEFINE n == m.to
           b == m.bid
<1>1. /\ TypeOK /\ m \in Message /\ n \in Node /\ b \in Origins
      /\ b \in begun /\ m.ttl - 1 \in 0 .. TTL /\ m.ttl \in 0 .. TTL
  <2>1. TypeOK /\ m \in Message /\ m.ttl # 0 /\ m \in Datagrams
    BY DEF IInv, TypeOK, Forward, Dead, Datagrams
  <2>2. m.ttl \in 0 .. TTL /\ m.bid \in Origins /\ m.to \in Node
    BY <2>1 DEF Message
  <2>3. m.ttl - 1 \in 0 .. TTL
    BY <2>1, <2>2, PushAssumption, BoundsAssumption
  <2>4. QED BY <2>1, <2>2, <2>3 DEF IInv, Begun
<1>2. /\ b \notin seen[n]
      /\ seen' = [seen EXCEPT ![n] = @ \cup {b}]
      /\ Send(n, b, m.ttl - 1, {m})
      /\ UNCHANGED <<table, begun, lost, expired>>
  BY DEF Forward, Saw
<1> DEFINE New(d) == d \in Message /\ d.bid = b /\ d.ttl = m.ttl - 1 /\ d.from = n
<1>3. /\ \A d \in net' : d \in net \/ New(d)
      /\ net \ {m} \subseteq net'
      /\ skipped \subseteq skipped' /\ skipped' \subseteq skipped \cup {<<n, b>>}
      /\ \/ <<n, b>> \in skipped'
         \/ \E d \in net' : d.bid = b /\ d.from = n /\ d.to = Successor(n)
      /\ sends' = [sends EXCEPT ![n][b] = @ + 1]
  <2>1. TypeOK /\ n \in Node /\ b \in Origins /\ m.ttl - 1 \in 0 .. TTL
    BY <1>1, <1>2
  <2>2. SendEffects(n, b, m.ttl - 1, {m})
    BY <1>2, <2>1, SendEffect
  <2>3. QED BY <2>2 DEF SendEffects
<1> HIDE DEF n, b
<1>4. \A d \in Datagrams' : d \in Datagrams \/ New(d)
  BY <1>2, <1>3 DEF Datagrams
<1>5. \A d \in Datagrams : d \in Datagrams' \/ d = m
  BY <1>2, <1>3 DEF Datagrams
<1>6. /\ \A x \in Node : seen[x] \subseteq seen'[x]
      /\ \A x \in Node, c \in Origins :
            c \in seen'[x] <=> c \in seen[x] \/ (x = n /\ c = b)
  BY <1>1, <1>2 DEF TypeOK
<1>7. TypeOK'
  <2>1. FormStructure'
    BY <1>1, <1>2 DEF TypeOK, FormStructure
  <2>2. sends' \in [Node -> [Origins -> Nat]]
    BY <1>1, <1>3 DEF TypeOK
  <2>3. skipped' \subseteq Node \X begun'
    BY <1>1, <1>2, <1>3 DEF TypeOK
  <2>4. net' \cup lost' \cup expired' \subseteq Message
    BY <1>1, <1>2, <1>3 DEF TypeOK
  <2>5. begun' \subseteq Origins /\ seen' \in [Node -> SUBSET begun']
    BY <1>1, <1>2 DEF TypeOK
  <2>6. QED BY <2>1, <2>2, <2>3, <2>4, <2>5 DEF TypeOK
<1>8. Begun'
  BY <1>1, <1>2, <1>4 DEF IInv, Begun
<1>9. Counted'
  <2>1. SUFFICES ASSUME NEW x \in Node, NEW c \in Origins
                 PROVE  sends'[x][c] = (IF c \in seen'[x] THEN 1 ELSE 0)
                                        + (IF x = c /\ c \in begun THEN 1 ELSE 0)
    BY <1>2 DEF Counted
  <2>2. sends[x][c] = (IF c \in seen[x] THEN 1 ELSE 0)
                        + (IF x = c /\ c \in begun THEN 1 ELSE 0)
    BY DEF IInv, Counted
  <2>3. /\ sends[x][c] \in Nat
        /\ sends'[x][c] = IF x = n /\ c = b THEN sends[x][c] + 1 ELSE sends[x][c]
    BY <1>1, <1>3 DEF TypeOK
  <2>4. QED BY <1>2, <1>6, <2>2, <2>3
<1>10. UsedUp'
  BY <1>2 DEF IInv, UsedUp
<1>11. TtlCountsForwards'
  <2>1. SUFFICES ASSUME NEW d \in Datagrams'
                 PROVE  TTL - d.ttl <= Cardinality(Forwarders(d.bid)')
    BY DEF TtlCountsForwards, Datagrams, Forwarders
  <2>2. Cardinality(Forwarders(b)') = Cardinality(Forwarders(b)) + 1
    <3>1. Forwarders(b)' = Forwarders(b) \cup {n} /\ n \notin Forwarders(b)
      BY <1>1, <1>2, <1>6 DEF Forwarders
    <3>2. QED BY <3>1, ForwardersFinite, FS_AddElement
  <2>3. CASE d \in Datagrams
    <3>1. TTL - d.ttl <= Cardinality(Forwarders(d.bid)) /\ d \in Message
      BY <2>3 DEF IInv, TtlCountsForwards, Datagrams, TypeOK
    <3>2. Cardinality(Forwarders(d.bid)) <= Cardinality(Forwarders(d.bid)')
      BY <1>6, ForwardersStay
    <3>3. Cardinality(Forwarders(d.bid)') \in Nat
      <4>1. Forwarders(d.bid)' \in SUBSET Node
        BY DEF Forwarders
      <4>2. QED BY <4>1, NodesFinite, FS_Subset, FS_CardinalityType
    <3>4. d.ttl \in Int /\ TTL \in Int /\ Cardinality(Forwarders(d.bid)) \in Nat
      BY <3>1, PushAssumption, BoundsAssumption, ForwardersFinite DEF Message
    <3>5. QED BY <3>1, <3>2, <3>3, <3>4
  <2>4. CASE New(d)
    <3>1. m \in Datagrams
      BY DEF Datagrams
    <3>2. TTL - m.ttl <= Cardinality(Forwarders(b))
      BY <3>1 DEF IInv, TtlCountsForwards, Datagrams, b
    <3>3. d.bid = b /\ d.ttl = m.ttl - 1
      BY <2>4
    <3>4. QED BY <1>1, <2>2, <3>2, <3>3, PushAssumption, BoundsAssumption, ForwardersFinite
  <2>5. QED BY <1>4, <2>3, <2>4
<1>12. Told'
  <2>1. SUFFICES ASSUME NEW p \in Node, NEW c \in begun, Holds(p, c)'
                 PROVE  Holds(Successor(p), c)' \/ <<p, c>> \in skipped' \/ Found(p, c)'
    BY <1>2 DEF Told, Successor
  <2>2. c \in Origins /\ Successor(p) \in Node
    BY <1>1, SuccessorType DEF TypeOK
  <2>3. CASE p = n /\ c = b
    BY <1>3, <2>3 DEF Found, Datagrams
  <2>4. CASE ~ (p = n /\ c = b)
    <3>1. Holds(p, c)
      BY <1>2, <1>6, <2>1, <2>2, <2>4 DEF Holds
    <3>2. Holds(Successor(p), c) \/ <<p, c>> \in skipped \/ Found(p, c)
      BY <3>1 DEF IInv, Told
    <3>3. Holds(Successor(p), c) => Holds(Successor(p), c)'
      BY <1>2, <1>6, <2>2 DEF Holds
    <3>4. ASSUME NEW d \in Datagrams, d.bid = c, d.from = p, d.to = Successor(p)
          PROVE  Holds(Successor(p), c)' \/ Found(p, c)'
      <4>1. CASE d \in Datagrams'
        BY <3>4, <4>1 DEF Found
      <4>2. CASE d = m
        <5>1. Successor(p) = n /\ c = b
          BY <3>4, <4>2 DEF n, b
        <5>2. QED BY <1>6, <2>2, <5>1 DEF Holds
      <4>3. QED BY <1>5, <4>1, <4>2
    <3>5. Found(p, c) => Holds(Successor(p), c)' \/ Found(p, c)'
      BY <3>4 DEF Found
    <3>6. QED BY <1>3, <3>2, <3>3, <3>5
  <2>5. QED BY <2>3, <2>4
<1>13. QED BY <1>7, <1>8, <1>9, <1>10, <1>11, <1>12 DEF IInv

\* What becomes of a datagram that is taken out of the network and not sent on:
\* it can still be found, or its receiver holds the broadcast.
TakenOut(m) ==
    /\ net' = net \ {m}
    /\ lost \subseteq lost' /\ lost' \subseteq lost \cup {m}
    /\ expired \subseteq expired' /\ expired' \subseteq expired \cup {m}
    /\ m \in expired' \ expired => m.ttl = 0
    /\ m \in lost' \cup expired' \/ m.bid \in seen[m.to]
    /\ UNCHANGED <<table, begun, seen, sends, skipped>>

\* Dropping, ignoring and losing a datagram keep the invariant.
LEMMA TakingOutPreserves ==
    ASSUME IInv, NEW m \in net, TakenOut(m)
    PROVE  IInv'
<1>1. /\ UNCHANGED <<table, begun, seen, sends, skipped>>
      /\ Datagrams' \subseteq Datagrams
      /\ \A d \in Datagrams : d \in Datagrams' \/ (d = m /\ m.bid \in seen[m.to])
  BY DEF TakenOut, Datagrams
<1>2. TypeOK'
  BY <1>1 DEF IInv, TypeOK, FormStructure, Datagrams
<1>3. Begun'
  BY <1>1 DEF IInv, Begun
<1>4. Counted'
  BY <1>1 DEF IInv, Counted
<1>5. UsedUp'
  BY DEF IInv, UsedUp, TakenOut
<1>6. TtlCountsForwards'
  BY <1>1 DEF IInv, TtlCountsForwards, Forwarders, Datagrams
<1>7. Told'
  <2>1. SUFFICES ASSUME NEW p \in Node, NEW b \in begun, Holds(p, b)
                 PROVE  Holds(Successor(p), b) \/ <<p, b>> \in skipped \/ Found(p, b)'
    BY <1>1 DEF Told, Holds, Successor
  <2>2. Holds(Successor(p), b) \/ <<p, b>> \in skipped \/ Found(p, b)
    BY <2>1 DEF IInv, Told
  <2>3. ASSUME NEW d \in Datagrams, d.bid = b, d.from = p, d.to = Successor(p)
        PROVE  Holds(Successor(p), b) \/ Found(p, b)'
    BY <1>1, <2>3 DEF Found, Holds
  <2>4. QED BY <2>2, <2>3 DEF Found
<1>8. QED BY <1>2, <1>3, <1>4, <1>5, <1>6, <1>7 DEF IInv

\* So does every step.
LEMMA StepPreserves == IInv /\ [Next]_vars => IInv'
<1> SUFFICES ASSUME IInv, [Next]_vars PROVE IInv'
  OBVIOUS
<1>1. ASSUME NEW n \in Origins, Broadcast(n) PROVE IInv'
  BY <1>1, BroadcastPreserves
<1>2. ASSUME NEW m \in net, Expire(m) PROVE IInv'
  BY <1>2, TakingOutPreserves DEF Expire, Dead, TakenOut
<1>3. ASSUME NEW m \in net, Ignore(m) PROVE IInv'
  BY <1>3, TakingOutPreserves DEF Ignore, Saw, TakenOut
<1>4. ASSUME NEW m \in net, Forward(m) PROVE IInv'
  BY <1>4, ForwardPreserves
<1>5. ASSUME NEW m \in net, Lose(m) PROVE IInv'
  BY <1>5, TakingOutPreserves DEF Lose, TakenOut
<1>6. CASE UNCHANGED vars
  <2>1. TypeOK'
    BY <1>6 DEF vars, IInv, TypeOK, FormStructure
  <2>2. Begun' /\ UsedUp' /\ Counted' /\ TtlCountsForwards'
    BY <1>6 DEF vars, IInv, Begun, UsedUp, Counted, TtlCountsForwards, Forwarders, Datagrams
  <2>3. Told'
    BY <1>6 DEF vars, IInv, Told, Holds, Found, Datagrams, Successor
  <2>4. QED BY <2>1, <2>2, <2>3 DEF IInv
<1>7. QED BY <1>1, <1>2, <1>3, <1>4, <1>5, <1>6 DEF Next, Receive

-----------------------------------------------------------------------------
\* Every step of push gossip keeps IInv.
THEOREM Invariance == Spec => []IInv
  BY InitEstablishes, StepPreserves, PTL DEF Spec

\* Every datagram has a time to live that is not negative, and seen lists hold
\* only broadcasts that were begun.
THEOREM TypeCorrect == Spec => []TypeOK
<1>1. IInv => TypeOK
  BY DEF IInv
<1>2. QED BY <1>1, Invariance, PTL

\* broadcasted_msgs_all_nodes does its work: a node sends a broadcast to its
\* receivers once, its origin twice at the most.
THEOREM SentOnce == Spec => []SendsBounded
<1>1. IInv => SendsBounded
  BY DEF IInv, Counted, SendsBounded
<1>2. QED BY <1>1, Invariance, PTL

\* Each unit of a time to live was used up by another node.
THEOREM TtlIsUsedUpByNodes == Spec => []TtlCountsForwards
<1>1. IInv => TtlCountsForwards
  BY DEF IInv
<1>2. QED BY <1>1, Invariance, PTL

\* Without an expired or lost datagram only the choice of receivers stands
\* between a holder and its successor.
THEOREM SuccessorsServed == Spec => []NobodyLeftOut
<1>1. IInv => NobodyLeftOut
  BY DEF IInv, Told, Found, Datagrams, NobodyLeftOut
<1>2. QED BY <1>1, Invariance, PTL

\* receive never drops a datagram for its ttl if TTL_ETH, 10000 in the code,
\* is above the number of nodes.
THEOREM NeverExpires ==
    ASSUME TTL > num_nodes_total
    PROVE  Spec => [](expired = {})
<1>1. IInv => expired = {}
  <2>1. SUFFICES ASSUME IInv, NEW m \in expired PROVE FALSE
    OBVIOUS
  <2>2. m.ttl = 0 /\ TTL - m.ttl <= Cardinality(Forwarders(m.bid))
    BY <2>1 DEF IInv, UsedUp, TtlCountsForwards
  <2>3. QED BY <2>2, ForwardersFinite, OverlayAssumption, PushAssumption, BoundsAssumption
<1>2. QED BY <1>1, Invariance, PTL
=============================================================================
