------------------------ MODULE HgfrBroadcast_proofs ------------------------
(***************************************************************************)
(* Proofs about HgfrBroadcast, over the tables RingStructure_proofs knows  *)
(* of: first for any number of contact nodes, the same in every ring; then *)
(* for one contact node per ring; at last for one or two.                  *)
(***************************************************************************)
EXTENDS HgfrBroadcast, RingStructure_proofs

-----------------------------------------------------------------------------
(***************************************************************************)
(* The inductive invariant for any number of contact nodes.                *)
(***************************************************************************)
Pending == BagToSet(net) \cup calls

\* A climbing message is addressed to a contact node of the ring it climbs to,
\* which resides above it, if anything is above; a packet of a cast to a member
\* of the ring in which its sender resides.
RightMessage(m) ==
    /\ m \in Message /\ m.from \in up
    /\ IF Climbing(m)
       THEN /\ m.order = -1 /\ ClimbsTo(m) \in 0 .. Top
            /\ ResidesById(m.to, ClimbsTo(m) + 1)
       ELSE /\ ResidesById(m.from, m.level)
            /\ m.order \in 1 .. Width(m.level) * PerRegion(m.level) - 1
            /\ m.to \in RingById(m.from, m.level)

RightMessages ==
    /\ \A m \in Pending \cup BagToSet(lost) : RightMessage(m)
    /\ \A m \in calls : m.to \in up

\* m is the only message, and there is one copy of it.
Alone(m) ==
    /\ Pending = {m}
    /\ m \in BagToSet(net) => net[m] = 1 /\ m \notin calls

NothingCast == \A n \in Node, l \in 0 .. Top : casts[n][l] = 0

NobodyClimbs(M) == \A m \in M : ~ Climbing(m)

\* Before the turn the broadcast is one message, or lost; it is cast nowhere.
\* After it nothing climbs, and one node has cast in the top ring, once.
Phase ==
    \/ Pending = {} /\ NothingCast
    \/ /\ \E m \in Pending : Alone(m) /\ Climbing(m)
       /\ NothingCast /\ NobodyClimbs(BagToSet(lost))
    \/ /\ \E r \in Node : \A n \in Node : casts[n][Top] = IF n = r THEN 1 ELSE 0
       /\ NobodyClimbs(Pending \cup BagToSet(lost))

Counters ==
    /\ IsABag(net) /\ IsABag(lost)
    /\ casts \in [Node -> [0 .. Top -> Nat]]
    /\ heard \in [Node -> [0 .. Top -> Nat]]
    /\ shown \in [Node -> Nat]

ClimbInv ==
    /\ StructureInv
    /\ origin \in Origins \cup {NoNode}
    /\ Counters
    /\ RightMessages
    /\ origin = NoNode => Pending = {} /\ BagToSet(lost) = {} /\ NothingCast
    /\ Phase

-----------------------------------------------------------------------------
(***************************************************************************)
(* Bags.                                                                   *)
(***************************************************************************)
\* One more copy of each of some messages.
LEMMA BagPlus ==
    ASSUME NEW b, IsABag(b), NEW S
    PROVE  /\ IsABag(b (+) SetToBag(S))
           /\ BagToSet(b (+) SetToBag(S)) = BagToSet(b) \cup S
           /\ \A x \in BagToSet(b) \cup S : (b (+) SetToBag(S))[x] =
                (IF x \in BagToSet(b) THEN b[x] ELSE 0) + (IF x \in S THEN 1 ELSE 0)
  BY DEF IsABag, BagToSet, SetToBag, (+)

\* One copy less of a message.
LEMMA BagMinus ==
    ASSUME NEW b, IsABag(b), NEW m \in BagToSet(b)
    PROVE  /\ IsABag(b (-) SetToBag({m}))
           /\ BagToSet(b (-) SetToBag({m})) =
                (IF b[m] = 1 THEN BagToSet(b) \ {m} ELSE BagToSet(b))
           /\ \A x \in BagToSet(b (-) SetToBag({m})) : (b (-) SetToBag({m}))[x] =
                IF x = m THEN b[x] - 1 ELSE b[x]
<1> DEFINE d == b (-) SetToBag({m})
<1>1. d = [e \in {x \in BagToSet(b) : (IF x = m THEN b[x] - 1 ELSE b[x]) > 0}
                |-> IF e = m THEN b[e] - 1 ELSE b[e]]
  BY DEF BagToSet, SetToBag, (-)
<1>2. \A x \in BagToSet(b) : b[x] \in Nat /\ b[x] > 0
  BY DEF IsABag, BagToSet
<1> HIDE DEF d
<1>3. BagToSet(d) = {x \in BagToSet(b) : (IF x = m THEN b[x] - 1 ELSE b[x]) > 0}
  BY <1>1 DEF BagToSet
<1>4. \A x \in BagToSet(d) : d[x] = IF x = m THEN b[x] - 1 ELSE b[x]
  BY <1>1, <1>3
<1>5. IsABag(d)
  BY <1>1, <1>2, <1>3, <1>4 DEF IsABag, BagToSet
<1>6. BagToSet(d) = IF b[m] = 1 THEN BagToSet(b) \ {m} ELSE BagToSet(b)
  BY <1>2, <1>3
<1>7. QED BY <1>4, <1>5, <1>6 DEF d

\* The bag of one message.
LEMMA BagOfOne ==
    ASSUME NEW m
    PROVE  /\ IsABag(SetToBag({m})) /\ BagToSet(SetToBag({m})) = {m}
           /\ SetToBag({m})[m] = 1
  BY DEF IsABag, BagToSet, SetToBag

LEMMA BagOfNone == IsABag(EmptyBag) /\ BagToSet(EmptyBag) = {}
  BY DEF IsABag, BagToSet, EmptyBag, SetToBag

-----------------------------------------------------------------------------
(***************************************************************************)
(* What the tables hand out.                                               *)
(***************************************************************************)
\* A node finds itself in its list, and the list is as long as it should be.
LEMMA OwnPlace ==
    ASSUME SameLimits, StructureInv, NEW n \in up,
           NEW l \in 0 .. Top, ResidesById(n, l)
    PROVE  /\ peer_list(n, l) \in Seq(Node)
           /\ get_peer_list_size(n, l) = Len(peer_list(n, l)) - 1
           /\ Len(peer_list(n, l)) = Width(l) * PerRegion(l)
           /\ ToSet(peer_list(n, l)) = RingById(n, l)
           /\ get_node_id_in_vector(n, l) \in 0 .. Len(peer_list(n, l)) - 1
           /\ peer_list(n, l)[get_node_id_in_vector(n, l) + 1] = n
<1> DEFINE list == peer_list(n, l)
           at == {i \in DOMAIN list : list[i] = n}
<1>1. is_contact_node(n, l) /\ RightRing(n, l, tables(n)[l + 1]) /\ n \in Node
  BY Answers DEF StructureInv
<1>2. /\ list \in Seq(Node) /\ Len(list) = Width(l) * PerRegion(l)
      /\ ToSet(list) = RingById(n, l)
  BY <1>1 DEF RightRing, peer_list
<1>3. n \in RingById(n, l)
  BY <1>1 DEF RingById, SameRegion
<1>4. /\ get_peer_list_size(n, l) = Len(list) - 1
      /\ get_node_id_in_vector(n, l) = IF at = {} THEN -1 ELSE Min(at) - 1
  BY <1>1 DEF get_peer_list_size, get_node_id_in_vector
<1> HIDE DEF list
<1>5. PICK i \in 1 .. Len(list) : list[i] = n
  BY <1>2, <1>3, Entries
<1>6. at \subseteq Nat /\ i \in at /\ DOMAIN list = 1 .. Len(list) /\ Len(list) \in Nat
  BY <1>2, <1>5
<1>7. Min(at) \in at
  <2> HIDE DEF at
  <2> QED BY <1>6, LeastNatural
<1>8. get_node_id_in_vector(n, l) = Min(at) - 1
  <2> HIDE DEF at
  <2> QED BY <1>4, <1>6
<1>9. Min(at) \in 1 .. Len(list) /\ list[Min(at)] = n /\ Min(at) \in Nat
  BY <1>6, <1>7
<1> HIDE DEF at
<1>10. /\ get_node_id_in_vector(n, l) + 1 = Min(at)
       /\ get_node_id_in_vector(n, l) \in 0 .. Len(list) - 1
  BY <1>8, <1>9
<1>11. QED BY <1>2, <1>4, <1>9, <1>10 DEF list

\* The packets of a cast are addressed to members of its ring.
LEMMA PacketsRight ==
    ASSUME SameLimits, StructureInv, NEW n \in up, NEW l \in 0 .. Top,
           NEW order \in Nat, NEW p \in WithinRing(n, l, order)
    PROVE  RightMessage(p) /\ ~ Climbing(p)
<1> DEFINE end_ID == get_peer_list_size(n, l)
           here == get_node_id_in_vector(n, l)
           list == peer_list(n, l)
<1>1. PICK s \in Strides :
        /\ order + s <= end_ID
        /\ p = [type |-> TypeAt(list[Wrap(here + s, end_ID) + 1], l), level |-> l,
                order |-> order + s, from |-> n, to |-> list[Wrap(here + s, end_ID) + 1]]
  BY DEF WithinRing
<1>2. s \in Nat /\ s > 0 /\ n \in Node
  BY StridesAssumption DEF StructureInv
<1>3. ResidesById(n, l)
  <2> SUFFICES ASSUME ~ ResidesById(n, l) PROVE FALSE
    OBVIOUS
  <2>1. end_ID = -1
    BY Answers DEF get_peer_list_size
  <2> HIDE DEF end_ID
  <2>2. QED BY <1>1, <1>2, <2>1
<1>4. /\ list \in Seq(Node) /\ end_ID = Len(list) - 1
      /\ Len(list) = Width(l) * PerRegion(l) /\ ToSet(list) = RingById(n, l)
      /\ here \in 0 .. Len(list) - 1
  BY <1>3, OwnPlace
<1> DEFINE next == Wrap(here + s, end_ID) + 1
<1>5. next \in 1 .. Len(list) /\ order + s \in 1 .. Len(list) - 1
  <2> HIDE DEF list, here, end_ID
  <2>1. QED BY <1>1, <1>2, <1>4 DEF Wrap
<1>6. list[next] \in RingById(n, l)
  <2> HIDE DEF list, next
  <2>1. QED BY <1>4, <1>5, Entries
<1>7. list[next] \in Node
  BY <1>6, SameRing
<1> HIDE DEF next
<1>8. /\ p.type \in {Down, InRing} /\ p.level = l /\ p.order = order + s
      /\ p.from = n /\ p.to = list[next]
  BY <1>1 DEF TypeAt, next
<1>9. p \in Message
  <2>1. TypeAt(list[next], l) \in {Down, InRing}
    BY DEF TypeAt
  <2>2. order + s \in Int
    BY <1>2
  <2>3. QED BY <1>1, <1>2, <1>7, <2>1, <2>2 DEF Message, next
<1>10. ~ Climbing(p)
  BY <1>8 DEF Climbing, UpFromBelow, UpSameLevel, Down, InRing
<1>11. p.order \in 1 .. Width(p.level) * PerRegion(p.level) - 1
  BY <1>4, <1>5, <1>8
<1> HIDE DEF end_ID, here, list
<1>12. QED BY <1>3, <1>6, <1>8, <1>9, <1>10, <1>11 DEF RightMessage

LEMMA DownwardsRight ==
    ASSUME SameLimits, StructureInv, NEW n \in up, NEW l \in -1 .. Top,
           NEW p \in Downwards(n, l)
    PROVE  RightMessage(p) /\ ~ Climbing(p)
<1>1. PICK j \in 0 .. l : p \in WithinRing(n, j, 0)
  BY DEF Downwards
<1>2. j \in 0 .. Top
  BY TopType
<1>3. QED BY <1>1, <1>2, PacketsRight

\* No ring is without a contact node.
LEMMA ContactExists ==
    ASSUME NEW n \in Node, NEW l \in 0 .. Top
    PROVE  ContactsById(n, l) # {}
<1> DEFINE x == [d \in 0 .. Top |-> IF d <= l THEN 0 ELSE n[d]]
<1>0. Top \in 0 .. 5 /\ l \in 0 .. 5 /\ 0 \in 0 .. Top
  BY TopType
<1>1. \A d \in 0 .. Top : n[d] \in Nat /\ n[d] < Width(d) /\ Width(d) \in Nat
  <2>1. \A d \in 0 .. Top : Width(d) \in Nat
    BY <1>0, WidthType
  <2>2. QED BY <2>1, Digits
<1>2. x \in [0 .. Top -> Nat] /\ \A d \in 0 .. Top : x[d] < Width(d)
  <2>1. \A d \in 0 .. Top : x[d] \in Nat /\ x[d] < Width(d)
    BY <1>0, <1>1
  <2>2. QED BY <2>1
<1>3. /\ \A d \in 0 .. l : x[d] = 0
      /\ \A d \in l + 1 .. Top : x[d] = n[d]
  BY <1>0
<1> HIDE DEF x
<1>4. x \in SameRegion(n, l)
  BY <1>2, <1>3, NodeIds, RegionDigits
<1>5. ResidesById(x, l + 1)
  <2>1. x[0] = 0 /\ \A d \in 1 .. l : x[d] = 0
    BY <1>0, <1>3
  <2>2. l + 1 - 1 = l
    BY <1>0
  <2>3. QED BY <2>1, <2>2, ContactsType DEF ResidesById
<1>6. QED BY <1>4, <1>5 DEF ContactsById

\* Whoever resides above a ring resides in it.
LEMMA ResidesBelow ==
    ASSUME NEW n \in Node, NEW l \in 0 .. Top, ResidesById(n, l + 1)
    PROVE  ResidesById(n, l)
  BY TopType DEF ResidesById

-----------------------------------------------------------------------------
(***************************************************************************)
(* What handling a message does to the messages and the counters.          *)
(***************************************************************************)
LEMMA RightStays ==
    ASSUME up \subseteq up', NEW m, RightMessage(m)
    PROVE  RightMessage(m)'
  BY DEF RightMessage

LEMMA StructureStays ==
    ASSUME StructureInv, UNCHANGED structureVars
    PROVE  StructureInv'
  BY DEF StructureInv, structureVars

\* A handler runs on a node that is up.
LEMMA HandlerIsUp ==
    ASSUME ClimbInv, NEW m \in Pending, Runs(m)
    PROVE  /\ m.to \in up /\ m.to \in Node /\ RightMessage(m)
           /\ m \in calls \/ m \in BagToSet(net)
<1>1. m.to \in up
  BY DEF ClimbInv, RightMessages, Runs
<1>2. QED BY <1>1 DEF ClimbInv, StructureInv, RightMessages, Pending

\* The new messages are under way, or called, and nothing else is.
LEMMA SentMessages ==
    ASSUME ClimbInv, NEW m \in Pending, Runs(m), NEW S, NEW L, Sends(m, S, L)
    PROVE  /\ IsABag(net')
           /\ BagToSet(net') \subseteq BagToSet(net) \cup S
           /\ calls' \subseteq calls \cup S
           /\ \A x \in calls' : x \in calls \/ x.to = m.to
           /\ Alone(m) => /\ Pending' = S /\ BagToSet(net') \cap calls' = {}
                          /\ \A x \in BagToSet(net') : net'[x] = 1
<1> DEFINE own == {x \in S : x.to = m.to}
           rest == IF m \in calls THEN net ELSE net (-) SetToBag({m})
<1>1. /\ net' = rest (+) SetToBag(S \ own)
      /\ calls' = (calls \ {m}) \cup own
  BY DEF Sends
<1>2. IsABag(net) /\ (m \in calls \/ m \in BagToSet(net))
  BY HandlerIsUp DEF ClimbInv, Counters
<1>3. /\ IsABag(rest) /\ BagToSet(rest) \subseteq BagToSet(net)
      /\ Alone(m) => BagToSet(rest) = {}
  <2>1. CASE m \in calls
    <3>1. Alone(m) => BagToSet(net) = {}
      BY <2>1 DEF Alone, Pending
    <3>2. QED BY <1>2, <2>1, <3>1
  <2>2. CASE m \notin calls
    <3>1. /\ IsABag(net (-) SetToBag({m}))
          /\ BagToSet(net (-) SetToBag({m})) =
                (IF net[m] = 1 THEN BagToSet(net) \ {m} ELSE BagToSet(net))
      BY <1>2, <2>2, BagMinus
    <3>2. Alone(m) => net[m] = 1 /\ BagToSet(net) = {m}
      BY <1>2, <2>2 DEF Alone, Pending
    <3>3. rest = net (-) SetToBag({m})
      BY <2>2
    <3> HIDE DEF rest
    <3>4. QED BY <3>1, <3>2, <3>3
  <2>3. QED BY <2>1, <2>2
<1> HIDE DEF rest
<1>4. /\ IsABag(net') /\ BagToSet(net') = BagToSet(rest) \cup (S \ own)
      /\ \A x \in BagToSet(rest) \cup (S \ own) : net'[x] =
            (IF x \in BagToSet(rest) THEN rest[x] ELSE 0)
                + (IF x \in S \ own THEN 1 ELSE 0)
  <2> DEFINE others == S \ own
  <2> HIDE DEF others
  <2>1. net' = rest (+) SetToBag(others)
    BY <1>1 DEF others
  <2>2. /\ IsABag(rest (+) SetToBag(others))
        /\ BagToSet(rest (+) SetToBag(others)) = BagToSet(rest) \cup others
        /\ \A x \in BagToSet(rest) \cup others : (rest (+) SetToBag(others))[x] =
              (IF x \in BagToSet(rest) THEN rest[x] ELSE 0)
                  + (IF x \in others THEN 1 ELSE 0)
    BY <1>3, BagPlus
  <2>3. BagToSet(net') = BagToSet(rest (+) SetToBag(others))
    BY <2>1
  <2>4. QED BY <2>1, <2>2, <2>3 DEF others
<1>5. ASSUME Alone(m)
      PROVE  /\ Pending' = S /\ BagToSet(net') \cap calls' = {}
             /\ \A x \in BagToSet(net') : net'[x] = 1
  <2>1. calls \ {m} = {}
    BY <1>5 DEF Alone, Pending
  <2>2. BagToSet(rest) = {}
    BY <1>3, <1>5
  <2>3. calls' = own /\ BagToSet(net') = S \ own
    BY <1>1, <1>4, <2>1, <2>2
  <2>4. \A x \in BagToSet(net') : net'[x] = 1
    BY <1>4, <2>2, <2>3
  <2>5. Pending' = BagToSet(net') \cup calls'
    BY DEF Pending
  <2>6. QED BY <2>3, <2>4, <2>5
<1>6. BagToSet(net') \subseteq BagToSet(net) \cup S
  BY <1>3, <1>4
<1>7. QED BY <1>1, <1>4, <1>5, <1>6

\* One cast more in each ring of the levels L, at the receiver.
LEMMA SentCasts ==
    ASSUME ClimbInv, NEW m \in Pending, Runs(m), NEW S, NEW L, Sends(m, S, L)
    PROVE  /\ casts' \in [Node -> [0 .. Top -> Nat]]
           /\ \A n \in Node, l \in 0 .. Top : casts'[n][l] =
                IF n = m.to /\ l \in L THEN casts[n][l] + 1 ELSE casts[n][l]
<1> DEFINE row == [l \in 0 .. Top |-> IF l \in L THEN casts[m.to][l] + 1
                                      ELSE casts[m.to][l]]
<1>1. casts' = [casts EXCEPT ![m.to] = row]
  BY DEF Sends
<1>2. casts \in [Node -> [0 .. Top -> Nat]] /\ m.to \in Node
  BY HandlerIsUp DEF ClimbInv, Counters
<1>3. row \in [0 .. Top -> Nat]
  <2> DEFINE old == casts[m.to]
  <2>1. old \in [0 .. Top -> Nat]
    BY <1>2
  <2> HIDE DEF old
  <2>2. \A l \in 0 .. Top : (IF l \in L THEN old[l] + 1 ELSE old[l]) \in Nat
    BY <2>1
  <2>3. row = [l \in 0 .. Top |-> IF l \in L THEN old[l] + 1 ELSE old[l]]
    BY DEF old
  <2> HIDE DEF row
  <2>4. QED BY <2>2, <2>3
<1>4. \A l \in 0 .. Top : row[l] = IF l \in L THEN casts[m.to][l] + 1 ELSE casts[m.to][l]
  OBVIOUS
<1> HIDE DEF row
<1>5. casts' \in [Node -> [0 .. Top -> Nat]]
  BY <1>1, <1>2, <1>3
<1>6. \A n \in Node : casts'[n] = IF n = m.to THEN row ELSE casts[n]
  BY <1>1, <1>2
<1>7. QED BY <1>4, <1>5, <1>6

\* What is the same in all handlers.
LEMMA HandlerKeeps ==
    ASSUME ClimbInv, NEW m \in Pending, Runs(m), NEW S, NEW L, Sends(m, S, L),
           UNCHANGED <<hash, up, origin, lost>>,
           \A x \in S : RightMessage(x)
    PROVE  /\ StructureInv' /\ IsABag(net)' /\ IsABag(lost)'
           /\ casts' \in [Node -> [0 .. Top -> Nat]]
           /\ origin' \in Origins \cup {NoNode} /\ origin' # NoNode
           /\ RightMessages'
<1>1. StructureInv'
  BY StructureStays DEF ClimbInv, structureVars
<1>2. IsABag(net)' /\ IsABag(lost)' /\ casts' \in [Node -> [0 .. Top -> Nat]]
  BY SentMessages, SentCasts DEF ClimbInv, Counters
<1>3. origin' \in Origins \cup {NoNode} /\ origin' # NoNode
  BY DEF ClimbInv
<1>4. ASSUME NEW x \in (Pending \cup BagToSet(lost))'
      PROVE  RightMessage(x)'
  <2>1. x \in Pending \cup BagToSet(lost) \cup S
    <3>1. BagToSet(lost') = BagToSet(lost)
      OBVIOUS
    <3>2. QED BY <1>4, <3>1, SentMessages DEF Pending
  <2>2. RightMessage(x)
    BY <2>1 DEF ClimbInv, RightMessages
  <2>3. QED BY <2>2, RightStays
<1>5. ASSUME NEW x \in calls' PROVE x.to \in up'
  BY SentMessages, HandlerIsUp DEF ClimbInv, RightMessages
<1>6. QED BY <1>1, <1>2, <1>3, <1>4, <1>5 DEF RightMessages

\* One more on a counter.
LEMMA ShownUp ==
    ASSUME NEW f \in [Node -> Nat], NEW n \in Node
    PROVE  /\ [f EXCEPT ![n] = @ + 1] \in [Node -> Nat]
           /\ \A x \in Node : [f EXCEPT ![n] = @ + 1][x] =
                IF x = n THEN f[x] + 1 ELSE f[x]
<1>1. f[n] + 1 \in Nat
  OBVIOUS
<1>2. QED BY <1>1

LEMMA HeardUp ==
    ASSUME NEW f \in [Node -> [0 .. Top -> Nat]], NEW n \in Node, NEW l \in 0 .. Top
    PROVE  /\ [f EXCEPT ![n][l] = @ + 1] \in [Node -> [0 .. Top -> Nat]]
           /\ \A x \in Node, j \in 0 .. Top : [f EXCEPT ![n][l] = @ + 1][x][j] =
                IF x = n /\ j = l THEN f[x][j] + 1 ELSE f[x][j]
<1> DEFINE row == [f[n] EXCEPT ![l] = @ + 1]
<1>1. [f EXCEPT ![n][l] = @ + 1] = [f EXCEPT ![n] = row]
  OBVIOUS
<1>2. /\ row \in [0 .. Top -> Nat]
      /\ \A j \in 0 .. Top : row[j] = IF j = l THEN f[n][j] + 1 ELSE f[n][j]
  <2> DEFINE old == f[n]
  <2>1. old \in [0 .. Top -> Nat]
    OBVIOUS
  <2> HIDE DEF old
  <2>2. /\ [old EXCEPT ![l] = @ + 1] \in [0 .. Top -> Nat]
        /\ \A j \in 0 .. Top : [old EXCEPT ![l] = @ + 1][j] =
                IF j = l THEN old[j] + 1 ELSE old[j]
    <3>1. old[l] + 1 \in Nat
      BY <2>1
    <3>2. QED BY <2>1, <3>1
  <2>3. QED BY <2>2 DEF old
<1> HIDE DEF row
<1>3. /\ [f EXCEPT ![n] = row] \in [Node -> [0 .. Top -> Nat]]
      /\ \A x \in Node : [f EXCEPT ![n] = row][x] = IF x = n THEN row ELSE f[x]
  BY <1>2
<1>4. QED BY <1>1, <1>2, <1>3

\* What climbs is alone; what does not comes after the turn.
LEMMA WhichPhase ==
    ASSUME ClimbInv, NEW m \in Pending
    PROVE  /\ Climbing(m) => Alone(m) /\ NothingCast /\ NobodyClimbs(BagToSet(lost))
           /\ ~ Climbing(m) =>
                /\ NobodyClimbs(Pending \cup BagToSet(lost))
                /\ \E r \in Node : \A n \in Node : casts[n][Top] = IF n = r THEN 1 ELSE 0
<1>1. CASE Pending = {}
  BY <1>1
<1>2. CASE \E x \in Pending : Alone(x) /\ Climbing(x)
  <2>1. PICK x \in Pending : Alone(x) /\ Climbing(x)
    BY <1>2
  <2>2. x = m
    BY <2>1 DEF Alone
  <2>3. ~ NobodyClimbs(Pending \cup BagToSet(lost))
    BY <2>1 DEF NobodyClimbs
  <2>4. QED BY <2>1, <2>2, <2>3 DEF ClimbInv, Phase
<1>3. CASE NobodyClimbs(Pending \cup BagToSet(lost))
  BY <1>3 DEF NobodyClimbs, ClimbInv, Phase
<1>4. QED BY <1>1, <1>2, <1>3 DEF ClimbInv, Phase

\* A climbing message knows where it is, and where the way up ends.
LEMMA ClimbKnows ==
    ASSUME SameLimits, ClimbInv, NEW m \in Pending, Runs(m), Climbing(m)
    PROVE  /\ ClimbsTo(m) \in 0 .. Top
           /\ is_contact_node(m.to, ClimbsTo(m))
           /\ get_contact_nodes(m.to, ClimbsTo(m) + 1) =
                IF ClimbsTo(m) = Top THEN {} ELSE ContactsById(m.to, ClimbsTo(m) + 1)
           /\ ClimbsTo(m) # Top => ContactsById(m.to, ClimbsTo(m) + 1) # {}
<1> DEFINE L == ClimbsTo(m)
<1>1. m.to \in up /\ m.to \in Node /\ L \in 0 .. Top /\ ResidesById(m.to, L + 1)
  BY HandlerIsUp DEF RightMessage
<1> HIDE DEF L
<1>2. Top \in 0 .. 5 /\ L \in Nat /\ StructureInv
  BY <1>1, TopType DEF ClimbInv
<1>3. ResidesById(m.to, L)
  BY <1>1, ResidesBelow
<1>4. is_contact_node(m.to, L)
  BY <1>1, <1>2, <1>3, Answers
<1>5. CASE L = Top
  <2>1. ~ is_contact_node(m.to, L + 1)
    BY <1>1, <1>2, <1>5, Answers
  <2>2. get_contact_nodes(m.to, L + 1) = {}
    BY <2>1 DEF get_contact_nodes
  <2>3. QED BY <1>1, <1>4, <1>5, <2>2 DEF L
<1>6. CASE L # Top
  <2>1. L + 1 \in 0 .. Top
    BY <1>1, <1>2, <1>6
  <2>2. get_contact_nodes(m.to, L + 1) = ContactsById(m.to, L + 1)
    BY <1>1, <1>2, <2>1, PeersById
  <2>3. ContactsById(m.to, L + 1) # {}
    BY <1>1, <2>1, ContactExists
  <2>4. QED BY <1>1, <1>4, <1>6, <2>2, <2>3 DEF L
<1>7. QED BY <1>5, <1>6

-----------------------------------------------------------------------------
(***************************************************************************)
(* The steps.                                                              *)
(***************************************************************************)
LEMMA ClimbInvAtStart == Init => ClimbInv
<1> SUFFICES ASSUME Init PROVE ClimbInv
  OBVIOUS
<1>1. IsABag(EmptyBag) /\ BagToSet(EmptyBag) = {}
  BY BagOfNone
<1>2. net = EmptyBag /\ lost = EmptyBag /\ calls = {}
  BY DEF Init
<1>3. Pending = {} /\ BagToSet(lost) = {} /\ IsABag(net) /\ IsABag(lost)
  <2>1. BagToSet(net) = {} /\ BagToSet(lost) = {} /\ IsABag(net) /\ IsABag(lost)
    BY <1>1, <1>2
  <2>2. QED BY <1>2, <2>1 DEF Pending
<1>4. Top \in 0 .. 5
  BY TopType
<1>5. Counters /\ NothingCast
  BY <1>3, <1>4 DEF Init, Counters, NothingCast
<1>6. StructureInv /\ origin \in Origins \cup {NoNode}
  BY DEF Init, StructureInit, StructureInv
<1>7. RightMessages /\ Phase
  BY <1>2, <1>3, <1>5 DEF RightMessages, Phase
<1>8. QED BY <1>3, <1>5, <1>6, <1>7 DEF ClimbInv

\* Whoever starts late changes nothing but up.
LEMMA StartKeeps ==
    ASSUME ClimbInv, Start
    PROVE  ClimbInv'
<1>1. UNCHANGED broadcastVars /\ hash' = hash /\ up \subseteq up' /\ up' \subseteq Node
  BY LateAssumption DEF Start, StructureNext, Form, ClimbInv, StructureInv
<1>2. /\ Pending' = Pending /\ BagToSet(lost)' = BagToSet(lost)
      /\ NothingCast' = NothingCast /\ Counters' = Counters
      /\ calls' = calls /\ origin' = origin
  BY <1>1 DEF broadcastVars, Pending, NothingCast, Counters
<1>3. RightMessages'
  <2>1. ASSUME NEW x \in (Pending \cup BagToSet(lost))' PROVE RightMessage(x)'
    <3>1. RightMessage(x)
      BY <1>2, <2>1 DEF ClimbInv, RightMessages
    <3>2. QED BY <1>1, <3>1, RightStays
  <2>2. ASSUME NEW x \in calls' PROVE x.to \in up'
    BY <1>1, <1>2, <2>2 DEF ClimbInv, RightMessages
  <2>3. QED BY <2>1, <2>2 DEF RightMessages
<1>4. Phase'
  BY <1>1 DEF ClimbInv, Phase, broadcastVars, Pending, NothingCast, Alone, NobodyClimbs
<1>5. StructureInv'
  BY <1>1 DEF ClimbInv, StructureInv
<1>6. QED BY <1>2, <1>3, <1>4, <1>5 DEF ClimbInv

\* A broadcast begins with one climbing message.
LEMMA BroadcastKeeps ==
    ASSUME SameLimits, ClimbInv, NEW n \in Origins, Broadcast(n)
    PROVE  ClimbInv'
<1>1. PICK r \in get_contact_nodes(n, 0) :
        LET m == [type |-> UpSameLevel, level |-> 0, order |-> -1, from |-> n, to |-> r]
        IN  IF r = n THEN calls' = {m} /\ UNCHANGED net
                     ELSE net' = SetToBag({m}) /\ UNCHANGED calls
  BY DEF Broadcast
<1> DEFINE m == [type |-> UpSameLevel, level |-> 0, order |-> -1, from |-> n, to |-> r]
<1>2. /\ origin = NoNode /\ n \in up /\ origin' = n
      /\ UNCHANGED <<hash, up, casts, heard, shown, lost>>
  BY DEF Broadcast
<1>3. Pending = {} /\ BagToSet(lost) = {} /\ NothingCast /\ StructureInv /\ Counters
  BY <1>2 DEF ClimbInv
<1>4. StructureInv' /\ BagToSet(lost') = {} /\ NothingCast'
  BY <1>2, <1>3, StructureStays DEF structureVars, NothingCast
<1>5. /\ Top \in 0 .. 5 /\ 0 \in 0 .. Top /\ n \in Node
      /\ r \in Node /\ ResidesById(r, 1)
  <2>1. Top \in 0 .. 5 /\ 0 \in 0 .. Top /\ n \in Node /\ ResidesById(n, 0)
    BY <1>2, <1>3, TopType DEF ResidesById, StructureInv
  <2>2. get_contact_nodes(n, 0) = ContactsById(n, 0)
    BY <1>2, <1>3, <2>1, PeersById
  <2>3. QED BY <2>1, <2>2, RegionDigits DEF ContactsById
<1>6. /\ m \in Message /\ Climbing(m) /\ ClimbsTo(m) = 0
      /\ m.to = r /\ m.from = n /\ m.order = -1
  BY <1>5 DEF Message, Climbing, ClimbsTo, UpSameLevel, UpFromBelow
<1> HIDE DEF m
<1>7. RightMessage(m)'
  BY <1>2, <1>5, <1>6 DEF RightMessage
<1>8. /\ Alone(m)' /\ IsABag(net') /\ m \in Pending'
      /\ \A x \in calls' : x.to \in up'
  <2>1. BagToSet(net) = {} /\ calls = {} /\ IsABag(net)
    BY <1>3 DEF Pending, Counters
  <2>2. CASE r = n
    <3>1. calls' = {m} /\ net' = net
      BY <1>1, <2>2 DEF m
    <3>2. BagToSet(net') = {} /\ IsABag(net')
      BY <2>1, <3>1
    <3>3. QED BY <1>2, <1>6, <2>2, <3>1, <3>2 DEF Alone, Pending
  <2>3. CASE r # n
    <3>1. net' = SetToBag({m}) /\ calls' = {}
      BY <1>1, <2>1, <2>3 DEF m
    <3>2. BagToSet(net') = {m} /\ net'[m] = 1 /\ IsABag(net')
      BY <3>1, BagOfOne
    <3>3. QED BY <3>1, <3>2 DEF Alone, Pending
  <2>4. QED BY <2>2, <2>3
<1>9. RightMessages'
  BY <1>4, <1>7, <1>8 DEF RightMessages, Alone
<1>10. Phase'
  BY <1>4, <1>6, <1>8 DEF Phase, NobodyClimbs
<1>11. Counters'
  BY <1>2, <1>3, <1>8 DEF Counters
<1>12. origin' \in Origins \cup {NoNode} /\ origin' # NoNode
  BY <1>2, <1>5, BroadcastAssumption
<1>13. QED BY <1>4, <1>9, <1>10, <1>11, <1>12 DEF ClimbInv

\* On the way up one message makes way for the next.
LEMMA ClimbKeeps ==
    ASSUME SameLimits, ClimbInv, NEW m \in Pending, Climb(m)
    PROVE  ClimbInv'
<1> DEFINE L == ClimbsTo(m)
<1>1. PICK r \in get_contact_nodes(m.to, L + 1) :
        Sends(m, {[type |-> UpFromBelow, level |-> L, order |-> -1,
                   from |-> m.to, to |-> r]}, {})
  BY DEF Climb
<1> DEFINE x == [type |-> UpFromBelow, level |-> L, order |-> -1,
                 from |-> m.to, to |-> r]
<1>2. /\ Runs(m) /\ Climbing(m)
      /\ UNCHANGED <<hash, up, origin, heard, shown, lost>>
  BY DEF Climb
<1>3. m.to \in up /\ m.to \in Node
  BY <1>2, HandlerIsUp
<1>4. /\ L \in 0 .. Top /\ L # Top
      /\ r \in ContactsById(m.to, L + 1)
  BY <1>1, <1>2, ClimbKnows
<1>5. /\ Top \in 0 .. 5 /\ L + 1 \in 0 .. Top
      /\ r \in Node /\ ResidesById(r, L + 1 + 1)
  BY <1>4, TopType, RegionDigits DEF ContactsById
<1> HIDE DEF L
<1>6. /\ x \in Message /\ Climbing(x) /\ ClimbsTo(x) = L + 1
      /\ x.to = r /\ x.from = m.to /\ x.order = -1
  BY <1>3, <1>4, <1>5 DEF Message, Climbing, ClimbsTo, UpSameLevel, UpFromBelow
<1>7. Sends(m, {x}, {})
  BY <1>1
<1> HIDE DEF x
<1>8. RightMessage(x)
  BY <1>3, <1>5, <1>6 DEF RightMessage
<1>9. /\ StructureInv' /\ IsABag(net)' /\ IsABag(lost)'
      /\ casts' \in [Node -> [0 .. Top -> Nat]]
      /\ origin' \in Origins \cup {NoNode} /\ origin' # NoNode
      /\ RightMessages'
  BY <1>2, <1>7, <1>8, HandlerKeeps
<1>10. Alone(m) /\ NothingCast /\ NobodyClimbs(BagToSet(lost))
  BY <1>2, WhichPhase
<1>11. Alone(x)' /\ x \in Pending'
  BY <1>2, <1>7, <1>10, SentMessages DEF Alone
<1>12. NothingCast' /\ NobodyClimbs(BagToSet(lost))'
  <2>1. \A n \in Node, l \in 0 .. Top : casts'[n][l] = casts[n][l]
    BY <1>2, <1>7, SentCasts
  <2>2. QED BY <1>2, <1>10, <2>1 DEF NothingCast, NobodyClimbs
<1>13. Phase'
  BY <1>6, <1>11, <1>12 DEF Phase
<1>14. Counters'
  BY <1>2, <1>9 DEF ClimbInv, Counters
<1>15. QED BY <1>9, <1>13, <1>14 DEF ClimbInv

\* The turn: one node casts in the top ring, and the climb is over.
LEMMA TurnKeeps ==
    ASSUME SameLimits, ClimbInv, NEW m \in Pending, TurnDown(m)
    PROVE  ClimbInv'
<1> DEFINE L == ClimbsTo(m)
           S == Downwards(m.to, L)
<1>1. /\ Runs(m) /\ Climbing(m) /\ Sends(m, S, 0 .. L) /\ Shows(m)
      /\ UNCHANGED <<hash, up, origin, heard, lost>>
      /\ get_contact_nodes(m.to, L + 1) = {}
  BY DEF TurnDown
<1>2. m.to \in up /\ m.to \in Node
  BY <1>1, HandlerIsUp
<1>3. L = Top /\ Top \in 0 .. 5
  BY <1>1, ClimbKnows, TopType
<1>4. \A x \in S : RightMessage(x) /\ ~ Climbing(x)
  <2>1. StructureInv /\ L \in -1 .. Top
    BY <1>3 DEF ClimbInv
  <2>2. QED BY <1>2, <2>1, DownwardsRight
<1> HIDE DEF S
<1>5. /\ StructureInv' /\ IsABag(net)' /\ IsABag(lost)'
      /\ casts' \in [Node -> [0 .. Top -> Nat]]
      /\ origin' \in Origins \cup {NoNode} /\ origin' # NoNode
      /\ RightMessages'
  BY <1>1, <1>4, HandlerKeeps
<1>6. Alone(m) /\ NothingCast /\ NobodyClimbs(BagToSet(lost))
  BY <1>1, WhichPhase
<1>7. Pending' = S
  BY <1>1, <1>6, SentMessages
<1>8. \A n \in Node : casts'[n][Top] = IF n = m.to THEN 1 ELSE 0
  <2>1. \A n \in Node : casts'[n][Top] =
            IF n = m.to THEN casts[n][Top] + 1 ELSE casts[n][Top]
    <3> DEFINE levels == 0 .. L
    <3>1. Top \in 0 .. Top /\ Top \in levels
      BY <1>3
    <3>2. Sends(m, S, levels)
      BY <1>1
    <3> HIDE DEF levels
    <3>3. \A n \in Node, l \in 0 .. Top : casts'[n][l] =
                IF n = m.to /\ l \in levels THEN casts[n][l] + 1 ELSE casts[n][l]
      BY <1>1, <3>2, SentCasts
    <3>4. QED BY <3>1, <3>3
  <2>2. \A n \in Node : casts[n][Top] = 0
    BY <1>3, <1>6 DEF NothingCast
  <2>3. QED BY <2>1, <2>2
<1>9. NobodyClimbs((Pending \cup BagToSet(lost))')
  BY <1>1, <1>4, <1>6, <1>7 DEF NobodyClimbs
<1>10. Phase'
  BY <1>2, <1>8, <1>9 DEF Phase
<1>11. shown' \in [Node -> Nat]
  BY <1>1, <1>2, ShownUp DEF Shows, ClimbInv, Counters
<1>12. Counters'
  BY <1>1, <1>5, <1>11 DEF ClimbInv, Counters
<1>13. QED BY <1>5, <1>10, <1>12 DEF ClimbInv

\* Where all rings have equally many contact nodes, nothing strands.
LEMMA NeverStranded ==
    ASSUME SameLimits, ClimbInv, NEW m \in Pending
    PROVE  ~ Stranded(m)
  BY ClimbKnows DEF Stranded

\* After the turn nobody casts in the top ring again.
LEMMA PassKeeps ==
    ASSUME SameLimits, ClimbInv, NEW m \in Pending, Runs(m), ~ Climbing(m),
           NEW S, \A x \in S : RightMessage(x) /\ ~ Climbing(x),
           NEW L, Top \notin L, Sends(m, S, L), Hears(m)
    PROVE  ClimbInv'
<1>1. UNCHANGED <<hash, up, origin, lost>>
  BY DEF Hears
<1>2. /\ StructureInv' /\ IsABag(net)' /\ IsABag(lost)'
      /\ casts' \in [Node -> [0 .. Top -> Nat]]
      /\ origin' \in Origins \cup {NoNode} /\ origin' # NoNode
      /\ RightMessages'
  BY <1>1, HandlerKeeps
<1>3. /\ NobodyClimbs(Pending \cup BagToSet(lost))
      /\ \E r \in Node : \A n \in Node : casts[n][Top] = IF n = r THEN 1 ELSE 0
  BY WhichPhase
<1>4. PICK r \in Node : \A n \in Node : casts[n][Top] = IF n = r THEN 1 ELSE 0
  BY <1>3
<1>5. \A n \in Node : casts'[n][Top] = IF n = r THEN 1 ELSE 0
  <2>1. Top \in 0 .. Top
    BY TopType
  <2>2. \A n \in Node : casts'[n][Top] = casts[n][Top]
    BY <2>1, SentCasts
  <2>3. QED BY <1>4, <2>2
<1>6. NobodyClimbs((Pending \cup BagToSet(lost))')
  <2>1. (Pending \cup BagToSet(lost))' \subseteq Pending \cup BagToSet(lost) \cup S
    <3>1. Pending' \subseteq Pending \cup S
      BY SentMessages DEF Pending
    <3>2. BagToSet(lost)' = BagToSet(lost)
      BY <1>1
    <3>3. QED BY <3>1, <3>2
  <2>2. QED BY <1>3, <2>1 DEF NobodyClimbs
<1>7. Phase'
  BY <1>5, <1>6 DEF Phase
<1>8. m.to \in Node /\ m.level \in 0 .. Top
  BY HandlerIsUp DEF RightMessage, Message
<1>9. heard' \in [Node -> [0 .. Top -> Nat]] /\ shown' \in [Node -> Nat]
  <2>1. heard' \in [Node -> [0 .. Top -> Nat]]
    BY <1>8, HeardUp DEF Hears, ClimbInv, Counters
  <2>2. shown' \in [Node -> Nat]
    <3>1. shown \in [Node -> Nat]
      BY DEF ClimbInv, Counters
    <3>2. [shown EXCEPT ![m.to] = @ + 1] \in [Node -> Nat]
      BY <1>8, <3>1, ShownUp
    <3>3. shown' = [shown EXCEPT ![m.to] = @ + 1] \/ shown' = shown
      BY DEF Hears, Shows
    <3>4. QED BY <3>1, <3>2, <3>3
  <2>3. QED BY <2>1, <2>2
<1>10. Counters'
  BY <1>2, <1>9 DEF Counters
<1>11. QED BY <1>2, <1>7, <1>10 DEF ClimbInv

\* What a packet's handler sends is right.
LEMMA PacketHandled ==
    ASSUME SameLimits, ClimbInv, NEW m \in Pending, Runs(m), ~ Climbing(m)
    PROVE  /\ m.level \in 0 .. Top /\ m.order \in Nat
           /\ \A x \in WithinRing(m.to, m.level, m.order) \cup Downwards(m.to, m.level - 1) :
                RightMessage(x) /\ ~ Climbing(x)
<1>1. m.to \in up /\ RightMessage(m) /\ StructureInv
  BY HandlerIsUp DEF ClimbInv
<1>2. m.level \in 0 .. Top
  BY <1>1 DEF RightMessage, Message
<1>3. m.order \in Nat /\ m.level - 1 \in -1 .. Top
  <2> DEFINE size == Width(m.level) * PerRegion(m.level)
  <2>1. m.order \in 1 .. size - 1
    BY <1>1 DEF RightMessage
  <2> HIDE DEF size
  <2>2. QED BY <1>2, <2>1, TopType
<1>4. \A x \in WithinRing(m.to, m.level, m.order) : RightMessage(x) /\ ~ Climbing(x)
  BY <1>1, <1>2, <1>3, PacketsRight
<1>5. \A x \in Downwards(m.to, m.level - 1) : RightMessage(x) /\ ~ Climbing(x)
  BY <1>1, <1>3, DownwardsRight
<1>6. QED BY <1>2, <1>3, <1>4, <1>5

LEMMA PassDownKeeps ==
    ASSUME SameLimits, ClimbInv, NEW m \in Pending, PassDown(m)
    PROVE  ClimbInv'
<1> DEFINE S == WithinRing(m.to, m.level, m.order) \cup Downwards(m.to, m.level - 1)
           L == 0 .. m.level - 1
<1>1. Runs(m) /\ ~ Climbing(m) /\ Sends(m, S, L) /\ Hears(m)
  BY DEF PassDown, Climbing, Down, UpFromBelow, UpSameLevel
<1>2. \A x \in S : RightMessage(x) /\ ~ Climbing(x)
  BY <1>1, PacketHandled
<1>3. Top \notin L
  <2>1. m.level \in 0 .. Top
    BY <1>1, PacketHandled
  <2>2. QED BY <2>1, TopType
<1> HIDE DEF S, L
<1>4. QED BY <1>1, <1>2, <1>3, PassKeeps

LEMMA PassOnKeeps ==
    ASSUME SameLimits, ClimbInv, NEW m \in Pending, PassOn(m)
    PROVE  ClimbInv'
<1> DEFINE S == WithinRing(m.to, m.level, m.order)
<1>1. Runs(m) /\ ~ Climbing(m) /\ Sends(m, S, {}) /\ Hears(m)
  BY DEF PassOn, Climbing, InRing, UpFromBelow, UpSameLevel
<1>2. \A x \in S : RightMessage(x) /\ ~ Climbing(x)
  BY <1>1, PacketHandled
<1> HIDE DEF S
<1>3. QED BY <1>1, <1>2, PassKeeps

\* With its only message lost a broadcast is over.
LEMMA LoseKeeps ==
    ASSUME ClimbInv, NEW m \in Pending, Lose(m)
    PROVE  ClimbInv'
<1>1. /\ m \in BagToSet(net)
      /\ net' = net (-) SetToBag({m}) /\ lost' = lost (+) SetToBag({m})
      /\ UNCHANGED <<hash, up, origin, calls, casts, heard, shown>>
  BY DEF Lose, BagIn
<1>2. /\ IsABag(net') /\ IsABag(lost')
      /\ BagToSet(net') = (IF net[m] = 1 THEN BagToSet(net) \ {m} ELSE BagToSet(net))
      /\ BagToSet(lost') = BagToSet(lost) \cup {m}
  <2>1. IsABag(net) /\ IsABag(lost)
    BY DEF ClimbInv, Counters
  <2>2. /\ IsABag(net (-) SetToBag({m}))
        /\ BagToSet(net (-) SetToBag({m})) =
                (IF net[m] = 1 THEN BagToSet(net) \ {m} ELSE BagToSet(net))
    BY <1>1, <2>1, BagMinus
  <2>3. /\ IsABag(lost (+) SetToBag({m}))
        /\ BagToSet(lost (+) SetToBag({m})) = BagToSet(lost) \cup {m}
    BY <2>1, BagPlus
  <2>4. QED BY <1>1, <2>2, <2>3
<1>3. StructureInv' /\ Counters' /\ origin' = origin /\ origin # NoNode
  BY <1>1, <1>2, StructureStays DEF ClimbInv, Counters, structureVars
<1>4. Pending' \subseteq Pending /\ m \in Pending
  BY <1>1, <1>2 DEF Pending
<1>5. RightMessages'
  <2>1. ASSUME NEW x \in (Pending \cup BagToSet(lost))' PROVE RightMessage(x)'
    <3>1. RightMessage(x)
      BY <1>2, <1>4, <2>1 DEF ClimbInv, RightMessages
    <3>2. QED BY <1>1, <3>1, RightStays
  <2>2. QED BY <1>1, <2>1 DEF ClimbInv, RightMessages
<1>6. Phase'
  <2>1. CASE Climbing(m)
    <3>1. Alone(m) /\ NothingCast
      BY <1>4, <2>1, WhichPhase
    <3>2. Pending' = {} /\ NothingCast'
      BY <1>1, <1>2, <3>1 DEF Alone, Pending, NothingCast
    <3>3. QED BY <3>2 DEF Phase
  <2>2. CASE ~ Climbing(m)
    <3>1. /\ NobodyClimbs(Pending \cup BagToSet(lost))
          /\ \E r \in Node : \A n \in Node : casts[n][Top] = IF n = r THEN 1 ELSE 0
      BY <1>4, <2>2, WhichPhase
    <3>2. NobodyClimbs((Pending \cup BagToSet(lost))')
      BY <1>2, <1>4, <3>1 DEF NobodyClimbs
    <3>3. QED BY <1>1, <3>1, <3>2 DEF Phase
  <2>3. QED BY <2>1, <2>2
<1>7. QED BY <1>3, <1>5, <1>6 DEF ClimbInv

LEMMA ClimbInvHolds == ASSUME SameLimits PROVE Spec => []ClimbInv
<1>1. Init => ClimbInv
  BY ClimbInvAtStart
<1>2. ClimbInv /\ [Next]_vars => ClimbInv'
  <2> SUFFICES ASSUME ClimbInv, [Next]_vars PROVE ClimbInv'
    OBVIOUS
  <2>1. CASE Start
    BY <2>1, StartKeeps
  <2>2. ASSUME NEW n \in Origins, Broadcast(n) PROVE ClimbInv'
    BY <2>2, BroadcastKeeps
  <2>3. ASSUME NEW m \in BagToSet(net) \cup calls, OnReceive(m) PROVE ClimbInv'
    <3>1. m \in Pending
      BY DEF Pending
    <3>2. QED BY <2>3, <3>1, ClimbKeeps, TurnKeeps, NeverStranded,
                 PassDownKeeps, PassOnKeeps DEF OnReceive
  <2>4. ASSUME NEW m \in BagToSet(net) \cup calls, Lose(m) PROVE ClimbInv'
    BY <2>4, LoseKeeps DEF Pending
  <2>5. CASE UNCHANGED vars
    <3>1. /\ UNCHANGED <<hash, up, origin, net, calls, casts, heard, shown, lost>>
          /\ up \subseteq up'
      BY <2>5 DEF vars, broadcastVars
    <3>2. Pending' = Pending /\ BagToSet(lost)' = BagToSet(lost)
      BY <3>1 DEF Pending
    <3>3. RightMessages'
      BY <3>1, <3>2, RightStays DEF ClimbInv, RightMessages
    <3>4. Phase'
      BY <3>1 DEF ClimbInv, Phase, Pending, NothingCast, Alone, NobodyClimbs
    <3>5. StructureInv' /\ Counters' /\ NothingCast' = NothingCast
      BY <3>1 DEF ClimbInv, StructureInv, Counters, NothingCast
    <3>6. QED BY <3>1, <3>2, <3>3, <3>4, <3>5 DEF ClimbInv
  <2>6. QED BY <2>1, <2>2, <2>3, <2>4, <2>5 DEF Next
<1>3. QED BY <1>1, <1>2, PTL DEF Spec

(***************************************************************************)
(* Types, and that a packet's order is one its sender's list can have: the *)
(* index into the list (broadcast_within_ring) is never out of range.      *)
(***************************************************************************)
THEOREM TypeCorrect ==
    ASSUME SameLimits PROVE Spec => []TypeOK
<1>1. ClimbInv => TypeOK
  <2> SUFFICES ASSUME ClimbInv PROVE TypeOK
    OBVIOUS
  <2>1. StructureInv /\ Counters /\ origin \in Origins \cup {NoNode}
    BY DEF ClimbInv
  <2>2. \A b \in {net, lost} : b \in [BagToSet(b) -> Nat \ {0}]
    BY <2>1 DEF Counters, IsABag, BagToSet
  <2>3. ASSUME NEW m \in BagToSet(net) \cup calls \cup BagToSet(lost)
        PROVE  /\ m \in Message
               /\ m.order \in IF Climbing(m) THEN {-1}
                              ELSE 1 .. get_peer_list_size(m.from, m.level)
    <3>1. RightMessage(m)
      BY <2>3 DEF ClimbInv, RightMessages, Pending
    <3>2. CASE Climbing(m)
      BY <3>1, <3>2 DEF RightMessage
    <3>3. CASE ~ Climbing(m)
      <4>1. /\ m \in Message /\ m.level \in 0 .. Top /\ m.from \in up
            /\ ResidesById(m.from, m.level)
            /\ m.order \in 1 .. Width(m.level) * PerRegion(m.level) - 1
        BY <3>1, <3>3 DEF RightMessage, Message
      <4>2. get_peer_list_size(m.from, m.level) = Width(m.level) * PerRegion(m.level) - 1
        BY <2>1, <4>1, OwnPlace
      <4>3. QED BY <3>3, <4>1, <4>2
    <3>4. QED BY <3>2, <3>3
  <2>4. QED BY <2>1, <2>2, <2>3 DEF TypeOK, StructureInv, Counters
<1>2. QED BY <1>1, ClimbInvHolds, PTL

(***************************************************************************)
(* A broadcast climbs through nodes that reside where its senders take     *)
(* them to reside, and one node, once, turns it around in the top ring     *)
(* before anything is cast (broadcast_up, peer_manager.cpp).               *)
(***************************************************************************)
THEOREM ClimbEnds ==
    ASSUME SameLimits PROVE Spec => []ClimbEndsAtTop
<1>1. ClimbInv => ClimbEndsAtTop
  <2> SUFFICES ASSUME ClimbInv PROVE ClimbEndsAtTop
    OBVIOUS
  <2>1. ASSUME NEW m \in Pending, Climbing(m), m.to \in up
        PROVE  is_contact_node(m.to, ClimbsTo(m))
    <3> DEFINE L == ClimbsTo(m)
    <3>1. L \in 0 .. Top /\ ResidesById(m.to, L + 1) /\ StructureInv
      BY <2>1 DEF ClimbInv, RightMessages, RightMessage
    <3> HIDE DEF L
    <3>2. ResidesById(m.to, L)
      BY <2>1, <3>1, ResidesBelow DEF StructureInv
    <3>3. QED BY <2>1, <3>1, <3>2, Answers DEF L
  <2>2. ASSUME NEW n \in Node, NEW l \in 0 .. Top, casts[n][l] > 0
        PROVE  \E r \in Node : Casters(Node, Top) = {r} /\ casts[r][Top] = 1
    <3>1. ~ NothingCast
      BY <2>2 DEF NothingCast
    <3>2. PICK r \in Node : \A x \in Node : casts[x][Top] = IF x = r THEN 1 ELSE 0
      BY <3>1 DEF ClimbInv, Phase
    <3>3. Casters(Node, Top) = {r} /\ casts[r][Top] = 1
      BY <3>2 DEF Casters
    <3>4. QED BY <3>3
  <2>3. QED BY <2>1, <2>2 DEF ClimbEndsAtTop, Pending
<1>2. QED BY <1>1, ClimbInvHolds, PTL

-----------------------------------------------------------------------------
(***************************************************************************)
(* One contact node per ring.  A node then has digits 0 up to the highest  *)
(* ring in which it resides, each cast is begun by the member with digit 0,*)
(* so that a member's order is its digit, and there is one packet that can *)
(* ever reach a node: the casts of all rings together are one tree.        *)
(***************************************************************************)
OneContact == Contacts = 1 /\ SameLimits

Root == [l \in 0 .. Top |-> 0]

\* broadcast_within_ring at n, by digits.
ChildStrides(n, l) == {s \in Strides : n[l] + s <= Width(l) - 1 /\ ~ (s <= n[l])}

Child(n, l, s) == [n EXCEPT ![l] = n[l] + s]

Packet(n, l, s) == [type |-> TypeAt(Child(n, l, s), l), level |-> l,
                    order |-> n[l] + s, from |-> n, to |-> Child(n, l, s)]

PacketsIn(n, l) == {Packet(n, l, s) : s \in ChildStrides(n, l)}

\* All packets there can be.
Packets == {p \in Message : ResidesById(p.from, p.level) /\ p \in PacketsIn(p.from, p.level)}

\* Residing is having digits 0 below.
LEMMA ZeroDigits ==
    ASSUME OneContact, NEW n \in Node, NEW l \in 0 .. Top + 1
    PROVE  ResidesById(n, l) <=> \A d \in 0 .. l - 1 : n[d] = 0
<1>1. Top \in 0 .. 5 /\ 0 \in 0 .. Top /\ n[0] \in Nat
  BY TopType, Digits
<1>2. n[0] < Contacts <=> n[0] = 0
  BY <1>1 DEF OneContact
<1>3. QED BY <1>1, <1>2 DEF ResidesById

LEMMA RootIsNode == ASSUME NEW n \in Node PROVE Root \in Node
<1>1. \A l \in 0 .. Top : Width(l) \in Nat /\ Width(l) > 0
  <2> SUFFICES ASSUME NEW l \in 0 .. Top PROVE Width(l) \in Nat /\ Width(l) > 0
    OBVIOUS
  <2>1. Width(l) \in Nat
    BY TopType, WidthType
  <2>2. n[l] \in Nat /\ n[l] < Width(l)
    BY Digits
  <2>3. QED BY <2>1, <2>2
<1>2. Root \in [0 .. Top -> Nat] /\ \A l \in 0 .. Top : Root[l] = 0
  BY DEF Root
<1>3. QED BY <1>1, <1>2, NodeIds

\* A member of a ring differs from another in one digit.
LEMMA ChildIsMember ==
    ASSUME OneContact, NEW n \in Node, NEW l \in 0 .. Top, ResidesById(n, l),
           NEW i \in 0 .. Width(l) - 1
    PROVE  /\ [n EXCEPT ![l] = i] \in RingById(n, l)
           /\ [n EXCEPT ![l] = i][l] = i
           /\ \A m \in RingById(n, l) : m[l] = i => m = [n EXCEPT ![l] = i]
<1> DEFINE x == [n EXCEPT ![l] = i]
<1>0. Top \in 0 .. 5 /\ l \in Nat /\ Width(l) \in Nat /\ i \in Nat /\ i < Width(l)
  <2>1. Top \in 0 .. 5 /\ l \in 0 .. 5
    BY TopType
  <2>2. Width(l) \in Nat
    BY <2>1, WidthType
  <2>3. QED BY <2>1, <2>2
<1>1. n \in [0 .. Top -> Nat] /\ \A d \in 0 .. Top : n[d] \in Nat /\ n[d] < Width(d)
  BY Digits
<1>2. /\ x \in [0 .. Top -> Nat] /\ x[l] = i
      /\ \A d \in 0 .. Top : d # l => x[d] = n[d]
  BY <1>0, <1>1
<1> HIDE DEF x
<1>3. x \in Node
  BY <1>0, <1>1, <1>2, NodeIds
<1>4. \A d \in 0 .. l - 1 : n[d] = 0
  BY <1>0, ZeroDigits
<1>5. x \in RingById(n, l)
  <2>1. x \in SameRegion(n, l)
    BY <1>0, <1>2, <1>3, RegionDigits
  <2>2. \A d \in 0 .. l - 1 : x[d] = 0
    BY <1>0, <1>2, <1>4
  <2>3. ResidesById(x, l)
    BY <1>0, <1>3, <2>2, ZeroDigits
  <2>4. QED BY <2>1, <2>3 DEF RingById
<1>6. ASSUME NEW m \in RingById(n, l), m[l] = i
      PROVE  m = x
  <2>1. m \in Node /\ ResidesById(m, l) /\ \A d \in l + 1 .. Top : m[d] = n[d]
    BY RegionDigits DEF RingById
  <2>2. \A d \in 0 .. l - 1 : m[d] = 0
    BY <1>0, <2>1, ZeroDigits
  <2>3. m \in [0 .. Top -> Nat]
    BY <2>1, Digits
  <2>4. ASSUME NEW d \in 0 .. Top PROVE m[d] = x[d]
    <3>1. CASE d \in 0 .. l - 1
      BY <1>0, <1>2, <1>4, <2>2, <3>1
    <3>2. CASE d = l
      BY <1>2, <1>6, <3>2
    <3>3. CASE d \in l + 1 .. Top
      BY <1>0, <1>2, <2>1, <3>3
    <3>4. QED BY <1>0, <3>1, <3>2, <3>3
  <2>5. QED BY <1>2, <2>3, <2>4, SameIds
<1>7. QED BY <1>2, <1>5, <1>6 DEF x

\* The list of a ring is in order of the digit, so a node is where its digit is.
LEMMA RingPlaces ==
    ASSUME OneContact, StructureInv, NEW n \in up,
           NEW l \in 0 .. Top, ResidesById(n, l)
    PROVE  /\ get_peer_list_size(n, l) = Width(l) - 1
           /\ get_node_id_in_vector(n, l) = n[l]
           /\ \A i \in 0 .. Width(l) - 1 : peer_list(n, l)[i + 1] = [n EXCEPT ![l] = i]
<1> DEFINE list == peer_list(n, l)
           here == get_node_id_in_vector(n, l)
<1>1. n \in Node /\ Top \in 0 .. 5 /\ Width(l) \in Nat /\ PerRegion(l) = 1 /\ SameLimits
  <2>1. Top \in 0 .. 5 /\ l \in 0 .. 5
    BY TopType
  <2>2. Width(l) \in Nat
    BY <2>1, WidthType
  <2>3. QED BY <2>1, <2>2 DEF StructureInv, PerRegion, OneContact
<1>2. /\ get_peer_list_size(n, l) = Len(list) - 1
      /\ Len(list) = Width(l) * PerRegion(l)
      /\ list \in Seq(Node) /\ ToSet(list) = RingById(n, l)
      /\ here \in 0 .. Len(list) - 1 /\ list[here + 1] = n
  BY <1>1, OwnPlace
<1>3. \A i \in 1 .. Width(l) * PerRegion(l) : list[i][l] = (i - 1) \div PerRegion(l)
  BY <1>1, Answers DEF RightRing, peer_list
<1> HIDE DEF list, here
<1>4. Width(l) * PerRegion(l) = Width(l)
  BY <1>1
<1>5. \A i \in 0 .. Width(l) - 1 : list[i + 1][l] = i /\ list[i + 1] \in RingById(n, l)
  <2> SUFFICES ASSUME NEW i \in 0 .. Width(l) - 1
               PROVE  list[i + 1][l] = i /\ list[i + 1] \in RingById(n, l)
    OBVIOUS
  <2>1. i + 1 \in 1 .. Width(l) /\ (i + 1) - 1 = i /\ i \in Nat
    BY <1>1
  <2>2. i \div 1 = i
    BY <2>1
  <2>3. list[i + 1][l] = i
    BY <1>1, <1>3, <1>4, <2>1, <2>2
  <2>4. QED BY <1>2, <1>4, <2>1, <2>3, Entries
<1>6. \A i \in 0 .. Width(l) - 1 : list[i + 1] = [n EXCEPT ![l] = i]
  BY <1>1, <1>5, ChildIsMember
<1>7. here = n[l]
  BY <1>2, <1>4, <1>5
<1>8. QED BY <1>2, <1>4, <1>6, <1>7 DEF list, here

\* A member that knows its digit for its order sends just the packets that the
\* tree has from it in its ring.
LEMMA WithinRingIs ==
    ASSUME OneContact, StructureInv, NEW n \in up,
           NEW l \in 0 .. Top, ResidesById(n, l)
    PROVE  WithinRing(n, l, n[l]) = PacketsIn(n, l)
<1> DEFINE end_ID == get_peer_list_size(n, l)
           here == get_node_id_in_vector(n, l)
           Receiver(s) == peer_list(n, l)[Wrap(here + s, end_ID) + 1]
           Sent(s) == [type |-> TypeAt(Receiver(s), l), level |-> l,
                       order |-> n[l] + s, from |-> n, to |-> Receiver(s)]
<1>1. /\ end_ID = Width(l) - 1 /\ here = n[l]
      /\ \A i \in 0 .. Width(l) - 1 : peer_list(n, l)[i + 1] = [n EXCEPT ![l] = i]
  BY RingPlaces
<1>2. n[l] \in Nat /\ n \in Node /\ Width(l) \in Nat
  <2>1. n \in Node
    BY DEF StructureInv
  <2>2. Width(l) \in Nat
    BY TopType, WidthType
  <2>3. QED BY <2>1, <2>2, Digits
<1>3. WithinRing(n, l, n[l]) =
        {Sent(s) : s \in {s \in Strides : n[l] + s <= end_ID /\ ~ (s <= n[l])}}
  BY DEF WithinRing
<1>4. {s \in Strides : n[l] + s <= end_ID /\ ~ (s <= n[l])} = ChildStrides(n, l)
  BY <1>1 DEF ChildStrides
<1>5. ASSUME NEW s \in ChildStrides(n, l) PROVE Sent(s) = Packet(n, l, s)
  <2>1. s \in Nat /\ n[l] + s \in 0 .. Width(l) - 1
    BY <1>2, StridesAssumption DEF ChildStrides
  <2>2. Wrap(here + s, end_ID) = n[l] + s
    BY <1>1, <1>2, <2>1 DEF Wrap
  <2>3. Receiver(s) = Child(n, l, s)
    BY <1>1, <2>1, <2>2 DEF Child
  <2>4. QED BY <2>3 DEF Packet
<1>6. QED BY <1>3, <1>4, <1>5 DEF PacketsIn

LEMMA DownwardsIs ==
    ASSUME OneContact, StructureInv, NEW n \in up,
           NEW l \in -1 .. Top, ResidesById(n, l + 1)
    PROVE  Downwards(n, l) = UNION {PacketsIn(n, j) : j \in 0 .. l}
<1>1. n \in Node /\ Top \in 0 .. 5 /\ l \in Int /\ l + 1 \in 0 .. Top + 1
  BY TopType DEF StructureInv
<1>2. \A d \in 0 .. l : n[d] = 0
  BY <1>1, ZeroDigits
<1>3. ASSUME NEW j \in 0 .. l PROVE WithinRing(n, j, 0) = PacketsIn(n, j)
  <2>1. j \in 0 .. Top /\ j \in 0 .. Top + 1 /\ n[j] = 0
    BY <1>1, <1>2
  <2>2. ResidesById(n, j)
    BY <1>1, <1>2, <2>1, ZeroDigits
  <2>3. WithinRing(n, j, n[j]) = PacketsIn(n, j)
    BY <2>1, <2>2, WithinRingIs
  <2>4. QED BY <2>1, <2>3
<1>4. QED BY <1>3 DEF Downwards

-----------------------------------------------------------------------------
(***************************************************************************)
(* The tree of packets.                                                    *)
(***************************************************************************)
\* In a ring the members' strides lead to members.
LEMMA ChildFacts ==
    ASSUME OneContact, NEW n \in Node, NEW l \in 0 .. Top, ResidesById(n, l),
           NEW s \in ChildStrides(n, l)
    PROVE  /\ s \in Nat \ {0} /\ s \in Strides /\ s > n[l] /\ n[l] \in Nat
           /\ n[l] + s \in 1 .. Width(l) - 1
           /\ Child(n, l, s) \in RingById(n, l) /\ Child(n, l, s)[l] = n[l] + s
           /\ TypeAt(Child(n, l, s), l) = IF l = 0 THEN InRing ELSE Down
<1>1. Width(l) \in Nat /\ n[l] \in Nat /\ Top \in 0 .. 5
  <2>1. Top \in 0 .. 5 /\ l \in 0 .. 5
    BY TopType
  <2>2. Width(l) \in Nat
    BY <2>1, WidthType
  <2>3. QED BY <2>1, <2>2, Digits
<1>2. /\ s \in Nat \ {0} /\ s \in Strides /\ s > n[l]
      /\ n[l] + s \in 1 .. Width(l) - 1
  BY <1>1, StridesAssumption DEF ChildStrides
<1>3. Child(n, l, s) \in RingById(n, l) /\ Child(n, l, s)[l] = n[l] + s
  <2>1. n[l] + s \in 0 .. Width(l) - 1
    BY <1>1, <1>2
  <2>2. QED BY <2>1, ChildIsMember DEF Child
<1>4. TypeAt(Child(n, l, s), l) = IF l = 0 THEN InRing ELSE Down
  <2>1. CASE l = 0
    BY <2>1 DEF TypeAt
  <2>2. CASE l # 0
    <3>1. Child(n, l, s) \in Node /\ ResidesById(Child(n, l, s), l)
      BY <1>3, SameRing
    <3>2. l \in 0 .. Top + 1 /\ 0 \in 0 .. l - 1
      BY <1>1, <2>2
    <3>3. Child(n, l, s)[0] = 0
      BY <3>1, <3>2, ZeroDigits
    <3>4. QED BY <2>2, <3>3 DEF TypeAt
  <2>3. QED BY <2>1, <2>2
<1>5. QED BY <1>1, <1>2, <1>3, <1>4

\* What the tree sends from a node.
LEMMA PacketsFrom ==
    ASSUME OneContact, NEW n \in Node, NEW h \in 0 .. Top,
           \A l \in 0 .. Top : ResidesById(n, l) <=> l <= h
    PROVE  {p \in Packets : p.from = n} = UNION {PacketsIn(n, l) : l \in 0 .. h}
<1>1. Top \in 0 .. 5
  BY TopType
<1>2. ASSUME NEW l \in 0 .. h, NEW p \in PacketsIn(n, l)
      PROVE  p \in Packets /\ p.from = n
  <2>1. l \in 0 .. Top /\ ResidesById(n, l)
    BY <1>1
  <2>2. PICK s \in ChildStrides(n, l) : p = Packet(n, l, s)
    BY <1>2 DEF PacketsIn
  <2>3. p.from = n /\ p.level = l
    BY <2>2 DEF Packet
  <2>4. p \in Message
    <3>1. /\ Child(n, l, s) \in Node /\ n[l] + s \in Int
          /\ TypeAt(Child(n, l, s), l) \in {InRing, Down}
      BY <2>1, ChildFacts, SameRing
    <3>2. QED BY <2>1, <2>2, <3>1 DEF Packet, Message
  <2>5. QED BY <1>2, <2>1, <2>3, <2>4 DEF Packets
<1>3. ASSUME NEW p \in Packets, p.from = n
      PROVE  \E l \in 0 .. h : p \in PacketsIn(n, l)
  <2>1. p.level \in 0 .. Top /\ ResidesById(n, p.level) /\ p \in PacketsIn(n, p.level)
    BY <1>3 DEF Packets, Message
  <2>2. p.level \in 0 .. h
    BY <1>1, <2>1
  <2>3. QED BY <2>1, <2>2
<1>4. QED BY <1>2, <1>3

\* Sender, receiver and level of a packet.
LEMMA PacketFacts ==
    ASSUME OneContact, NEW p \in Packets
    PROVE  /\ p \in Message /\ p.level \in 0 .. Top /\ p.from \in Node /\ p.to \in Node
           /\ ~ Climbing(p) /\ p.type = IF p.level = 0 THEN InRing ELSE Down
           /\ ResidesById(p.from, p.level) /\ p.to \in RingById(p.from, p.level)
           /\ p.order \in 1 .. Width(p.level) - 1 /\ p.to[p.level] = p.order
           /\ \E s \in ChildStrides(p.from, p.level) :
                p.order = p.from[p.level] + s /\ p = Packet(p.from, p.level, s)
           /\ p.from # p.to /\ p.to # Root
           /\ \A l \in 0 .. Top : ResidesById(p.to, l) <=> l <= p.level
           /\ \A l \in 0 .. Top + 1 : ResidesById(p.to, l) <=> l <= p.level
<1> DEFINE n == p.from
           L == p.level
<1>1. /\ p \in Message /\ L \in 0 .. Top /\ n \in Node /\ p.to \in Node
      /\ ResidesById(n, L) /\ p \in PacketsIn(n, L)
  BY DEF Packets, Message
<1> HIDE DEF n, L
<1>2. PICK s \in ChildStrides(n, L) : p = Packet(n, L, s)
  BY <1>1 DEF PacketsIn
<1>3. /\ s \in Nat \ {0} /\ n[L] \in Nat /\ n[L] + s \in 1 .. Width(L) - 1
      /\ Child(n, L, s) \in RingById(n, L) /\ Child(n, L, s)[L] = n[L] + s
      /\ TypeAt(Child(n, L, s), L) = IF L = 0 THEN InRing ELSE Down
  BY <1>1, ChildFacts
<1>4. /\ p.to = Child(n, L, s) /\ p.order = n[L] + s
      /\ p.type = IF L = 0 THEN InRing ELSE Down
  BY <1>2, <1>3 DEF Packet
<1>5. /\ p.to \in RingById(n, L) /\ p.to[L] = p.order
      /\ p.order \in 1 .. Width(L) - 1 /\ ResidesById(p.to, L)
  BY <1>3, <1>4, SameRing
<1>6. ~ Climbing(p)
  BY <1>4 DEF Climbing, UpFromBelow, UpSameLevel, Down, InRing
<1>7. n # p.to
  BY <1>3, <1>4, <1>5
<1>8. p.to # Root /\ p.to[L] # 0
  <2>1. p.order # 0
    BY <1>3, <1>4
  <2>2. Root[L] = 0
    BY <1>1 DEF Root
  <2>3. QED BY <1>5, <2>1, <2>2
<1>9. Top \in 0 .. 5 /\ L \in Nat
  BY <1>1, TopType
<1>10. \A l \in 0 .. Top + 1 : ResidesById(p.to, l) <=> l <= L
  <2> SUFFICES ASSUME NEW l \in 0 .. Top + 1 PROVE ResidesById(p.to, l) <=> l <= L
    OBVIOUS
  <2>1. \A d \in 0 .. L - 1 : p.to[d] = 0
    BY <1>1, <1>5, <1>9, ZeroDigits
  <2>2. ResidesById(p.to, l) <=> \A d \in 0 .. l - 1 : p.to[d] = 0
    BY <1>1, ZeroDigits
  <2>3. CASE l <= L
    BY <1>9, <2>1, <2>2, <2>3
  <2>4. CASE l > L
    BY <1>8, <1>9, <2>2, <2>4
  <2>5. QED BY <1>9, <2>3, <2>4
<1>11. \A l \in 0 .. Top : ResidesById(p.to, l) <=> l <= L
  BY <1>9, <1>10
<1>12. QED BY <1>1, <1>2, <1>4, <1>5, <1>6, <1>7, <1>8, <1>10, <1>11 DEF n, L

\* No node has two packets.
LEMMA PacketUnique ==
    ASSUME OneContact, NEW p \in Packets, NEW q \in Packets, p.to = q.to
    PROVE  p = q
<1> DEFINE n == p.from
           m == q.from
           L == p.level
           x == p.to
<1>1. /\ L \in 0 .. Top /\ n \in Node /\ ResidesById(n, L) /\ x \in RingById(n, L)
      /\ \A l \in 0 .. Top : ResidesById(x, l) <=> l <= L
  BY PacketFacts
<1>2. /\ q.level \in 0 .. Top /\ m \in Node
      /\ ResidesById(m, q.level) /\ x \in RingById(m, q.level)
      /\ \A l \in 0 .. Top : ResidesById(x, l) <=> l <= q.level
  BY PacketFacts
<1>3. q.level = L
  <2> DEFINE K == q.level
  <2>1. K \in 0 .. Top /\ \A l \in 0 .. Top : ResidesById(x, l) <=> l <= K
    BY <1>2
  <2> HIDE DEF K, L, x
  <2>2. Top \in 0 .. 5
    BY TopType
  <2>3. K <= L /\ L <= K
    BY <1>1, <2>1, <2>2
  <2>4. K = L
    BY <1>1, <2>1, <2>2, <2>3
  <2>5. QED BY <2>4 DEF K
<1>4. PICK s \in ChildStrides(n, L) : p.order = n[L] + s /\ p = Packet(n, L, s)
  BY PacketFacts
<1>5. PICK t \in ChildStrides(m, L) : q.order = m[L] + t /\ q = Packet(m, L, t)
  BY <1>3, PacketFacts
<1>6. p.order = q.order
  BY <1>3, PacketFacts
<1>7. /\ s \in Nat /\ s \in Strides /\ s > n[L] /\ n[L] \in Nat
      /\ t \in Nat /\ t \in Strides /\ t > m[L] /\ m[L] \in Nat
  BY <1>1, <1>2, <1>3, ChildFacts
<1>8. s = t /\ n[L] = m[L]
  <2> DEFINE a == n[L]
             b == m[L]
  <2>1. a + s = b + t /\ a \in Nat /\ b \in Nat /\ s > a /\ t > b
    BY <1>4, <1>5, <1>6, <1>7
  <2> HIDE DEF a, b
  <2>2. ~ s < t /\ ~ t < s
    BY <1>7, <2>1, StridesAssumption
  <2>3. s = t /\ a = b
    BY <1>7, <2>1, <2>2
  <2>4. QED BY <2>3 DEF a, b
<1>9. n = m
  <2>1. n \in RingById(x, L) /\ m \in RingById(x, L) /\ x \in Node /\ ResidesById(x, L)
    BY <1>1, <1>2, <1>3 DEF RingById, SameRegion
  <2>2. n[L] \in 0 .. Width(L) - 1
    <3>1. Width(L) \in Nat
      BY <1>1, TopType, WidthType
    <3>2. n[L] \in Nat /\ n[L] < Width(L)
      BY <1>1, Digits
    <3>3. QED BY <3>1, <3>2
  <2> DEFINE i == n[L]
  <2>3. i \in 0 .. Width(L) - 1 /\ n[L] = i /\ m[L] = i
    BY <1>8, <2>2
  <2> HIDE DEF i, n, m, x, L
  <2>4. \A y \in RingById(x, L) : y[L] = i => y = [x EXCEPT ![L] = i]
    BY <1>1, <2>1, <2>3, ChildIsMember
  <2>5. QED BY <2>1, <2>3, <2>4
<1>10. QED BY <1>4, <1>5, <1>8, <1>9

\* Every order of a ring is reached along some stride.
LEMMA StrideOf ==
    ASSUME NEW l \in 0 .. Top, NEW o \in 1 .. Width(l) - 1
    PROVE  \E s \in Strides : s <= o /\ o < 2 * s
<1> DEFINE c == IF l = 0 THEN 1 ELSE ContactLimit(l - 1)
           w == Width(l)
<1>1. l \in 0 .. 5 /\ l \in Nat
  BY TopType
<1>2. w \in Nat
  BY <1>1, WidthType
<1>3. c \in Nat \ {0}
  BY <1>1, ShapeAssumption DEF ContactLimit
<1>4. \A i \in 1 .. w * c - 1 : \E s \in Strides : s <= i /\ i < 2 * s
  BY StridesAssumption
<1>5. o \in 1 .. w * c - 1
  <2>1. o \in 1 .. w - 1
    OBVIOUS
  <2> HIDE DEF w, c
  <2>2. w * c \in Nat /\ w <= w * c
    <3>1. 1 * w <= c * w /\ c * w = w * c /\ 1 * w = w /\ w * c \in Nat
      BY <1>2, <1>3, ProductGrows
    <3>2. QED BY <3>1
  <2>3. QED BY <1>2, <2>1, <2>2
<1>6. QED BY <1>4, <1>5

\* Every node but the root has a packet.
LEMMA PacketExists ==
    ASSUME OneContact, NEW x \in Node, x # Root
    PROVE  \E p \in Packets : p.to = x
<1>0. Top \in 0 .. 5 /\ x \in [0 .. Top -> Nat]
  BY TopType, Digits
<1>1. \E l \in 0 .. Top : x[l] # 0
  <2> SUFFICES ASSUME \A l \in 0 .. Top : x[l] = 0 PROVE FALSE
    OBVIOUS
  <2>1. Root \in [0 .. Top -> Nat] /\ \A l \in 0 .. Top : Root[l] = 0
    BY DEF Root
  <2>2. QED BY <1>0, <2>1, SameIds
<1>2. PICK l \in 0 .. Top : x[l] # 0 /\ \A d \in 0 .. l - 1 : x[d] = 0
  <2> DEFINE Nonzero == {d \in 0 .. Top : x[d] # 0}
  <2>1. Nonzero \subseteq Nat /\ Nonzero # {}
    BY <1>0, <1>1
  <2>2. Min(Nonzero) \in Nonzero /\ \A y \in Nonzero : Min(Nonzero) <= y
    <3> HIDE DEF Nonzero
    <3> QED BY <2>1, LeastNatural
  <2> DEFINE first == Min(Nonzero)
  <2>3. first \in 0 .. Top /\ x[first] # 0 /\ \A d \in 0 .. Top : x[d] # 0 => first <= d
    BY <2>2
  <2> HIDE DEF first
  <2>4. \A d \in 0 .. first - 1 : x[d] = 0
    BY <1>0, <2>3
  <2>5. QED BY <2>3, <2>4
<1> DEFINE o == x[l]
           w == Width(l)
<1>3. w \in Nat /\ o \in Nat /\ o < w /\ o # 0 /\ l \in Nat /\ l \in 0 .. 5
  <2>1. l \in 0 .. 5
    BY <1>0
  <2>2. w \in Nat
    BY <2>1, WidthType
  <2>3. QED BY <1>2, <2>1, <2>2, Digits
<1>4. PICK s \in Strides : s <= o /\ o < 2 * s
  <2>1. o \in 1 .. w - 1
    <3> HIDE DEF o, w
    <3> QED BY <1>3
  <2>2. QED BY <2>1, StrideOf
<1>5. s \in Nat \ {0}
  BY StridesAssumption
<1>6. ResidesById(x, l)
  BY <1>0, <1>2, ZeroDigits
<1> DEFINE i == o - s
           n == [x EXCEPT ![l] = i]
<1>7. i \in 0 .. w - 1 /\ i \in Nat /\ i + s = o /\ s > i
  <2> HIDE DEF o, w
  <2> QED BY <1>3, <1>4, <1>5
<1>8. n \in RingById(x, l) /\ n[l] = i
  <2> HIDE DEF i
  <2> QED BY <1>2, <1>6, <1>7, ChildIsMember
<1> HIDE DEF n
<1>9. n \in Node /\ ResidesById(n, l) /\ x \in RingById(n, l)
  BY <1>6, <1>8, SameRing DEF RingById, SameRegion
<1>10. s \in ChildStrides(n, l) /\ n[l] + s = o
  <2> HIDE DEF o, i, w
  <2>1. n[l] + s <= w - 1
    BY <1>3, <1>7, <1>8
  <2>2. QED BY <1>5, <1>7, <1>8, <2>1 DEF ChildStrides, w
<1>11. Child(n, l, s) = x
  <2>1. Child(n, l, s) = [n EXCEPT ![l] = o]
    BY <1>10 DEF Child
  <2>2. o \in 0 .. Width(l) - 1
    BY <1>3
  <2> HIDE DEF o
  <2>3. \A m \in RingById(n, l) : m[l] = o => m = [n EXCEPT ![l] = o]
    BY <1>9, <2>2, ChildIsMember
  <2>4. QED BY <1>9, <2>1, <2>3 DEF o
<1>12. Packet(n, l, s) \in PacketsIn(n, l) /\ Packet(n, l, s).to = x
  BY <1>10, <1>11 DEF PacketsIn, Packet
<1>13. Packet(n, l, s) \in Packets
  <2>1. /\ Packet(n, l, s) \in Message
    <3>1. TypeAt(Child(n, l, s), l) \in {InRing, Down} /\ n[l] + s \in Int
      BY <1>9, <1>10, ChildFacts
    <3>2. QED BY <1>9, <1>11, <3>1 DEF Packet, Message
  <2>2. Packet(n, l, s).from = n /\ Packet(n, l, s).level = l
    BY DEF Packet
  <2>3. QED BY <1>9, <1>12, <2>1, <2>2 DEF Packets
<1>14. QED BY <1>12, <1>13

-----------------------------------------------------------------------------
(***************************************************************************)
(* The inductive invariant for one contact node.  What a packet's sender   *)
(* has shown is under way to its receiver, lost on the way to it, or shown *)
(* by it; a node has cast in the rings below its own and heard of the cast *)
(* in that one as often as it has shown; and before the root shows, the    *)
(* broadcast is climbing, or was lost doing so.                            *)
(***************************************************************************)
Copies(m, bag) == IF m \in BagToSet(bag) THEN bag[m] ELSE 0

Balanced ==
    \A p \in Packets :
        Copies(p, net) + Copies(p, lost) + shown[p.to] = shown[p.from]

CountsMatch ==
    \A n \in Node, l \in 0 .. Top :
        /\ casts[n][l] = IF ResidesById(n, l + 1) THEN shown[n] ELSE 0
        /\ heard[n][l] = IF ResidesById(n, l) /\ n[l] # 0 THEN shown[n] ELSE 0

Begun == \E n \in Node : shown[n] # 0

SomeoneClimbs == \E m \in Pending \cup BagToSet(lost) : Climbing(m)

TreeInv ==
    /\ \A n \in Node : shown[n] \in {0, 1}
    /\ \A m \in Pending \cup BagToSet(lost) : Climbing(m) \/ m \in Packets
    /\ \A m \in calls : Climbing(m)
    /\ Balanced
    /\ CountsMatch
    /\ Begun => shown[Root] = 1
    /\ SomeoneClimbs <=> origin # NoNode /\ ~ Begun
    /\ origin = NoNode => ~ Begun

LEMMA CopiesType ==
    ASSUME NEW b, IsABag(b), NEW x
    PROVE  Copies(x, b) \in Nat /\ (x \in BagToSet(b) <=> Copies(x, b) > 0)
  BY DEF Copies, IsABag, BagToSet

LEMMA PlusCopies ==
    ASSUME NEW b, IsABag(b), NEW S, NEW x
    PROVE  Copies(x, b (+) SetToBag(S)) = Copies(x, b) + (IF x \in S THEN 1 ELSE 0)
<1> DEFINE c == b (+) SetToBag(S)
<1>1. /\ BagToSet(c) = BagToSet(b) \cup S
      /\ \A y \in BagToSet(b) \cup S : c[y] =
                (IF y \in BagToSet(b) THEN b[y] ELSE 0) + (IF y \in S THEN 1 ELSE 0)
  BY BagPlus
<1>2. \A y \in BagToSet(b) : b[y] \in Nat
  BY DEF IsABag, BagToSet
<1> HIDE DEF c
<1>3. Copies(x, c) = Copies(x, b) + (IF x \in S THEN 1 ELSE 0)
  BY <1>1, <1>2 DEF Copies
<1>4. QED BY <1>3 DEF c

LEMMA MinusCopies ==
    ASSUME NEW b, IsABag(b), NEW m \in BagToSet(b), NEW x
    PROVE  Copies(x, b (-) SetToBag({m})) = Copies(x, b) - (IF x = m THEN 1 ELSE 0)
<1> DEFINE c == b (-) SetToBag({m})
<1>1. /\ BagToSet(c) = (IF b[m] = 1 THEN BagToSet(b) \ {m} ELSE BagToSet(b))
      /\ \A y \in BagToSet(c) : c[y] = IF y = m THEN b[y] - 1 ELSE b[y]
  BY BagMinus
<1>2. \A y \in BagToSet(b) : b[y] \in Nat
  BY DEF IsABag, BagToSet
<1> HIDE DEF c
<1>3. Copies(x, c) = Copies(x, b) - (IF x = m THEN 1 ELSE 0)
  BY <1>1, <1>2 DEF Copies
<1>4. QED BY <1>3 DEF c

\* What a handler takes from the network and adds to it.
LEMMA SentCopies ==
    ASSUME ClimbInv, NEW m \in Pending, Runs(m), NEW S, NEW L, Sends(m, S, L), NEW x
    PROVE  Copies(x, net') = Copies(x, net) - (IF x = m /\ m \notin calls THEN 1 ELSE 0)
                                + (IF x \in S /\ x.to # m.to THEN 1 ELSE 0)
<1> DEFINE others == S \ {y \in S : y.to = m.to}
           rest == IF m \in calls THEN net ELSE net (-) SetToBag({m})
<1>1. net' = rest (+) SetToBag(others)
  BY DEF Sends
<1>2. IsABag(net) /\ (m \notin calls => m \in BagToSet(net))
  BY HandlerIsUp DEF ClimbInv, Counters
<1>3. /\ IsABag(rest)
      /\ Copies(x, rest) = Copies(x, net) - (IF x = m /\ m \notin calls THEN 1 ELSE 0)
  <2>1. CASE m \in calls
    BY <1>2, <2>1, CopiesType
  <2>2. CASE m \notin calls
    <3>1. /\ IsABag(net (-) SetToBag({m}))
          /\ Copies(x, net (-) SetToBag({m})) = Copies(x, net) - (IF x = m THEN 1 ELSE 0)
      BY <1>2, <2>2, BagMinus, MinusCopies
    <3>2. rest = net (-) SetToBag({m})
      BY <2>2
    <3> HIDE DEF rest
    <3>3. QED BY <2>2, <3>1, <3>2
  <2>3. QED BY <2>1, <2>2
<1>4. x \in others <=> x \in S /\ x.to # m.to
  OBVIOUS
<1> HIDE DEF rest, others
<1>5. Copies(x, rest (+) SetToBag(others)) = Copies(x, rest) + (IF x \in others THEN 1 ELSE 0)
  BY <1>3, PlusCopies
<1>6. Copies(x, net') = Copies(x, rest) + (IF x \in others THEN 1 ELSE 0)
  BY <1>1, <1>5
<1>7. QED BY <1>3, <1>4, <1>6

-----------------------------------------------------------------------------
(***************************************************************************)
(* The steps of the tree.                                                  *)
(***************************************************************************)
\* Unchanged counters and unchanged copies of packets leave the tree as it is.
LEMMA TreeStays ==
    ASSUME TreeInv, UNCHANGED <<casts, heard, shown>>,
           \A p \in Packets : Copies(p, net') + Copies(p, lost')
                                = Copies(p, net) + Copies(p, lost)
    PROVE  /\ \A n \in Node : shown'[n] \in {0, 1}
           /\ Balanced' /\ CountsMatch' /\ Begun' = Begun
           /\ Begun' => shown'[Root] = 1
<1>1. \A n \in Node : shown'[n] \in {0, 1}
  BY DEF TreeInv
<1>2. Balanced'
  BY DEF TreeInv, Balanced
<1>3. CountsMatch' /\ Begun' = Begun
  BY DEF TreeInv, CountsMatch, Begun
<1>4. QED BY <1>1, <1>2, <1>3 DEF TreeInv

LEMMA TreeAtStart ==
    ASSUME OneContact, Init
    PROVE  TreeInv
<1>1. BagToSet(net) = {} /\ BagToSet(lost) = {} /\ calls = {} /\ origin = NoNode
  BY BagOfNone DEF Init
<1>2. /\ \A n \in Node : shown[n] = 0
      /\ \A n \in Node, l \in 0 .. Top : casts[n][l] = 0 /\ heard[n][l] = 0
  BY DEF Init
<1>3. Balanced
  BY <1>1, <1>2, PacketFacts DEF Balanced, Copies
<1>4. CountsMatch /\ ~ Begun /\ ~ SomeoneClimbs
  BY <1>1, <1>2 DEF CountsMatch, Begun, SomeoneClimbs, Pending
<1>5. QED BY <1>1, <1>2, <1>3, <1>4 DEF TreeInv, Pending

LEMMA TreeBroadcast ==
    ASSUME OneContact, ClimbInv, TreeInv, NEW n \in Origins, Broadcast(n)
    PROVE  TreeInv'
<1>1. PICK r \in get_contact_nodes(n, 0) :
        LET m == [type |-> UpSameLevel, level |-> 0, order |-> -1, from |-> n, to |-> r]
        IN  IF r = n THEN calls' = {m} /\ UNCHANGED net
                     ELSE net' = SetToBag({m}) /\ UNCHANGED calls
  BY DEF Broadcast
<1> DEFINE m == [type |-> UpSameLevel, level |-> 0, order |-> -1, from |-> n, to |-> r]
<1>2. /\ origin = NoNode /\ origin' = n /\ n \in up
      /\ UNCHANGED <<hash, up, casts, heard, shown, lost>>
  BY DEF Broadcast
<1>3. Climbing(m)
  BY DEF Climbing
<1> HIDE DEF m
<1>4. BagToSet(net) = {} /\ calls = {} /\ BagToSet(lost) = {}
  BY <1>2 DEF ClimbInv, Pending
<1>5. /\ Pending' = {m} /\ BagToSet(net') \subseteq {m} /\ calls' \subseteq {m}
      /\ BagToSet(lost') = {}
  <2>1. CASE r = n
    <3>1. calls' = {m} /\ net' = net
      BY <1>1, <2>1 DEF m
    <3>2. BagToSet(net') = {} /\ BagToSet(lost') = {}
      BY <1>2, <1>4, <3>1
    <3>3. QED BY <3>1, <3>2 DEF Pending
  <2>2. CASE r # n
    <3>1. net' = SetToBag({m}) /\ calls' = {}
      BY <1>1, <1>4, <2>2 DEF m
    <3>2. BagToSet(net') = {m} /\ BagToSet(lost') = {}
      BY <1>2, <1>4, <3>1, BagOfOne
    <3>3. QED BY <3>1, <3>2 DEF Pending
  <2>3. QED BY <2>1, <2>2
<1>6. ASSUME NEW p \in Packets
      PROVE  Copies(p, net') + Copies(p, lost') = Copies(p, net) + Copies(p, lost)
  <2>1. p # m
    BY <1>3, PacketFacts
  <2>2. Copies(p, net') = 0 /\ Copies(p, net) = 0 /\ lost' = lost
    BY <1>2, <1>4, <1>5, <2>1 DEF Copies
  <2>3. QED BY <2>2
<1>7. /\ \A x \in Node : shown'[x] \in {0, 1}
      /\ Balanced' /\ CountsMatch' /\ Begun' = Begun
      /\ Begun' => shown'[Root] = 1
  BY <1>2, <1>6, TreeStays
<1>8. ~ Begun' /\ SomeoneClimbs' /\ origin' # NoNode
  <2>1. n # NoNode
    BY BroadcastAssumption
  <2>2. QED BY <1>2, <1>3, <1>5, <1>7, <2>1 DEF TreeInv, SomeoneClimbs
<1>9. QED BY <1>3, <1>5, <1>7, <1>8 DEF TreeInv

LEMMA TreeClimb ==
    ASSUME OneContact, ClimbInv, TreeInv, NEW m \in Pending, Climb(m)
    PROVE  TreeInv'
<1>1. PICK r \in get_contact_nodes(m.to, ClimbsTo(m) + 1) :
        Sends(m, {[type |-> UpFromBelow, level |-> ClimbsTo(m), order |-> -1,
                   from |-> m.to, to |-> r]}, {})
  BY DEF Climb
<1> DEFINE x == [type |-> UpFromBelow, level |-> ClimbsTo(m), order |-> -1,
                 from |-> m.to, to |-> r]
<1>2. /\ Runs(m) /\ Climbing(m)
      /\ UNCHANGED <<hash, up, origin, heard, shown, lost>>
  BY DEF Climb
<1>3. Climbing(x) /\ Sends(m, {x}, {})
  BY <1>1 DEF Climbing
<1> HIDE DEF x
<1>4. Alone(m)
  BY <1>2, WhichPhase
<1>5. Pending' = {x} /\ BagToSet(lost') = BagToSet(lost)
  BY <1>2, <1>3, <1>4, SentMessages
<1>6. casts' = casts
  <2>1. casts' \in [Node -> [0 .. Top -> Nat]] /\ casts \in [Node -> [0 .. Top -> Nat]]
    BY <1>2, <1>3, SentCasts DEF ClimbInv, Counters
  <2>2. \A n \in Node, l \in 0 .. Top : casts'[n][l] = casts[n][l]
    BY <1>2, <1>3, SentCasts
  <2>3. \A n \in Node : casts'[n] = casts[n]
    <3> DEFINE D == 0 .. Top
    <3> HIDE DEF D
    <3>1. \A f, g \in [D -> Nat] : (\A d \in D : f[d] = g[d]) => f = g
      OBVIOUS
    <3>2. QED BY <2>1, <2>2, <3>1 DEF D
  <2>4. QED BY <2>1, <2>3
<1>7. ASSUME NEW p \in Packets
      PROVE  Copies(p, net') + Copies(p, lost') = Copies(p, net) + Copies(p, lost)
  <2>1. p # m /\ p # x
    BY <1>2, <1>3, PacketFacts
  <2>2. Copies(p, net') = Copies(p, net) - 0 + 0 /\ lost' = lost
    BY <1>2, <1>3, <2>1, SentCopies
  <2>3. Copies(p, net) \in Nat
    BY CopiesType DEF ClimbInv, Counters
  <2>4. QED BY <2>2, <2>3
<1>8. /\ \A n \in Node : shown'[n] \in {0, 1}
      /\ Balanced' /\ CountsMatch' /\ Begun' = Begun
      /\ Begun' => shown'[Root] = 1
  BY <1>2, <1>6, <1>7, TreeStays
<1>9. SomeoneClimbs /\ SomeoneClimbs'
  BY <1>2, <1>3, <1>5 DEF SomeoneClimbs
<1>10. \A c \in calls' : Climbing(c)
  BY <1>3, <1>5 DEF Pending
<1>11. \A c \in Pending' \cup BagToSet(lost') : Climbing(c) \/ c \in Packets
  BY <1>3, <1>5 DEF TreeInv
<1>12. origin' = origin
  BY <1>2
<1>13. QED BY <1>8, <1>9, <1>10, <1>11, <1>12 DEF TreeInv

LEMMA TreeLose ==
    ASSUME ClimbInv, TreeInv, NEW m \in Pending, Lose(m)
    PROVE  TreeInv'
<1>1. /\ m \in BagToSet(net)
      /\ net' = net (-) SetToBag({m}) /\ lost' = lost (+) SetToBag({m})
      /\ UNCHANGED <<hash, up, origin, calls, casts, heard, shown>>
  BY DEF Lose, BagIn
<1>2. IsABag(net) /\ IsABag(lost)
  BY DEF ClimbInv, Counters
<1>3. /\ BagToSet(net') = (IF net[m] = 1 THEN BagToSet(net) \ {m} ELSE BagToSet(net))
      /\ BagToSet(lost') = BagToSet(lost) \cup {m}
  <2>1. /\ BagToSet(net (-) SetToBag({m})) =
                (IF net[m] = 1 THEN BagToSet(net) \ {m} ELSE BagToSet(net))
    BY <1>1, <1>2, BagMinus
  <2>2. BagToSet(lost (+) SetToBag({m})) = BagToSet(lost) \cup {m}
    BY <1>2, BagPlus
  <2>3. QED BY <1>1, <2>1, <2>2
<1>4. Pending' \cup BagToSet(lost') = Pending \cup BagToSet(lost)
  BY <1>1, <1>3 DEF Pending
<1>5. ASSUME NEW p \in Packets
      PROVE  Copies(p, net') + Copies(p, lost') = Copies(p, net) + Copies(p, lost)
  <2>1. Copies(p, net') = Copies(p, net) - (IF p = m THEN 1 ELSE 0)
    BY <1>1, <1>2, MinusCopies
  <2>2. Copies(p, lost') = Copies(p, lost) + (IF p \in {m} THEN 1 ELSE 0)
    BY <1>1, <1>2, PlusCopies
  <2>3. Copies(p, net) \in Nat /\ Copies(p, lost) \in Nat
    BY <1>2, CopiesType
  <2>4. QED BY <2>1, <2>2, <2>3
<1>6. /\ \A n \in Node : shown'[n] \in {0, 1}
      /\ Balanced' /\ CountsMatch' /\ Begun' = Begun
      /\ Begun' => shown'[Root] = 1
  BY <1>1, <1>5, TreeStays
<1>7. SomeoneClimbs' = SomeoneClimbs
  BY <1>4 DEF SomeoneClimbs
<1>8. QED BY <1>1, <1>4, <1>6, <1>7 DEF TreeInv

\* The climb ends at the root, which sends the packets the tree has from it.
LEMMA TreeTurn ==
    ASSUME OneContact, ClimbInv, TreeInv, NEW m \in Pending, TurnDown(m)
    PROVE  TreeInv'
<1> DEFINE L == ClimbsTo(m)
           S == {p \in Packets : p.from = Root}
<1>1. /\ Runs(m) /\ Climbing(m) /\ Sends(m, Downwards(m.to, L), 0 .. L) /\ Shows(m)
      /\ UNCHANGED <<hash, up, origin, heard, lost>>
      /\ get_contact_nodes(m.to, L + 1) = {}
  BY DEF TurnDown
<1>2. m.to \in up /\ m.to \in Node /\ RightMessage(m) /\ StructureInv /\ SameLimits
  BY <1>1, HandlerIsUp DEF ClimbInv, OneContact
<1>3. L = Top /\ Top \in 0 .. 5
  BY <1>1, <1>2, ClimbKnows, TopType
<1>4. ResidesById(m.to, Top + 1)
  BY <1>1, <1>2, <1>3 DEF RightMessage
<1> HIDE DEF L
<1>5. m.to = Root /\ Root \in Node
  <2>1. \A d \in 0 .. Top : m.to[d] = 0
    <3>1. Top + 1 \in 0 .. Top + 1 /\ 0 .. (Top + 1) - 1 = 0 .. Top
      BY <1>3
    <3>2. QED BY <1>2, <1>4, <3>1, ZeroDigits
  <2>2. m.to \in [0 .. Top -> Nat]
    BY <1>2, Digits
  <2>3. Root \in [0 .. Top -> Nat] /\ \A d \in 0 .. Top : Root[d] = 0
    BY DEF Root
  <2>4. m.to = Root
    <3> HIDE DEF S
    <3>1. \A d \in 0 .. Top : m.to[d] = Root[d]
      BY <2>1, <2>3
    <3>2. QED BY <2>2, <2>3, <3>1, SameIds
  <2>5. QED BY <1>2, <2>4
<1>6. \A l \in 0 .. Top + 1 : ResidesById(Root, l)
  <2>1. \A l \in 0 .. Top + 1 : \A d \in 0 .. l - 1 : Root[d] = 0
    BY <1>3 DEF Root
  <2>2. QED BY <1>5, <2>1, ZeroDigits
<1>7. Downwards(m.to, L) = S
  <2>1. Downwards(Root, Top) = UNION {PacketsIn(Root, j) : j \in 0 .. Top}
    <3>1. Top \in -1 .. Top
      BY <1>3
    <3>2. QED BY <1>2, <1>4, <1>5, <3>1, DownwardsIs
  <2>2. S = UNION {PacketsIn(Root, j) : j \in 0 .. Top}
    <3>1. Top \in 0 .. Top /\ \A l \in 0 .. Top : ResidesById(Root, l) <=> l <= Top
      BY <1>3, <1>6
    <3>2. QED BY <1>5, <3>1, PacketsFrom
  <2>3. QED BY <1>3, <1>5, <2>1, <2>2
<1> DEFINE levels == 0 .. Top
<1>8. Sends(m, S, levels)
  BY <1>1, <1>3, <1>7
<1>9. \A p \in S : p \in Packets /\ p.from = Root /\ p.to # Root
  BY PacketFacts
<1>10. /\ \A n \in Node, l \in 0 .. Top : casts'[n][l] =
                IF n = m.to /\ l \in levels THEN casts[n][l] + 1 ELSE casts[n][l]
  <2> HIDE DEF levels, S
  <2> QED BY <1>1, <1>8, SentCasts
<1> HIDE DEF S
<1>11. Alone(m) /\ NobodyClimbs(BagToSet(lost))
  BY <1>1, WhichPhase
<1>12. /\ Pending' = S
       /\ \A x \in calls' : x \in calls \/ x.to = m.to
  <2> HIDE DEF levels
  <2> QED BY <1>1, <1>8, <1>11, SentMessages
<1>13. ~ Begun /\ origin # NoNode /\ shown \in [Node -> Nat]
  BY <1>1 DEF TreeInv, SomeoneClimbs, ClimbInv, Counters
<1>14. /\ \A n \in Node : shown[n] = 0
       /\ \A n \in Node : shown'[n] = IF n = Root THEN 1 ELSE 0
  <2>1. \A n \in Node : shown[n] = 0
    BY <1>13 DEF Begun
  <2>2. shown' = [shown EXCEPT ![Root] = @ + 1]
    BY <1>1, <1>5 DEF Shows
  <2>3. \A n \in Node : shown'[n] = IF n = Root THEN shown[n] + 1 ELSE shown[n]
    BY <1>5, <1>13, <2>2, ShownUp
  <2>4. QED BY <2>1, <2>3
<1>15. ASSUME NEW p \in Packets
       PROVE  Copies(p, net') + Copies(p, lost') + shown'[p.to] = shown'[p.from]
  <2>1. p.to \in Node /\ p.from \in Node /\ p.to # Root /\ p # m
    BY <1>1, PacketFacts
  <2>2. Copies(p, net') = Copies(p, net) - 0 + (IF p \in S /\ p.to # m.to THEN 1 ELSE 0)
    <3> HIDE DEF levels
    <3> QED BY <1>1, <1>8, <2>1, SentCopies
  <2>3. Copies(p, net) \in Nat /\ Copies(p, lost) \in Nat /\ lost' = lost
    BY <1>1, CopiesType DEF ClimbInv, Counters
  <2>4. Copies(p, net) + Copies(p, lost) + shown[p.to] = shown[p.from]
    BY DEF TreeInv, Balanced
  <2>5. Copies(p, net) = 0 /\ Copies(p, lost) = 0
    BY <1>14, <2>1, <2>3, <2>4
  <2>6. p \in S <=> p.from = Root
    BY DEF S
  <2>7. Copies(p, net') = IF p.from = Root THEN 1 ELSE 0
    BY <1>5, <2>1, <2>2, <2>5, <2>6
  <2>8. shown'[p.to] = 0 /\ shown'[p.from] = IF p.from = Root THEN 1 ELSE 0
    BY <1>14, <2>1
  <2>9. QED BY <2>3, <2>5, <2>7, <2>8
<1>16. CountsMatch'
  <2> SUFFICES ASSUME NEW n \in Node, NEW l \in 0 .. Top
               PROVE  /\ casts'[n][l] = IF ResidesById(n, l + 1) THEN shown'[n] ELSE 0
                      /\ heard'[n][l] =
                            IF ResidesById(n, l) /\ n[l] # 0 THEN shown'[n] ELSE 0
    BY DEF CountsMatch
  <2>1. casts[n][l] = 0 /\ heard[n][l] = 0
    BY <1>14 DEF TreeInv, CountsMatch
  <2>2. CASE n = Root
    <3>1. casts'[n][l] = 1
      BY <1>5, <1>10, <2>1, <2>2
    <3>2. ResidesById(n, l + 1) /\ n[l] = 0
      BY <1>3, <1>6, <2>2 DEF Root
    <3>3. heard' = heard
      BY <1>1
    <3>4. QED BY <1>14, <2>1, <2>2, <3>1, <3>2, <3>3
  <2>3. CASE n # Root
    <3>1. casts'[n][l] = 0 /\ heard' = heard
      BY <1>1, <1>5, <1>10, <2>1, <2>3
    <3>2. QED BY <1>14, <2>1, <2>3, <3>1
  <2>4. QED BY <2>2, <2>3
<1>17. /\ \A x \in Pending' \cup BagToSet(lost') : ~ Climbing(x) /\ x \in Packets
       /\ calls' = {}
  <2>1. \A x \in S : ~ Climbing(x) /\ x \in Packets
    BY <1>9, PacketFacts
  <2>2. \A x \in BagToSet(lost') : ~ Climbing(x) /\ x \in Packets
    BY <1>1, <1>11 DEF NobodyClimbs, TreeInv
  <2>3. ASSUME NEW x \in calls' PROVE FALSE
    <3>1. x \in S
      BY <1>12 DEF Pending
    <3>2. x \notin calls
      BY <2>1, <3>1 DEF TreeInv
    <3>3. x.to = Root
      BY <1>5, <1>12, <3>2
    <3>4. QED BY <1>9, <3>1, <3>3
  <2>4. QED BY <1>12, <2>1, <2>2, <2>3
<1>18. ~ SomeoneClimbs'
  BY <1>17 DEF SomeoneClimbs
<1>19. Begun' /\ shown'[Root] = 1 /\ origin' # NoNode
  BY <1>1, <1>5, <1>13, <1>14 DEF Begun
<1>20. \A n \in Node : shown'[n] \in {0, 1}
  BY <1>14
<1>21. Balanced'
  BY <1>15 DEF Balanced
<1>22. QED BY <1>16, <1>17, <1>18, <1>19, <1>20, <1>21 DEF TreeInv

\* A packet that has arrived: what its sender shows is under way to it no more,
\* what it shows is under way to those it sends to.
LEMMA TreePass ==
    ASSUME OneContact, ClimbInv, TreeInv, NEW m \in Pending, Runs(m), m \in Packets,
           NEW S, \A p : p \in S <=> p \in Packets /\ p.from = m.to,
           NEW levels, \A l \in 0 .. Top : l \in levels <=> l < m.level,
           Sends(m, S, levels), Hears(m)
    PROVE  TreeInv'
<1> DEFINE h == m.level
           x == m.to
           y == m.from
<1>1. /\ h \in 0 .. Top /\ x \in Node /\ y \in Node /\ x # y /\ x # Root
      /\ ~ Climbing(m) /\ ResidesById(y, h) /\ x[h] # 0
      /\ \A l \in 0 .. Top + 1 : ResidesById(x, l) <=> l <= h
  <2>1. m.order \in 1 .. Width(h) - 1 /\ x[h] = m.order
    BY PacketFacts
  <2> HIDE DEF h
  <2>2. x[h] # 0
    BY <2>1
  <2>3. QED BY <2>2, PacketFacts DEF h
<1>2. /\ UNCHANGED <<hash, up, origin, lost>>
      /\ heard' = [heard EXCEPT ![x][h] = @ + 1]
      /\ IF h = get_top_level(x) THEN Shows(m) ELSE UNCHANGED shown
  BY DEF Hears
<1>3. /\ shown \in [Node -> Nat] /\ heard \in [Node -> [0 .. Top -> Nat]]
      /\ IsABag(net) /\ IsABag(lost) /\ origin # NoNode
      /\ \A n \in Node : shown[n] \in {0, 1}
  BY DEF ClimbInv, Counters, TreeInv
<1>4. m \notin calls /\ Copies(m, net) = 1 /\ Copies(m, lost) = 0
      /\ shown[x] = 0 /\ shown[y] = 1
  <2>1. m \notin calls
    BY <1>1 DEF TreeInv
  <2>2. m \in BagToSet(net)
    BY <2>1 DEF Pending
  <2>3. Copies(m, net) \in Nat /\ Copies(m, net) > 0 /\ Copies(m, lost) \in Nat
    BY <1>3, <2>2, CopiesType
  <2>4. Copies(m, net) + Copies(m, lost) + shown[x] = shown[y]
    BY DEF TreeInv, Balanced
  <2>5. shown[x] \in {0, 1} /\ shown[y] \in {0, 1}
    BY <1>1, <1>3
  <2>6. QED BY <2>1, <2>3, <2>4, <2>5
<1>5. get_top_level(x) = h
  <2>1. x \in up
    BY <1>4 DEF Runs
  <2>2. /\ get_top_level(x) \in 0 .. Top
        /\ \A l \in 0 .. Top : l <= get_top_level(x) <=> ResidesById(x, l)
    BY <2>1, Answers DEF ClimbInv, OneContact
  <2> DEFINE t == get_top_level(x)
  <2> HIDE DEF t, h, x
  <2>3. /\ t \in 0 .. Top /\ h \in 0 .. Top /\ Top \in 0 .. 5
        /\ \A l \in 0 .. Top : l <= t <=> ResidesById(x, l)
        /\ \A l \in 0 .. Top : ResidesById(x, l) <=> l <= h
    <3>1. Top \in 0 .. 5
      BY TopType
    <3>2. \A l \in 0 .. Top : l \in 0 .. Top + 1
      BY <3>1
    <3>3. QED BY <1>1, <2>2, <3>1, <3>2 DEF t
  <2>4. t <= h /\ h <= t
    BY <2>3
  <2>5. QED BY <2>3, <2>4 DEF t
<1>6. \A n \in Node : shown'[n] = IF n = x THEN 1 ELSE shown[n]
  <2>1. shown' = [shown EXCEPT ![x] = @ + 1]
    BY <1>2, <1>5 DEF Shows
  <2>2. \A n \in Node : shown'[n] = IF n = x THEN shown[n] + 1 ELSE shown[n]
    BY <1>1, <1>3, <2>1, ShownUp
  <2>3. QED BY <1>4, <2>2
<1>7. \A n \in Node, l \in 0 .. Top :
        /\ casts'[n][l] = IF n = x /\ l \in levels THEN casts[n][l] + 1 ELSE casts[n][l]
        /\ heard'[n][l] = IF n = x /\ l = h THEN heard[n][l] + 1 ELSE heard[n][l]
  <2>1. \A n \in Node, l \in 0 .. Top :
            casts'[n][l] = IF n = x /\ l \in levels THEN casts[n][l] + 1 ELSE casts[n][l]
    BY SentCasts
  <2>2. \A n \in Node, l \in 0 .. Top :
            heard'[n][l] = IF n = x /\ l = h THEN heard[n][l] + 1 ELSE heard[n][l]
    <3> HIDE DEF x, h
    <3> QED BY <1>1, <1>2, <1>3, HeardUp
  <2> HIDE DEF x, h
  <2>3. QED BY <2>1, <2>2, Zenon
<1>8. ASSUME NEW p \in Packets
      PROVE  Copies(p, net') + Copies(p, lost') + shown'[p.to] = shown'[p.from]
  <2>1. p.to \in Node /\ p.from \in Node /\ p.from # p.to
    BY PacketFacts
  <2>2. Copies(p, net') = Copies(p, net) - (IF p = m THEN 1 ELSE 0)
                            + (IF p \in S /\ p.to # x THEN 1 ELSE 0)
    BY <1>4, SentCopies
  <2>3. Copies(p, net) \in Nat /\ Copies(p, lost) \in Nat /\ lost' = lost
    BY <1>2, <1>3, CopiesType
  <2>4. Copies(p, net) + Copies(p, lost) + shown[p.to] = shown[p.from]
    BY DEF TreeInv, Balanced
  <2>5. shown[p.to] \in {0, 1} /\ shown[p.from] \in {0, 1}
    BY <1>3, <2>1
  <2>6. p \in S <=> p.from = x
    OBVIOUS
  <2>7. CASE p = m
    BY <1>1, <1>4, <1>6, <2>1, <2>2, <2>3, <2>6, <2>7
  <2>8. CASE p # m /\ p.from = x
    <3>1. p.to # x
      BY <2>1, <2>8
    <3>2. Copies(p, net') = Copies(p, net) + 1
      BY <2>2, <2>3, <2>6, <2>8, <3>1
    <3>3. shown'[p.to] = shown[p.to] /\ shown'[p.from] = 1 /\ shown[p.from] = 0
      BY <1>4, <1>6, <2>1, <2>8, <3>1
    <3>4. QED BY <2>3, <2>4, <2>5, <3>2, <3>3
  <2>9. CASE p # m /\ p.from # x
    <3>1. p.to # x
      BY <2>9, PacketUnique
    <3>2. shown'[p.to] = shown[p.to] /\ shown'[p.from] = shown[p.from]
      BY <1>6, <2>1, <2>9, <3>1
    <3>3. Copies(p, net') = Copies(p, net)
      BY <2>2, <2>3, <2>6, <2>9
    <3>4. QED BY <2>3, <2>4, <3>2, <3>3
  <2>10. QED BY <2>7, <2>8, <2>9
<1>9. CountsMatch'
  <2> SUFFICES ASSUME NEW n \in Node, NEW l \in 0 .. Top
               PROVE  /\ casts'[n][l] = IF ResidesById(n, l + 1) THEN shown'[n] ELSE 0
                      /\ heard'[n][l] =
                            IF ResidesById(n, l) /\ n[l] # 0 THEN shown'[n] ELSE 0
    BY DEF CountsMatch
  <2>1. /\ casts[n][l] = IF ResidesById(n, l + 1) THEN shown[n] ELSE 0
        /\ heard[n][l] = IF ResidesById(n, l) /\ n[l] # 0 THEN shown[n] ELSE 0
    BY DEF TreeInv, CountsMatch
  <2>2. CASE n # x
    BY <1>6, <1>7, <2>1, <2>2
  <2>3. CASE n = x
    <3>1. Top \in 0 .. 5 /\ h \in Nat /\ l \in Nat
      BY <1>1, TopType
    <3>2. casts[n][l] = 0 /\ heard[n][l] = 0 /\ shown'[n] = 1
      BY <1>4, <1>6, <2>1, <2>3
    <3>3. ResidesById(n, l + 1) <=> l \in levels
      <4>1. l + 1 \in 0 .. Top + 1 /\ (l \in levels <=> l < h)
        BY <3>1
      <4>2. ResidesById(n, l + 1) <=> l + 1 <= h
        BY <1>1, <2>3, <4>1
      <4> HIDE DEF h
      <4>3. l + 1 <= h <=> l < h
        BY <3>1
      <4>4. QED BY <4>1, <4>2, <4>3
    <3>4. ResidesById(n, l) /\ n[l] # 0 <=> l = h
      <4>1. l \in 0 .. Top + 1
        BY <3>1
      <4>2. ResidesById(n, l) <=> l <= h
        BY <1>1, <2>3, <4>1
      <4>3. CASE l = h
        BY <1>1, <2>3, <4>2, <4>3, <3>1
      <4>4. CASE l < h
        <5>1. h \in 0 .. Top + 1 /\ l \in 0 .. h - 1
          BY <1>1, <3>1, <4>4
        <5>2. ResidesById(n, h)
          BY <1>1, <2>3, <3>1, <5>1
        <5>3. n[l] = 0
          BY <5>1, <5>2, ZeroDigits
        <5>4. QED BY <3>1, <4>4, <5>3
      <4>5. CASE l > h
        BY <3>1, <4>2, <4>5
      <4> HIDE DEF h
      <4>6. QED BY <3>1, <4>3, <4>4, <4>5
    <3>5. QED BY <1>7, <2>3, <3>2, <3>3, <3>4
  <2>4. QED BY <2>2, <2>3
<1>10. Begun /\ Begun' /\ shown'[Root] = 1
  <2>1. Begun /\ shown[Root] = 1
    BY <1>1, <1>4 DEF TreeInv, Begun
  <2>2. Root \in Node
    BY <1>1, RootIsNode
  <2>3. shown'[x] # 0
    BY <1>1, <1>6
  <2>4. QED BY <1>1, <1>6, <2>1, <2>2, <2>3 DEF Begun
<1>11. ~ SomeoneClimbs
  BY <1>10 DEF TreeInv
<1>12. /\ \A p \in Pending' \cup BagToSet(lost') : ~ Climbing(p) /\ p \in Packets
       /\ \A c \in calls' : Climbing(c)
  <2>1. \A p \in S : ~ Climbing(p) /\ p \in Packets /\ p.to # x
    BY PacketFacts
  <2>2. /\ Pending' \subseteq Pending \cup S
        /\ \A c \in calls' : c \in calls \/ (c \in S /\ c.to = x)
    <3>1. /\ BagToSet(net') \subseteq BagToSet(net) \cup S
          /\ calls' \subseteq calls \cup S
          /\ \A c \in calls' : c \in calls \/ c.to = m.to
      BY SentMessages
    <3>2. QED BY <3>1 DEF Pending
  <2>3. \A p \in Pending \cup BagToSet(lost) : ~ Climbing(p) /\ p \in Packets
    BY <1>11 DEF SomeoneClimbs, TreeInv
  <2>4. lost' = lost
    BY <1>2
  <2>5. \A c \in calls' : Climbing(c)
    BY <2>1, <2>2 DEF TreeInv
  <2>6. QED BY <2>1, <2>2, <2>3, <2>4, <2>5
<1>13. ~ SomeoneClimbs'
  BY <1>12 DEF SomeoneClimbs
<1>14. \A n \in Node : shown'[n] \in {0, 1}
  BY <1>3, <1>6
<1>15. Balanced'
  BY <1>8 DEF Balanced
<1>16. origin' # NoNode
  BY <1>2, <1>3
<1>17. QED BY <1>9, <1>10, <1>12, <1>13, <1>14, <1>15, <1>16 DEF TreeInv

LEMMA TreePassDown ==
    ASSUME OneContact, ClimbInv, TreeInv, NEW m \in Pending, PassDown(m)
    PROVE  TreeInv'
<1>1. /\ Runs(m) /\ Hears(m) /\ m.type = Down
      /\ Sends(m, WithinRing(m.to, m.level, m.order) \cup Downwards(m.to, m.level - 1),
               0 .. m.level - 1)
  BY DEF PassDown
<1>2. m \in Packets /\ m.to \in up /\ StructureInv
  <2>1. ~ Climbing(m)
    BY <1>1 DEF Climbing, Down, UpFromBelow, UpSameLevel
  <2>2. QED BY <1>1, <2>1, HandlerIsUp DEF TreeInv, ClimbInv
<1> DEFINE h == m.level
           x == m.to
           S == {p \in Packets : p.from = x}
<1>3. /\ h \in 0 .. Top /\ x \in Node /\ h # 0 /\ x[h] = m.order
      /\ \A l \in 0 .. Top : ResidesById(x, l) <=> l <= h
  BY <1>1, <1>2, PacketFacts DEF Down, InRing
<1>4. Top \in 0 .. 5 /\ h \in Nat /\ h - 1 \in -1 .. Top /\ (h - 1) + 1 = h
  BY <1>3, TopType
<1>5. ResidesById(x, h)
  BY <1>3, <1>4
<1>6. WithinRing(x, h, m.order) = PacketsIn(x, h)
  <2>1. WithinRing(x, h, x[h]) = PacketsIn(x, h)
    BY <1>2, <1>3, <1>5, WithinRingIs
  <2>2. QED BY <1>3, <2>1
<1>7. Downwards(x, h - 1) = UNION {PacketsIn(x, j) : j \in 0 .. h - 1}
  <2> DEFINE g == h - 1
  <2>1. g \in -1 .. Top /\ ResidesById(x, g + 1)
    BY <1>4, <1>5
  <2> HIDE DEF g
  <2>2. Downwards(x, g) = UNION {PacketsIn(x, j) : j \in 0 .. g}
    BY <1>2, <2>1, DownwardsIs
  <2>3. QED BY <2>2 DEF g
<1>8. S = UNION {PacketsIn(x, l) : l \in 0 .. h}
  BY <1>3, PacketsFrom
<1>9. WithinRing(x, h, m.order) \cup Downwards(x, h - 1) = S
  <2> HIDE DEF h, x, S
  <2>1. 0 .. h = (0 .. h - 1) \cup {h}
    BY <1>4
  <2>2. UNION {PacketsIn(x, l) : l \in 0 .. h} =
            (UNION {PacketsIn(x, j) : j \in 0 .. h - 1}) \cup PacketsIn(x, h)
    BY <2>1
  <2>3. QED BY <1>6, <1>7, <1>8, <2>2
<1> DEFINE levels == 0 .. m.level - 1
<1>10. /\ \A p : p \in S <=> p \in Packets /\ p.from = m.to
       /\ \A l \in 0 .. Top : l \in levels <=> l < m.level
       /\ Sends(m, S, levels)
  <2>1. Sends(m, S, levels)
    BY <1>1, <1>9
  <2>2. \A l \in 0 .. Top : l \in levels <=> l < m.level
    <3>1. \A a, b \in Nat : a \in 0 .. b - 1 <=> a < b
      OBVIOUS
    <3>2. QED BY <1>4, <3>1
  <2>3. \A p : p \in S <=> p \in Packets /\ p.from = m.to
    OBVIOUS
  <2>4. QED BY <2>1, <2>2, <2>3
<1> HIDE DEF S, levels
<1>11. QED BY <1>1, <1>2, <1>10, TreePass

LEMMA TreePassOn ==
    ASSUME OneContact, ClimbInv, TreeInv, NEW m \in Pending, PassOn(m)
    PROVE  TreeInv'
<1>1. /\ Runs(m) /\ Hears(m) /\ m.type = InRing
      /\ Sends(m, WithinRing(m.to, m.level, m.order), {})
  BY DEF PassOn
<1>2. m \in Packets /\ m.to \in up /\ StructureInv
  <2>1. ~ Climbing(m)
    BY <1>1 DEF Climbing, InRing, UpFromBelow, UpSameLevel
  <2>2. QED BY <1>1, <2>1, HandlerIsUp DEF TreeInv, ClimbInv
<1> DEFINE x == m.to
           S == {p \in Packets : p.from = x}
<1>3. /\ m.level = 0 /\ 0 \in 0 .. Top /\ x \in Node /\ x[0] = m.order
      /\ \A l \in 0 .. Top : ResidesById(x, l) <=> l <= 0
  BY <1>1, <1>2, PacketFacts DEF Down, InRing
<1>4. WithinRing(x, 0, m.order) = PacketsIn(x, 0)
  <2>1. ResidesById(x, 0)
    BY <1>3
  <2>2. WithinRing(x, 0, x[0]) = PacketsIn(x, 0)
    BY <1>2, <1>3, <2>1, WithinRingIs
  <2>3. QED BY <1>3, <2>2
<1>5. S = UNION {PacketsIn(x, l) : l \in 0 .. 0}
  BY <1>3, PacketsFrom
<1>6. 0 .. 0 = {0}
  OBVIOUS
<1>7. WithinRing(x, m.level, m.order) = S
  <2> HIDE DEF x, S
  <2> QED BY <1>3, <1>4, <1>5, <1>6
<1> DEFINE levels == 0 .. m.level - 1
<1>8. /\ \A p : p \in S <=> p \in Packets /\ p.from = m.to
      /\ \A l \in 0 .. Top : l \in levels <=> l < m.level
      /\ Sends(m, S, levels)
  <2>1. levels = {}
    BY <1>3
  <2>2. Sends(m, S, levels)
    BY <1>1, <1>7, <2>1
  <2> HIDE DEF levels
  <2>3. \A l \in 0 .. Top : l \in levels <=> l < m.level
    BY <1>3, <2>1
  <2>4. QED BY <2>2, <2>3
<1> HIDE DEF S, levels
<1>9. QED BY <1>1, <1>2, <1>8, TreePass

LEMMA TreeInvHolds == ASSUME OneContact PROVE Spec => []TreeInv
<1>1. Init => TreeInv
  BY TreeAtStart
<1>2. ClimbInv /\ TreeInv /\ [Next]_vars => TreeInv'
  <2> SUFFICES ASSUME ClimbInv, TreeInv, [Next]_vars PROVE TreeInv'
    OBVIOUS
  <2>1. ASSUME UNCHANGED broadcastVars PROVE TreeInv'
    <3>1. UNCHANGED <<origin, net, calls, casts, heard, shown, lost>>
      BY <2>1 DEF broadcastVars
    <3>2. QED BY <3>1 DEF TreeInv, Balanced, CountsMatch, Begun, SomeoneClimbs, Pending
  <2>2. ASSUME NEW n \in Origins, Broadcast(n) PROVE TreeInv'
    BY <2>2, TreeBroadcast
  <2>3. ASSUME NEW m \in BagToSet(net) \cup calls, OnReceive(m) PROVE TreeInv'
    <3>1. m \in Pending /\ ~ Stranded(m)
      BY NeverStranded DEF Pending, OneContact
    <3>2. QED BY <2>3, <3>1, TreeClimb, TreeTurn, TreePassDown, TreePassOn DEF OnReceive
  <2>4. ASSUME NEW m \in BagToSet(net) \cup calls, Lose(m) PROVE TreeInv'
    BY <2>4, TreeLose DEF Pending
  <2>5. QED BY <2>1, <2>2, <2>3, <2>4 DEF Next, Start, vars
<1>3. Spec => []ClimbInv
  BY ClimbInvHolds DEF OneContact
<1>4. QED BY <1>1, <1>2, <1>3, PTL DEF Spec

-----------------------------------------------------------------------------
(***************************************************************************)
(* What the tree gives.                                                    *)
(***************************************************************************)
\* A region has one node that resides above its ring.
LEMMA OneRepresents ==
    ASSUME OneContact, NEW l \in 0 .. Top, NEW R \in RegionsAt[l],
           NEW p \in R, NEW q \in R, ResidesById(p, l + 1), ResidesById(q, l + 1)
    PROVE  p = q /\ p[l] = 0
<1>1. PICK n \in Node : R = SameRegion(n, l)
  BY DEF RegionsAt
<1>2. /\ p \in Node /\ q \in Node
      /\ \A d \in l + 1 .. Top : p[d] = n[d] /\ q[d] = n[d]
  BY <1>1, RegionDigits
<1>3. l \in Nat /\ Top \in 0 .. 5 /\ l + 1 \in 0 .. Top + 1 /\ (l + 1) - 1 = l
  BY TopType
<1>4. \A d \in 0 .. l : p[d] = 0 /\ q[d] = 0
  BY <1>2, <1>3, ZeroDigits
<1>5. \A d \in 0 .. Top : p[d] = q[d]
  BY <1>2, <1>3, <1>4
<1>6. p \in [0 .. Top -> Nat] /\ q \in [0 .. Top -> Nat]
  BY <1>2, Digits
<1>7. QED BY <1>3, <1>4, <1>5, <1>6, SameIds

\* Who has cast in a ring resides above it and has shown.
LEMMA CasterFacts ==
    ASSUME OneContact, TreeInv, NEW l \in 0 .. Top, NEW R \in RegionsAt[l],
           NEW p \in Casters(R, l)
    PROVE  p \in R /\ p \in Node /\ ResidesById(p, l + 1) /\ casts[p][l] = 1 /\ shown[p] = 1
<1>1. R \subseteq Node
  BY DEF RegionsAt, SameRegion
<1>2. p \in R /\ p \in Node /\ casts[p][l] > 0
  BY <1>1 DEF Casters
<1>3. /\ casts[p][l] = (IF ResidesById(p, l + 1) THEN shown[p] ELSE 0)
      /\ shown[p] \in {0, 1}
  BY <1>2 DEF TreeInv, CountsMatch
<1>4. QED BY <1>2, <1>3

(***************************************************************************)
(* With one contact node per ring no node shows the payload twice, though  *)
(* on_receive keeps no record of what it has seen.                         *)
(***************************************************************************)
THEOREM ShownOnce ==
    ASSUME OneContact PROVE Spec => []ShownAtMostOnce
<1>1. TreeInv => ShownAtMostOnce
  BY DEF TreeInv, ShownAtMostOnce
<1>2. QED BY <1>1, TreeInvHolds, PTL

(***************************************************************************)
(* Then the broadcast is cast in each region by one node, and once: what   *)
(* peer_manager.cpp:192 keeps a list of "regions sent" for.                *)
(***************************************************************************)
THEOREM RegionsOnce ==
    ASSUME OneContact PROVE Spec => []RegionsSentOnce
<1>1. TreeInv => RegionsSentOnce
  <2> SUFFICES ASSUME TreeInv, NEW l \in 0 .. Top, NEW R \in RegionsAt[l],
                      NEW p \in Casters(R, l), NEW q \in Casters(R, l)
               PROVE  p = q /\ casts[p][l] = 1
    BY DEF RegionsSentOnce
  <2>1. QED BY CasterFacts, OneRepresents
<1>2. QED BY <1>1, TreeInvHolds, PTL

\* A member of a ring has come by the payload when it shows.
LEMMA TimesShown ==
    ASSUME OneContact, NEW n \in Node, NEW l \in 0 .. Top, NEW s \in {0, 1},
           NEW c, c = IF ResidesById(n, l + 1) THEN s ELSE 0,
           NEW h, h = IF ResidesById(n, l) /\ n[l] # 0 THEN s ELSE 0
    PROVE  c + h = IF ResidesById(n, l) THEN s ELSE 0
<1>1. ResidesById(n, l + 1) <=> ResidesById(n, l) /\ n[l] = 0
  <2>1. /\ l \in Nat /\ Top \in 0 .. 5 /\ l \in 0 .. Top + 1 /\ l + 1 \in 0 .. Top + 1
        /\ (l + 1) - 1 = l
    BY TopType
  <2>2. ResidesById(n, l + 1) <=> \A d \in 0 .. l : n[d] = 0
    BY <2>1, ZeroDigits
  <2>3. ResidesById(n, l) <=> \A d \in 0 .. l - 1 : n[d] = 0
    BY <2>1, ZeroDigits
  <2>4. 0 .. l = (0 .. l - 1) \cup {l}
    BY <2>1
  <2>5. QED BY <2>2, <2>3, <2>4
<1>2. CASE ResidesById(n, l + 1)
  BY <1>1, <1>2
<1>3. CASE ~ ResidesById(n, l + 1)
  BY <1>1, <1>3
<1>4. QED BY <1>2, <1>3

\* A step shows the payload at one node that had not shown it, or at none.
LEMMA OneShows ==
    ASSUME OneContact, ClimbInv, TreeInv, TreeInv', [Next]_vars
    PROVE  \/ \A n \in Node : shown'[n] = shown[n]
           \/ \E x \in Node : /\ shown[x] = 0
                              /\ \A n \in Node : shown'[n] = IF n = x THEN 1 ELSE shown[n]
<1>1. \/ shown' = shown
      \/ \E m \in Pending : Runs(m) /\ Shows(m)
  BY DEF Next, Start, Broadcast, OnReceive, Climb, TurnDown, Stranded, PassDown, PassOn,
         Hears, Lose, vars, broadcastVars, Pending
<1>2. ASSUME NEW m \in Pending, Runs(m), Shows(m)
      PROVE  \E x \in Node : /\ shown[x] = 0
                             /\ \A n \in Node : shown'[n] = IF n = x THEN 1 ELSE shown[n]
  <2>1. m.to \in Node
    BY <1>2, HandlerIsUp
  <2>2. shown \in [Node -> Nat] /\ shown' = [shown EXCEPT ![m.to] = @ + 1]
    BY <1>2 DEF ClimbInv, Counters, Shows
  <2>3. \A n \in Node : shown'[n] = IF n = m.to THEN shown[n] + 1 ELSE shown[n]
    BY <2>1, <2>2, ShownUp
  <2>4. shown[m.to] \in {0, 1} /\ shown'[m.to] \in {0, 1}
    BY <2>1 DEF TreeInv
  <2>5. shown[m.to] = 0
    BY <2>1, <2>3, <2>4
  <2>6. QED BY <2>1, <2>3, <2>5
<1>3. QED BY <1>1, <1>2

\* Which is what may happen to the cast of one ring.
LEMMA RingStep ==
    ASSUME OneContact, ClimbInv, TreeInv, TreeInv', [Next]_vars,
           NEW l \in 0 .. Top, NEW R \in RegionsAt[l]
    PROVE  RingCastStep(R, l)
<1> DEFINE T == Times(R, l)
           U == [n \in R |-> casts'[n][l] + heard'[n][l]]
<1>1. R \subseteq Node
  BY DEF RegionsAt, SameRegion
<1>2. /\ \A n \in R : T[n] = IF ResidesById(n, l) THEN shown[n] ELSE 0
      /\ \A n \in R : U[n] = IF ResidesById(n, l) THEN shown'[n] ELSE 0
  <2>1. \A n \in Node :
            casts[n][l] + heard[n][l] = IF ResidesById(n, l) THEN shown[n] ELSE 0
    BY TimesShown DEF TreeInv, CountsMatch
  <2>2. \A n \in Node :
            casts'[n][l] + heard'[n][l] = IF ResidesById(n, l) THEN shown'[n] ELSE 0
    BY TimesShown DEF TreeInv, CountsMatch
  <2>3. QED BY <1>1, <2>1, <2>2 DEF Times
<1>3. T' = U
  BY DEF Times
<1>4. T = [n \in R |-> T[n]] /\ U = [n \in R |-> U[n]]
  BY DEF Times
<1> HIDE DEF T, U
<1>5. CASE \A n \in R : U[n] = T[n]
  <2>1. UNCHANGED T
    BY <1>3, <1>4, <1>5
  <2>2. QED BY <2>1 DEF RingCastStep, T
<1>6. ASSUME NEW x \in R, ResidesById(x, l), shown[x] = 0,
             \A n \in Node : shown'[n] = IF n = x THEN 1 ELSE shown[n]
      PROVE  RingCastStep(R, l)
  <2>1. T[x] = 0 /\ \A n \in R : U[n] = IF n = x THEN 1 ELSE T[n]
    BY <1>1, <1>2, <1>6
  <2>2. T' = [T EXCEPT ![x] = 1]
    BY <1>3, <1>4, <2>1
  <2>3. CASE \A q \in R : T[q] = 0
    <3>1. RingCastOf(R, l)!Begin(x)
      BY <2>2, <2>3 DEF T, RingCastOf!Begin
    <3>2. QED BY <3>1 DEF RingCastStep, RingCastOf!Next
  <2>4. CASE \E q \in R : T[q] # 0
    <3>1. RingCastOf(R, l)!HandOver(x)
      BY <2>1, <2>2, <2>4 DEF T, RingCastOf!HandOver
    <3>2. QED BY <3>1 DEF RingCastStep, RingCastOf!Next
  <2>5. QED BY <2>3, <2>4
<1>7. CASE \A n \in Node : shown'[n] = shown[n]
  BY <1>1, <1>2, <1>5, <1>7
<1>8. ASSUME NEW x \in Node, shown[x] = 0,
             \A n \in Node : shown'[n] = IF n = x THEN 1 ELSE shown[n]
      PROVE  RingCastStep(R, l)
  <2>1. CASE x \in R /\ ResidesById(x, l)
    BY <1>6, <1>8, <2>1
  <2>2. CASE ~ (x \in R /\ ResidesById(x, l))
    BY <1>1, <1>2, <1>5, <1>8, <2>2
  <2>3. QED BY <2>1, <2>2
<1>9. QED BY <1>7, <1>8, OneShows

(***************************************************************************)
(* In every ring of every region the broadcast is one cast as RingCast     *)
(* promises it: one member begins, and each other one comes by the payload *)
(* once, however the casts of the rings interleave.                        *)
(***************************************************************************)
THEOREM RefinesRingCasts ==
    ASSUME OneContact PROVE Spec => ImplementsRingCasts
<1>1. Init => \A l \in 0 .. Top : \A R \in RegionsAt[l] : RingCastOf(R, l)!Init
  <2> SUFFICES ASSUME Init, NEW l \in 0 .. Top, NEW R \in RegionsAt[l]
               PROVE  RingCastOf(R, l)!Init
    OBVIOUS
  <2>1. R \subseteq Node
    BY DEF RegionsAt, SameRegion
  <2>2. \A n \in Node : casts[n][l] = 0 /\ heard[n][l] = 0
    BY DEF Init
  <2>3. \A n \in R : casts[n][l] + heard[n][l] = 0
    BY <2>1, <2>2
  <2>4. QED BY <2>3 DEF RingCastOf!Init, Times
<1>2. ClimbInv /\ TreeInv /\ TreeInv' /\ [Next]_vars
        => \A l \in 0 .. Top : \A R \in RegionsAt[l] : RingCastStep(R, l)
  BY RingStep
<1>3. Spec => []ClimbInv
  BY ClimbInvHolds DEF OneContact
<1>4. QED BY <1>1, <1>2, <1>3, TreeInvHolds, PTL DEF Spec, ImplementsRingCasts

-----------------------------------------------------------------------------
(***************************************************************************)
(* What a loss costs.  Within a ring's size the strides are powers of two, *)
(* which is hidden in StridesAssumption: enough of it is that the double of*)
(* a stride divides every greater stride.                                  *)
(***************************************************************************)
\* A multiple of the divisor does not change the remainder.
LEMMA RemainderOfSum ==
    ASSUME NEW a \in Nat, NEW d \in Nat \ {0}, NEW j \in Nat
    PROVE  (a + j * d) % d = a % d
<1> DEFINE q == a \div d
           r == a % d
<1>1. q \in Nat /\ r \in 0 .. d - 1 /\ a = q * d + r
  BY DivMod
<1> HIDE DEF q, r
<1>2. (q + j) * d = q * d + j * d /\ q * d \in Nat /\ j * d \in Nat /\ q + j \in Nat
  BY <1>1
<1>3. a + j * d = (q + j) * d + r /\ a + j * d \in Nat
  BY <1>1, <1>2
<1>4. (a + j * d) % d = r
  BY <1>1, <1>2, <1>3, DivUnique
<1>5. QED BY <1>4 DEF r

\* A remainder is never above what was divided; what is small is its own.
LEMMA RemainderBelow ==
    ASSUME NEW x \in Nat, NEW d \in Nat \ {0}
    PROVE  x % d <= x /\ (x < d => x % d = x)
<1>1. x \div d \in Nat /\ x % d \in Nat /\ x = (x \div d) * d + (x % d)
  BY DivMod
<1>2. (x \div d) * d \in Nat
  BY <1>1
<1>3. x % d <= x
  BY <1>1, <1>2
<1>4. ASSUME x < d PROVE x % d = x
  <2>1. x \in 0 .. d - 1 /\ x = 0 * d + x
    BY <1>4
  <2>2. QED BY <2>1, DivUnique
<1>5. QED BY <1>3, <1>4

\* Between two strides in a ring lies the double of the lower one, or it is the
\* upper one.
LEMMA StridesDouble ==
    ASSUME NEW l \in 0 .. Top, NEW s \in Strides, NEW t \in Strides,
           s < t, t <= Width(l) - 1
    PROVE  \E j \in Nat : t = j * (2 * s)
<1> DEFINE w == Width(l)
           Odd == {u \in Strides : s < u /\ u <= w - 1 /\ ~ \E j \in Nat : u = j * (2 * s)}
<1>1. Strides \subseteq Nat \ {0} /\ s \in Nat \ {0} /\ w \in Nat
  BY StridesAssumption, TopType, WidthType
<1>2. SUFFICES ASSUME Odd # {} PROVE FALSE
  OBVIOUS
<1>3. PICK u \in Odd : \A v \in Odd : u <= v
  <2>1. Odd \subseteq Nat
    BY <1>1
  <2> HIDE DEF Odd
  <2> QED BY <1>2, <2>1, LeastNatural
<1>4. u \in Strides /\ u \in Nat /\ s < u /\ u <= w - 1
  BY <1>1
<1>5. PICK v \in Strides : v <= u - 1 /\ u - 1 < 2 * v
  <2>1. u - 1 \in 1 .. w - 1
    BY <1>1, <1>4
  <2>2. QED BY <2>1, StrideOf
<1>6. v \in Nat /\ v < u /\ u = 2 * v
  BY <1>1, <1>4, <1>5, StridesAssumption
<1>7. CASE v = s
  <2>1. u = 1 * (2 * s)
    BY <1>1, <1>6, <1>7
  <2>2. QED BY <1>3, <2>1
<1>8. CASE v < s
  BY <1>1, <1>4, <1>6, <1>8, StridesAssumption
<1>9. CASE s < v
  <2>1. v \notin Odd
    BY <1>3, <1>4, <1>6
  <2>2. PICK j \in Nat : v = j * (2 * s)
    BY <1>4, <1>6, <1>9, <2>1, <1>1
  <2>3. u = (2 * j) * (2 * s)
    BY <1>1, <1>6, <2>2
  <2>4. QED BY <1>3, <2>3
<1>10. QED BY <1>1, <1>6, <1>7, <1>8, <1>9

\* The order q is in the subtree of the order o of its ring.
InSubtree(q, o) == \E s \in Strides : s <= o /\ o < 2 * s /\ q % (2 * s) = o

\* The subtree of o in two sentences: o is in it, and whoever is sent to from it.
LEMMA SubtreeStep ==
    ASSUME NEW l \in 0 .. Top, NEW o \in Nat \ {0}, NEW q \in Nat, NEW t \in Strides,
           q < t, q + t <= Width(l) - 1
    PROVE  InSubtree(q + t, o) <=> o = q + t \/ InSubtree(q, o)
<1>1. t \in Nat \ {0} /\ Strides \subseteq Nat \ {0} /\ t <= Width(l) - 1
  <2>1. Width(l) \in Nat /\ t \in Nat \ {0} /\ Strides \subseteq Nat \ {0}
    BY StridesAssumption, TopType, WidthType
  <2>2. QED BY <2>1
<1>2. ASSUME NEW s \in Strides, s < t
      PROVE  (q + t) % (2 * s) = q % (2 * s)
  <2>1. PICK j \in Nat : t = j * (2 * s)
    BY <1>1, <1>2, StridesDouble
  <2>2. 2 * s \in Nat \ {0}
    BY <1>1
  <2>3. QED BY <2>1, <2>2, RemainderOfSum
<1>3. ASSUME o = q + t PROVE InSubtree(q + t, o)
  <2>1. q + t \in Nat /\ 2 * t \in Nat \ {0} /\ q + t < 2 * t /\ t <= q + t
    BY <1>1
  <2>2. (q + t) % (2 * t) = q + t
    BY <2>1, RemainderBelow
  <2>3. QED BY <1>3, <2>1, <2>2 DEF InSubtree
<1>4. ASSUME InSubtree(q, o) PROVE InSubtree(q + t, o)
  <2>1. PICK s \in Strides : s <= o /\ o < 2 * s /\ q % (2 * s) = o
    BY <1>4 DEF InSubtree
  <2>2. 2 * s \in Nat \ {0}
    BY <1>1
  <2>3. q % (2 * s) <= q
    BY <2>2, RemainderBelow
  <2>4. s < t
    BY <1>1, <2>1, <2>3
  <2>5. (q + t) % (2 * s) = o
    BY <1>2, <2>1, <2>4
  <2>6. QED BY <2>1, <2>5 DEF InSubtree
<1>5. ASSUME InSubtree(q + t, o), o # q + t PROVE InSubtree(q, o)
  <2>1. PICK s \in Strides : s <= o /\ o < 2 * s /\ (q + t) % (2 * s) = o
    BY <1>5 DEF InSubtree
  <2>2. s \in Nat \ {0} /\ 2 * s \in Nat \ {0} /\ q + t \in Nat
    BY <1>1
  <2>3. s < t
    <3>1. SUFFICES ASSUME t <= s PROVE FALSE
      BY <1>1, <2>2
    <3>2. q + t < 2 * s
      BY <1>1, <2>2, <3>1
    <3>3. (q + t) % (2 * s) = q + t
      BY <2>2, <3>2, RemainderBelow
    <3>4. QED BY <1>5, <2>1, <3>3
  <2>4. q % (2 * s) = o
    BY <1>2, <2>1, <2>3
  <2>5. QED BY <2>1, <2>4 DEF InSubtree
<1>6. QED BY <1>3, <1>4, <1>5

\* Below, by digits.
LEMMA BelowIs ==
    ASSUME OneContact, NEW m \in Packets, NEW y \in Node
    PROVE  Below(m, y) <=> /\ \A d \in m.level + 1 .. Top : y[d] = m.to[d]
                           /\ InSubtree(y[m.level], m.order)
<1> DEFINE L == m.level
           o == m.order
           w == Width(L)
           q == y[L]
<1>1. L \in 0 .. Top /\ m.to \in Node /\ m.to[L] = o /\ o \in 1 .. w - 1
  BY PacketFacts
<1>2. w \in Nat /\ q \in Nat /\ q < w
  <2>1. w \in Nat
    BY <1>1, TopType, WidthType
  <2>2. QED BY <1>1, <2>1, Digits
<1> HIDE DEF w
<1>3. o \in Nat \ {0} /\ w \in Nat \ {0}
  BY <1>1, <1>2
<1>4. (q - m.to[L] + o) % w = q
  <2> HIDE DEF q, o
  <2>1. q - m.to[L] + o = q
    BY <1>1, <1>2, <1>3
  <2>2. q % w = q
    BY <1>2, <1>3, RemainderBelow
  <2>3. QED BY <2>1, <2>2
<1>5. Below(m, y) <=> Region(y, L) = Region(m.to, L) /\ InSubtree(q, o)
  BY <1>4 DEF Below, InSubtree, w
<1>6. Region(y, L) = Region(m.to, L) <=> \A d \in L + 1 .. Top : y[d] = m.to[d]
  BY RegionDigits, <1>1 DEF SameRegion
<1>7. QED BY <1>5, <1>6

\* Below a packet are its receiver and whoever is sent to from below it.
LEMMA BelowStep ==
    ASSUME OneContact, NEW m \in Packets, NEW p \in Packets
    PROVE  Below(m, p.to) <=> m = p \/ Below(m, p.from)
<1> DEFINE L == m.level
           l == p.level
           n == p.from
           x == p.to
           o == m.order
<1>1. /\ L \in 0 .. Top /\ m.to \in Node /\ m.to[L] = o /\ o \in 1 .. Width(L) - 1
      /\ ResidesById(m.to, L)
  BY PacketFacts, SameRing
<1>2. /\ l \in 0 .. Top /\ n \in Node /\ x \in Node /\ x \in RingById(n, l)
      /\ ResidesById(n, l) /\ ResidesById(x, l)
  BY PacketFacts, SameRing
<1>3. PICK t \in ChildStrides(n, l) : p.order = n[l] + t /\ p = Packet(n, l, t)
  BY PacketFacts
<1>4. /\ t \in Strides /\ t > n[l] /\ n[l] \in Nat /\ n[l] + t \in 1 .. Width(l) - 1
      /\ t \in Nat /\ x[l] = n[l] + t
  BY <1>2, <1>3, ChildFacts, PacketFacts
<1>5. Top \in 0 .. 5 /\ L \in Nat /\ l \in Nat /\ o \in Nat \ {0}
  <2>1. Top \in 0 .. 5 /\ L \in 0 .. 5
    BY <1>1, TopType
  <2>2. Width(L) \in Nat
    BY <2>1, WidthType
  <2>3. QED BY <1>1, <1>2, <2>1, <2>2
<1>6. \A d \in l + 1 .. Top : x[d] = n[d]
  BY <1>2, RegionDigits DEF RingById
<1>7. \A d \in 0 .. l - 1 : x[d] = 0 /\ n[d] = 0
  <2>1. l \in 0 .. Top + 1
    BY <1>2, <1>5
  <2>2. QED BY <1>2, <2>1, ZeroDigits
<1>8. /\ Below(m, x) <=> (\A d \in L + 1 .. Top : x[d] = m.to[d]) /\ InSubtree(x[L], o)
      /\ Below(m, n) <=> (\A d \in L + 1 .. Top : n[d] = m.to[d]) /\ InSubtree(n[L], o)
  BY <1>2, BelowIs
<1> HIDE DEF L, l, n, x, o
<1>9. CASE L < l
  <2>1. x[L] = 0 /\ n[L] = 0
    BY <1>5, <1>7, <1>9
  <2>2. ~ InSubtree(0, o)
    <3>1. ASSUME NEW s \in Strides PROVE 0 % (2 * s) = 0
      <4>1. 2 * s \in Nat \ {0} /\ 0 < 2 * s /\ 0 \in Nat
        BY StridesAssumption
      <4>2. QED BY <4>1, RemainderBelow
    <3>2. QED BY <1>5, <3>1 DEF InSubtree
  <2>3. m # p
    BY <1>5, <1>9 DEF L, l
  <2>4. QED BY <1>8, <2>1, <2>2, <2>3 DEF x, n
<1>10. CASE L = l
  <2>1. CASE \A d \in l + 1 .. Top : n[d] = m.to[d]
    <3>1. InSubtree(x[l], o) <=> o = x[l] \/ InSubtree(n[l], o)
      <4>1. n[l] + t <= Width(l) - 1
        <5>1. Width(l) \in Nat
          BY <1>2, TopType, WidthType
        <5>2. QED BY <1>4, <5>1
      <4>2. InSubtree(n[l] + t, o) <=> o = n[l] + t \/ InSubtree(n[l], o)
        BY <1>2, <1>4, <1>5, <4>1, SubtreeStep
      <4>3. QED BY <1>4, <4>2
    <3>2. o = x[l] <=> m = p
      <4>1. ASSUME o = x[l] PROVE m = p
        <5>1. \A d \in 0 .. Top : m.to[d] = x[d]
          <6>1. \A d \in 0 .. l - 1 : m.to[d] = 0
            <7>1. l \in 0 .. Top + 1
              BY <1>2, <1>5
            <7>2. QED BY <1>1, <1>10, <7>1, ZeroDigits
          <6>2. QED BY <1>1, <1>5, <1>6, <1>7, <1>10, <2>1, <4>1, <6>1
        <5>2. m.to \in [0 .. Top -> Nat] /\ x \in [0 .. Top -> Nat]
          BY <1>1, <1>2, Digits
        <5>3. m.to = x
          BY <5>1, <5>2, SameIds
        <5>4. QED BY <5>3, PacketUnique DEF x
      <4>2. ASSUME m = p PROVE o = x[l]
        BY <1>1, <4>2 DEF L, l, x, o
      <4>3. QED BY <4>1, <4>2
    <3>3. Below(m, x) <=> InSubtree(x[l], o)
      BY <1>6, <1>8, <1>10, <2>1
    <3>4. Below(m, n) <=> InSubtree(n[l], o)
      BY <1>8, <1>10, <2>1
    <3>5. QED BY <3>1, <3>2, <3>3, <3>4 DEF x, n
  <2>2. CASE ~ \A d \in l + 1 .. Top : n[d] = m.to[d]
    <3>1. ~ Below(m, x) /\ ~ Below(m, n)
      BY <1>6, <1>8, <1>10, <2>2
    <3>2. m # p
      BY <1>6, <2>2 DEF x
    <3>3. QED BY <3>1, <3>2 DEF x, n
  <2>3. QED BY <2>1, <2>2
<1>11. CASE L > l
  <2>1. x[L] = n[L] /\ \A d \in L + 1 .. Top : x[d] = n[d]
    BY <1>1, <1>5, <1>6, <1>11
  <2>2. m # p
    BY <1>5, <1>11 DEF L, l
  <2>3. QED BY <1>8, <2>1, <2>2 DEF x, n
<1>12. QED BY <1>5, <1>9, <1>10, <1>11

\* The sum of a node's digits, which grows along every packet.
Digit(n, d) == IF d <= Top THEN n[d] ELSE 0

Depth(n) == Digit(n, 0) + Digit(n, 1) + Digit(n, 2) + Digit(n, 3) + Digit(n, 4) + Digit(n, 5)

LEMMA Deeper ==
    ASSUME OneContact, NEW p \in Packets
    PROVE  Depth(p.from) \in Nat /\ Depth(p.to) \in Nat /\ Depth(p.from) < Depth(p.to)
<1> DEFINE l == p.level
           n == p.from
           x == p.to
<1>1. l \in 0 .. Top /\ n \in Node /\ x \in Node
  BY PacketFacts
<1>2. PICK t \in ChildStrides(n, l) : p.order = n[l] + t /\ p = Packet(n, l, t)
  BY PacketFacts
<1>3. t \in Nat \ {0} /\ x = Child(n, l, t)
  <2>1. ResidesById(n, l)
    BY PacketFacts
  <2>2. t \in Nat \ {0}
    BY <1>1, <2>1, ChildFacts
  <2>3. Packet(n, l, t).to = Child(n, l, t)
    BY DEF Packet
  <2>4. QED BY <1>2, <2>2, <2>3
<1> HIDE DEF l, n, x
<1>4. Top \in 0 .. 5 /\ l \in 0 .. 5 /\ n \in [0 .. Top -> Nat]
  BY <1>1, TopType, Digits
<1>5. /\ \A d \in 0 .. 5 : Digit(n, d) \in Nat
      /\ \A d \in 0 .. 5 : Digit(x, d) = IF d = l THEN Digit(n, d) + t ELSE Digit(n, d)
  <2>1. \A d \in 0 .. Top : n[d] \in Nat /\ x[d] = IF d = l THEN n[d] + t ELSE n[d]
    BY <1>1, <1>3, <1>4 DEF Child
  <2>2. l <= Top /\ \A d \in 0 .. 5 : d <= Top => d \in 0 .. Top
    BY <1>1, <1>4
  <2>3. QED BY <1>4, <2>1, <2>2 DEF Digit
<1> DEFINE a(d) == Digit(n, d)
           b(d) == Digit(x, d)
<1>6. \A d \in 0 .. 5 : a(d) \in Nat /\ b(d) = IF d = l THEN a(d) + t ELSE a(d)
  BY <1>5
<1> HIDE DEF a, b
<1>7. /\ a(0) \in Nat /\ a(1) \in Nat /\ a(2) \in Nat
      /\ a(3) \in Nat /\ a(4) \in Nat /\ a(5) \in Nat
      /\ b(0) + b(1) + b(2) + b(3) + b(4) + b(5)
            = a(0) + a(1) + a(2) + a(3) + a(4) + a(5) + t
  <2>1. /\ a(0) \in Nat /\ b(0) = IF l = 0 THEN a(0) + t ELSE a(0)
        /\ a(1) \in Nat /\ b(1) = IF l = 1 THEN a(1) + t ELSE a(1)
        /\ a(2) \in Nat /\ b(2) = IF l = 2 THEN a(2) + t ELSE a(2)
    BY <1>6
  <2>2. /\ a(3) \in Nat /\ b(3) = IF l = 3 THEN a(3) + t ELSE a(3)
        /\ a(4) \in Nat /\ b(4) = IF l = 4 THEN a(4) + t ELSE a(4)
        /\ a(5) \in Nat /\ b(5) = IF l = 5 THEN a(5) + t ELSE a(5)
    BY <1>6
  <2>3. l = 0 \/ l = 1 \/ l = 2 \/ l = 3 \/ l = 4 \/ l = 5
    BY <1>4
  <2>4. t \in Nat
    BY <1>3
  <2>5. QED BY <2>1, <2>2, <2>3, <2>4
<1>8. /\ Depth(n) = a(0) + a(1) + a(2) + a(3) + a(4) + a(5)
      /\ Depth(x) = b(0) + b(1) + b(2) + b(3) + b(4) + b(5)
  BY DEF Depth, a, b
<1>9. Depth(n) \in Nat /\ Depth(x) = Depth(n) + t
  BY <1>3, <1>7, <1>8
<1>10. QED BY <1>3, <1>9 DEF n, x

\* At rest, and with the broadcast begun, a node has not shown just when a
\* packet was lost above it: a node of least depth for which that were wrong
\* would have got the packet from one for which it is right.
LEMMA CutBelow ==
    ASSUME OneContact, ClimbInv, TreeInv, Quiet, Begun
    PROVE  \A n \in Node : shown[n] = 0 <=> \E m \in BagToSet(lost) : Below(m, n)
<1> DEFINE Cut(n) == \E m \in BagToSet(lost) : Below(m, n)
           Wrong == {n \in Node : ~ (shown[n] = 0 <=> Cut(n))}
<1>1. /\ BagToSet(lost) \subseteq Packets
      /\ \A p \in Packets : Copies(p, net) = 0
      /\ shown[Root] = 1 /\ Root \in Node
  <2>1. origin # NoNode /\ BagToSet(net) = {} /\ net = EmptyBag
    BY BagOfNone DEF Quiet
  <2>2. ~ SomeoneClimbs
    BY <2>1 DEF TreeInv
  <2>3. BagToSet(lost) \subseteq Packets
    BY <2>2 DEF TreeInv, SomeoneClimbs
  <2>4. Root \in Node
    BY RootIsNode DEF Begun
  <2>5. QED BY <2>1, <2>3, <2>4 DEF TreeInv, Copies
<1>2. Root \notin Wrong
  <2>1. ASSUME NEW m \in BagToSet(lost) PROVE ~ Below(m, Root)
    <3>1. m \in Packets /\ m.level \in 0 .. Top /\ m.order \in 1 .. Width(m.level) - 1
      BY <1>1, PacketFacts
    <3>2. Root[m.level] = 0
      BY <3>1 DEF Root
    <3>3. m.order # 0
      <4>1. Width(m.level) \in Nat
        BY <3>1, TopType, WidthType
      <4>2. QED BY <3>1, <4>1
    <3>4. ASSUME NEW s \in Strides PROVE 0 % (2 * s) = 0
      <4>1. 2 * s \in Nat \ {0} /\ 0 < 2 * s /\ 0 \in Nat
        BY StridesAssumption
      <4>2. QED BY <4>1, RemainderBelow
    <3>5. QED BY <1>1, <3>1, <3>2, <3>3, <3>4, BelowIs DEF InSubtree
  <2>2. QED BY <1>1, <2>1
<1>3. ASSUME NEW p \in Packets, p.from \notin Wrong
      PROVE  p.to \notin Wrong
  <2>1. p.from \in Node /\ p.to \in Node
    BY PacketFacts
  <2>2. Copies(p, lost) + shown[p.to] = shown[p.from]
    <3>1. /\ Copies(p, net) + Copies(p, lost) + shown[p.to] = shown[p.from]
          /\ IsABag(lost)
      BY DEF TreeInv, Balanced, ClimbInv, Counters
    <3>2. Copies(p, lost) \in Nat
      BY <3>1, CopiesType
    <3>3. shown[p.to] \in {0, 1}
      BY <2>1 DEF TreeInv
    <3>4. QED BY <1>1, <3>1, <3>2, <3>3
  <2>3. shown[p.to] = 0 <=> p \in BagToSet(lost) \/ shown[p.from] = 0
    <3>1. Copies(p, lost) \in Nat /\ (p \in BagToSet(lost) <=> Copies(p, lost) > 0)
      BY CopiesType DEF ClimbInv, Counters
    <3>2. shown[p.to] \in {0, 1} /\ shown[p.from] \in {0, 1}
      BY <2>1 DEF TreeInv
    <3>3. QED BY <2>2, <3>1, <3>2
  <2>4. Cut(p.to) <=> p \in BagToSet(lost) \/ Cut(p.from)
    BY <1>1, BelowStep
  <2>5. shown[p.from] = 0 <=> Cut(p.from)
    BY <1>3, <2>1
  <2>6. QED BY <2>3, <2>4, <2>5
<1> HIDE DEF Cut
<1>4. Wrong = {}
  <2> SUFFICES ASSUME Wrong # {} PROVE FALSE
    OBVIOUS
  <2> HIDE DEF Wrong
  <2>1. \A x \in Wrong : x \in Node /\ \E p \in Packets : p.to = x /\ p.from \in Wrong
    <3> SUFFICES ASSUME NEW x \in Wrong
                 PROVE  x \in Node /\ \E p \in Packets : p.to = x /\ p.from \in Wrong
      OBVIOUS
    <3>1. x \in Node /\ x # Root
      BY <1>2 DEF Wrong
    <3>2. PICK p \in Packets : p.to = x
      BY <3>1, PacketExists
    <3>3. QED BY <1>3, <3>1, <3>2
  <2> DEFINE depths == {Depth(x) : x \in Wrong}
  <2>2. depths \subseteq Nat /\ depths # {}
    <3>1. \A x \in Wrong : Depth(x) \in Nat
      BY <2>1, Deeper
    <3>2. QED BY <3>1
  <2>3. Min(depths) \in depths /\ \A y \in depths : Min(depths) <= y
    <3> HIDE DEF depths
    <3> QED BY <2>2, LeastNatural
  <2>4. PICK x \in Wrong : \A y \in Wrong : Depth(x) <= Depth(y)
    BY <2>3
  <2>5. PICK p \in Packets : p.to = x /\ p.from \in Wrong
    BY <2>1
  <2>6. Depth(p.from) \in Nat /\ Depth(x) \in Nat /\ Depth(p.from) < Depth(x)
    BY <2>5, Deeper
  <2>7. QED BY <2>4, <2>5, <2>6
<1>5. QED BY <1>4 DEF Cut

(***************************************************************************)
(* What a loss costs: once the broadcast has come to rest, exactly those   *)
(* have not shown it who are below a lost packet, in its ring or in the    *)
(* regions its members represent, or everyone if it was lost climbing.     *)
(* Without loss that is nobody: the broadcast reaches all nodes.           *)
(***************************************************************************)
THEOREM LossesCutRegions ==
    ASSUME OneContact PROVE Spec => []LossCutsRegions
<1>1. ClimbInv /\ TreeInv => LossCutsRegions
  <2> SUFFICES ASSUME ClimbInv, TreeInv, Quiet, NEW n \in Node
               PROVE  shown[n] = 0 <=> \E m \in BagToSet(lost) : Climbing(m) \/ Below(m, n)
    BY DEF LossCutsRegions
  <2>1. Pending = {} /\ origin # NoNode
    BY BagOfNone DEF Quiet, Pending
  <2>2. CASE Begun
    <3>1. ~ SomeoneClimbs
      BY <2>2 DEF TreeInv
    <3>2. \A m \in BagToSet(lost) : ~ Climbing(m)
      BY <3>1 DEF SomeoneClimbs
    <3>3. QED BY <2>2, <3>2, CutBelow
  <2>3. CASE ~ Begun
    <3>1. SomeoneClimbs
      BY <2>1, <2>3 DEF TreeInv
    <3>2. \E m \in BagToSet(lost) : Climbing(m)
      BY <2>1, <3>1 DEF SomeoneClimbs
    <3>3. shown[n] = 0
      BY <2>3 DEF Begun
    <3>4. QED BY <3>2, <3>3
  <2>4. QED BY <2>2, <2>3
<1>2. Spec => []ClimbInv
  BY ClimbInvHolds DEF OneContact
<1>3. QED BY <1>1, <1>2, TreeInvHolds, PTL

-----------------------------------------------------------------------------
(***************************************************************************)
(* The casts of a ring with one or two contact nodes per region.           *)
(***************************************************************************)
\* The order that a cast of p in its level l ring has at the member n.
OrderFrom(p, n, l) ==
    IF Place(n, l) >= Place(p, l) THEN Place(n, l) - Place(p, l)
    ELSE Place(n, l) - Place(p, l) + Size(l)

\* x is a packet of a cast of p in its level l ring.
IsEdge(p, l, x) ==
    /\ x \in Message /\ x.level = l /\ x.type = TypeAt(x.to, l)
    /\ x.from \in RingById(p, l) /\ x.to \in RingById(p, l)
    /\ x.order = OrderFrom(p, x.to, l)
    /\ \E s \in Strides : /\ s > OrderFrom(p, x.from, l)
                          /\ x.order = OrderFrom(p, x.from, l) + s

LEMMA OrdersDiffer ==
    ASSUME FewContacts, NEW p \in Node, NEW l \in 0 .. Top, ResidesById(p, l)
    PROVE  /\ Size(l) \in Nat /\ p \in RingById(p, l)
           /\ \A x \in RingById(p, l) : OrderFrom(p, x, l) \in 0 .. Size(l) - 1
           /\ OrderFrom(p, p, l) = 0
           /\ \A x, y \in RingById(p, l) :
                OrderFrom(p, x, l) = OrderFrom(p, y, l) => x = y
<1>1. /\ Size(l) \in Nat
      /\ \A x \in RingById(p, l) : Place(x, l) \in 0 .. Size(l) - 1
      /\ \A x, y \in RingById(p, l) : Place(x, l) = Place(y, l) => x = y
  BY PlacesDiffer
<1>2. p \in RingById(p, l)
  BY DEF RingById, SameRegion
<1>3. ASSUME NEW x \in RingById(p, l)
      PROVE  OrderFrom(p, x, l) \in 0 .. Size(l) - 1
  <2>1. Place(x, l) \in 0 .. Size(l) - 1 /\ Place(p, l) \in 0 .. Size(l) - 1
    BY <1>1, <1>2
  <2>2. QED BY <1>1, <2>1 DEF OrderFrom
<1>4. OrderFrom(p, p, l) = 0
  <2>1. Place(p, l) \in 0 .. Size(l) - 1
    BY <1>1, <1>2
  <2>2. QED BY <1>1, <2>1 DEF OrderFrom
<1>5. ASSUME NEW x \in RingById(p, l), NEW y \in RingById(p, l),
             OrderFrom(p, x, l) = OrderFrom(p, y, l)
      PROVE  x = y
  <2> DEFINE a == Place(x, l)
             b == Place(y, l)
             o == Place(p, l)
             z == Size(l)
  <2>1. a \in 0 .. z - 1 /\ b \in 0 .. z - 1 /\ o \in 0 .. z - 1 /\ z \in Nat
    BY <1>1, <1>2
  <2>2. (IF a >= o THEN a - o ELSE a - o + z) = (IF b >= o THEN b - o ELSE b - o + z)
    BY <1>5 DEF OrderFrom
  <2> HIDE DEF a, b, o, z
  <2>3. a = b
    BY <2>1, <2>2
  <2>4. QED BY <1>1, <2>3 DEF a, b
<1>6. QED BY <1>1, <1>2, <1>3, <1>4, <1>5

\* What broadcast_within_ring goes by, as places.
LEMMA HerePlace ==
    ASSUME FewContacts, StructureInv, NEW n \in up, NEW l \in 0 .. Top, ResidesById(n, l)
    PROVE  /\ n \in Node /\ n \in RingById(n, l)
           /\ get_peer_list_size(n, l) = Size(l) - 1
           /\ get_node_id_in_vector(n, l) = Place(n, l)
           /\ \A i \in 0 .. Size(l) - 1 : /\ peer_list(n, l)[i + 1] \in RingById(n, l)
                                          /\ Place(peer_list(n, l)[i + 1], l) = i
<1> DEFINE list == peer_list(n, l)
<1>1. n \in Node /\ hash \in Hashes /\ SameLimits
  BY DEF StructureInv, FewContacts
<1>2. list = FormStructure(n, hash)[l + 1].peer_list
  <2>1. tables(n) = FormStructure(n, hash)
    BY <1>1 DEF tables, FormedTables
  <2>2. QED BY <2>1 DEF peer_list
<1>3. /\ list \in Seq(Node) /\ Len(list) = Size(l)
      /\ \A i \in 1 .. Size(l) : list[i] \in RingById(n, l) /\ Place(list[i], l) = i - 1
  <2> HIDE DEF list
  <2> QED BY <1>1, <1>2, ListPlaces
<1>4. /\ get_peer_list_size(n, l) = Len(list) - 1
      /\ get_node_id_in_vector(n, l) \in 0 .. Len(list) - 1
      /\ list[get_node_id_in_vector(n, l) + 1] = n
  BY <1>1, OwnPlace
<1> DEFINE here == get_node_id_in_vector(n, l)
<1> HIDE DEF list, here
<1>5. \A i \in 0 .. Size(l) - 1 : /\ list[i + 1] \in RingById(n, l)
                                  /\ Place(list[i + 1], l) = i
  <2> SUFFICES ASSUME NEW i \in 0 .. Size(l) - 1
               PROVE  list[i + 1] \in RingById(n, l) /\ Place(list[i + 1], l) = i
    OBVIOUS
  <2>1. Size(l) \in Nat
    BY <1>3
  <2>2. i + 1 \in 1 .. Size(l) /\ (i + 1) - 1 = i
    BY <2>1
  <2>3. QED BY <1>3, <2>2
<1>6. here = Place(n, l)
  <2>1. here \in 0 .. Size(l) - 1 /\ list[here + 1] = n
    BY <1>3, <1>4 DEF here
  <2>2. QED BY <1>5, <2>1
<1>7. n \in RingById(n, l)
  BY <1>1 DEF RingById, SameRegion
<1>8. QED BY <1>1, <1>3, <1>4, <1>5, <1>6, <1>7 DEF list, here

\* A member that knows its order sends just the packets the cast has from it.
LEMMA WithinRingEdges ==
    ASSUME FewContacts, StructureInv, NEW n \in up, NEW l \in 0 .. Top, ResidesById(n, l),
           NEW p \in RingById(n, l), NEW x
    PROVE  x \in WithinRing(n, l, OrderFrom(p, n, l)) <=> IsEdge(p, l, x) /\ x.from = n
<1> DEFINE end_ID == get_peer_list_size(n, l)
           here == get_node_id_in_vector(n, l)
           list == peer_list(n, l)
           order == OrderFrom(p, n, l)
           z == Size(l)
           To(s) == list[Wrap(here + s, end_ID) + 1]
<1>1. /\ n \in Node /\ n \in RingById(n, l) /\ end_ID = z - 1 /\ here = Place(n, l)
      /\ \A i \in 0 .. z - 1 : list[i + 1] \in RingById(n, l) /\ Place(list[i + 1], l) = i
  BY HerePlace
<1>2. /\ p \in Node /\ ResidesById(p, l) /\ RingById(p, l) = RingById(n, l)
  BY SameRing
<1>3. /\ z \in Nat /\ order \in 0 .. z - 1
      /\ \A y \in RingById(n, l) : Place(y, l) \in 0 .. z - 1
      /\ \A y, w \in RingById(n, l) : OrderFrom(p, y, l) = OrderFrom(p, w, l) => y = w
  BY <1>1, <1>2, OrdersDiffer, PlacesDiffer
<1>4. ASSUME NEW s \in Strides, order + s <= end_ID
      PROVE  /\ To(s) \in RingById(n, l) /\ To(s) \in Node
             /\ OrderFrom(p, To(s), l) = order + s
             /\ order + s \in Int
  <2> DEFINE a == Place(n, l)
             o == Place(p, l)
             b == Wrap(a + s, z - 1)
  <2>1. s \in Nat /\ order + s <= z - 1 /\ order \in Nat
    BY <1>1, <1>3, <1>4, StridesAssumption
  <2>2. a \in 0 .. z - 1 /\ o \in 0 .. z - 1
    BY <1>1, <1>2, <1>3
  <2>3. order = IF a >= o THEN a - o ELSE a - o + z
    BY DEF OrderFrom
  <2>4. b \in 0 .. z - 1 /\ (IF b >= o THEN b - o ELSE b - o + z) = order + s
    <3> HIDE DEF a, o, z, order, b
    <3>1. z \in Nat /\ order \in 0 .. z - 1
      BY <1>3
    <3>2. CASE a + s > z - 1
      BY <2>1, <2>2, <2>3, <3>1, <3>2 DEF Wrap, b
    <3>3. CASE ~ (a + s > z - 1)
      BY <2>1, <2>2, <2>3, <3>1, <3>3 DEF Wrap, b
    <3>4. QED BY <3>2, <3>3
  <2>5. To(s) = list[b + 1]
    BY <1>1
  <2>6. To(s) \in RingById(n, l) /\ Place(To(s), l) = b
    <3> HIDE DEF list, To, b, z
    <3>1. list[b + 1] \in RingById(n, l) /\ Place(list[b + 1], l) = b
      BY <1>1, <2>4
    <3>2. QED BY <2>5, <3>1
  <2>7. OrderFrom(p, To(s), l) = order + s
    <3> HIDE DEF list, To, b, order
    <3> QED BY <2>4, <2>6 DEF OrderFrom
  <2>8. To(s) \in Node
    <3> HIDE DEF To
    <3> QED BY <2>6, SameRing
  <2>9. QED BY <2>1, <2>6, <2>7, <2>8
<1>5. ASSUME x \in WithinRing(n, l, order)
      PROVE  IsEdge(p, l, x) /\ x.from = n
  <2>1. PICK s \in Strides :
          /\ order + s <= end_ID /\ ~ (s <= order)
          /\ x = [type |-> TypeAt(To(s), l), level |-> l, order |-> order + s,
                  from |-> n, to |-> To(s)]
    BY <1>5 DEF WithinRing
  <2>2. /\ To(s) \in RingById(n, l) /\ To(s) \in Node
        /\ OrderFrom(p, To(s), l) = order + s /\ order + s \in Int
    BY <1>4, <2>1
  <2> DEFINE t == To(s)
  <2> HIDE DEF To
  <2>3. TypeAt(t, l) \in {UpFromBelow, UpSameLevel, Down, InRing}
    BY DEF TypeAt
  <2>4. x \in Message
    BY <1>1, <2>1, <2>2, <2>3 DEF Message
  <2>5. /\ x.type = TypeAt(t, l) /\ x.level = l /\ x.order = order + s
        /\ x.from = n /\ x.to = t
    BY <2>1
  <2>6. s > order
    BY <1>3, <2>1, StridesAssumption
  <2> HIDE DEF order
  <2>7. QED BY <1>1, <1>2, <2>2, <2>4, <2>5, <2>6 DEF IsEdge, order
<1>6. ASSUME IsEdge(p, l, x), x.from = n
      PROVE  x \in WithinRing(n, l, order)
  <2>1. /\ x \in Message /\ x.level = l /\ x.type = TypeAt(x.to, l)
        /\ x.to \in RingById(n, l) /\ x.order = OrderFrom(p, x.to, l)
    BY <1>2, <1>6 DEF IsEdge
  <2>2. PICK s \in Strides : s > order /\ x.order = order + s
    BY <1>6 DEF IsEdge
  <2>3. x.order \in 0 .. z - 1
    BY <1>2, <2>1, OrdersDiffer
  <2>4. order + s <= end_ID /\ ~ (s <= order)
    <3>1. s \in Nat
      BY StridesAssumption
    <3> HIDE DEF order, z, end_ID
    <3>2. QED BY <1>1, <1>3, <2>2, <2>3, <3>1
  <2>5. /\ To(s) \in RingById(n, l) /\ OrderFrom(p, To(s), l) = order + s
    BY <1>4, <2>4
  <2>6. x.to = To(s)
    <3> HIDE DEF To, order
    <3> QED BY <1>3, <2>1, <2>2, <2>5
  <2>7. x = [type |-> TypeAt(To(s), l), level |-> l, order |-> order + s,
             from |-> n, to |-> To(s)]
    <3>1. x = [type |-> x.type, level |-> x.level, order |-> x.order,
               from |-> x.from, to |-> x.to]
      BY <2>1 DEF Message
    <3> HIDE DEF To, order
    <3>2. QED BY <1>6, <2>1, <2>2, <2>6, <3>1
  <2>8. QED BY <2>4, <2>7 DEF WithinRing
<1>7. QED BY <1>5, <1>6

\* A packet of a ring.
InRingOf(p, l, x) == x.level = l /\ ~ Climbing(x) /\ x.to \in RingById(p, l)

LEMMA EdgeFacts ==
    ASSUME FewContacts, NEW p \in Node, NEW l \in 0 .. Top, ResidesById(p, l),
           NEW x, IsEdge(p, l, x)
    PROVE  /\ x \in Message /\ InRingOf(p, l, x)
           /\ x.from \in Node /\ x.to \in Node /\ x.from # x.to /\ x.to # p
           /\ x.type = TypeAt(x.to, l)
           /\ x.order = OrderFrom(p, x.to, l)
<1>1. /\ x \in Message /\ x.level = l /\ x.type = TypeAt(x.to, l)
      /\ x.from \in RingById(p, l) /\ x.to \in RingById(p, l)
      /\ x.order = OrderFrom(p, x.to, l)
  BY DEF IsEdge
<1>2. PICK s \in Strides : /\ s > OrderFrom(p, x.from, l)
                           /\ x.order = OrderFrom(p, x.from, l) + s
  BY DEF IsEdge
<1>3. ~ Climbing(x)
  BY <1>1 DEF TypeAt, Climbing, Down, InRing, UpFromBelow, UpSameLevel
<1>4. s \in Nat \ {0} /\ OrderFrom(p, x.from, l) \in Nat /\ OrderFrom(p, p, l) = 0
  BY <1>1, OrdersDiffer, StridesAssumption
<1>5. x.from # x.to /\ x.to # p
  <2>1. x.order # OrderFrom(p, x.from, l) /\ x.order # 0
    <3> DEFINE a == OrderFrom(p, x.from, l)
    <3> HIDE DEF a
    <3>1. x.order = a + s /\ s \in Nat \ {0} /\ a \in Nat
      BY <1>2, <1>4 DEF a
    <3>2. x.order # a /\ x.order # 0
      BY <3>1
    <3>3. QED BY <3>2 DEF a
  <2>2. QED BY <1>1, <1>4, <2>1
<1>6. QED BY <1>1, <1>3, <1>5, SameRing DEF InRingOf

\* A member has one packet of a cast.
LEMMA EdgeUnique ==
    ASSUME FewContacts, NEW p \in Node, NEW l \in 0 .. Top, ResidesById(p, l),
           NEW x, IsEdge(p, l, x), NEW y, IsEdge(p, l, y), x.to = y.to
    PROVE  x = y
<1> DEFINE a == OrderFrom(p, x.from, l)
           b == OrderFrom(p, y.from, l)
<1>1. /\ x \in Message /\ x.level = l /\ x.type = TypeAt(x.to, l)
      /\ x.from \in RingById(p, l) /\ x.order = OrderFrom(p, x.to, l)
      /\ y \in Message /\ y.level = l /\ y.type = TypeAt(y.to, l)
      /\ y.from \in RingById(p, l) /\ y.order = OrderFrom(p, y.to, l)
  BY DEF IsEdge
<1>2. PICK s \in Strides : s > a /\ x.order = a + s
  BY DEF IsEdge
<1>3. PICK t \in Strides : t > b /\ y.order = b + t
  BY DEF IsEdge
<1>4. a \in Nat /\ b \in Nat /\ s \in Nat /\ t \in Nat /\ x.order = y.order
  BY <1>1, OrdersDiffer, StridesAssumption
<1> HIDE DEF a, b
<1>5. ~ s < t /\ ~ t < s
  BY <1>2, <1>3, <1>4, StridesAssumption
<1>6. a = b
  BY <1>2, <1>3, <1>4, <1>5
<1>7. x.from = y.from
  BY <1>1, <1>6, OrdersDiffer DEF a, b
<1>8. /\ x = [type |-> x.type, level |-> x.level, order |-> x.order,
              from |-> x.from, to |-> x.to]
      /\ y = [type |-> y.type, level |-> y.level, order |-> y.order,
              from |-> y.from, to |-> y.to]
  BY <1>1 DEF Message
<1>9. QED BY <1>1, <1>4, <1>7, <1>8

\* broadcast_within_ring sends nothing to the own node.
LEMMA SentToOthers ==
    ASSUME FewContacts, StructureInv, NEW n \in up, NEW l \in 0 .. Top, NEW order \in Nat,
           NEW x \in WithinRing(n, l, order)
    PROVE  /\ ResidesById(n, l) /\ x.level = l /\ x.from = n /\ x.to # n
           /\ x.to \in RingById(n, l)
<1> DEFINE end_ID == get_peer_list_size(n, l)
           here == get_node_id_in_vector(n, l)
           list == peer_list(n, l)
           z == Size(l)
<1>1. PICK s \in Strides :
        /\ order + s <= end_ID
        /\ x = [type |-> TypeAt(list[Wrap(here + s, end_ID) + 1], l), level |-> l,
                order |-> order + s, from |-> n, to |-> list[Wrap(here + s, end_ID) + 1]]
  BY DEF WithinRing
<1>2. s \in Nat /\ s > 0
  BY StridesAssumption
<1>3. ResidesById(n, l)
  <2> SUFFICES ASSUME ~ ResidesById(n, l) PROVE FALSE
    OBVIOUS
  <2>1. end_ID = -1
    BY Answers DEF get_peer_list_size, FewContacts
  <2> HIDE DEF end_ID
  <2>2. QED BY <1>1, <1>2, <2>1
<1>4. /\ end_ID = z - 1 /\ here = Place(n, l) /\ n \in RingById(n, l) /\ n \in Node
      /\ \A i \in 0 .. z - 1 : list[i + 1] \in RingById(n, l) /\ Place(list[i + 1], l) = i
  BY <1>3, HerePlace
<1>5. z \in Nat /\ here \in 0 .. z - 1
  BY <1>3, <1>4, PlacesDiffer
<1> DEFINE b == Wrap(here + s, end_ID)
<1>6. b \in 0 .. z - 1 /\ b # here
  <2> HIDE DEF here, end_ID, z
  <2>1. s <= z - 1
    BY <1>1, <1>2, <1>4, <1>5
  <2>2. CASE here + s > z - 1
    BY <1>2, <1>4, <1>5, <2>1, <2>2 DEF Wrap
  <2>3. CASE ~ (here + s > z - 1)
    BY <1>2, <1>4, <1>5, <2>1, <2>3 DEF Wrap
  <2>4. QED BY <2>2, <2>3
<1>7. x.level = l /\ x.from = n /\ x.to = list[b + 1]
  BY <1>1
<1> HIDE DEF b, list, z
<1>8. x.to \in RingById(n, l) /\ Place(x.to, l) = b
  BY <1>4, <1>6, <1>7
<1>9. QED BY <1>3, <1>4, <1>6, <1>7, <1>8

-----------------------------------------------------------------------------
(***************************************************************************)
(* The inductive invariant for one or two contact nodes.  A cast of a ring *)
(* that one node alone began is a tree: a packet of it is under way, or    *)
(* lost, or handled exactly if its sender has come by the payload.  Away   *)
(* from the turn each ring has such a cast or none, since only the highest *)
(* packet of a node with single digit 0 makes it cast in the rings below.  *)
(***************************************************************************)
UnderWay(x) == Copies(x, net) + Copies(x, lost)

\* How often a member has come by the payload in its ring.
Served(n, l) == casts[n][l] + heard[n][l]

NobodyCasts(p, l) == \A n \in RingById(p, l) : casts[n][l] = 0

CastsAlone(p, l) == casts[p][l] = 1 /\ \A n \in RingById(p, l) : n # p => casts[n][l] = 0

RingQuiet(p, l) ==
    /\ \A n \in RingById(p, l) : heard[n][l] = 0
    /\ \A x \in Message : InRingOf(p, l, x) => UnderWay(x) = 0

RingTree(p, l) ==
    /\ \A n \in RingById(p, l) : Served(n, l) \in {0, 1}
    /\ \A x \in Message : InRingOf(p, l, x) =>
            IF IsEdge(p, l, x) THEN UnderWay(x) + heard[x.to][l] = Served(x.from, l)
            ELSE UnderWay(x) = 0

RingRight(p, l) == /\ NobodyCasts(p, l) => RingQuiet(p, l)
                   /\ CastsAlone(p, l) => RingTree(p, l)

RingsInv == \A p \in Node, l \in 0 .. Top : ResidesById(p, l) => RingRight(p, l)

\* The highest ring of n is that of level j.
Highest(n, j) == ResidesById(n, j) /\ (j = Top \/ ~ ResidesById(n, j + 1))

\* Outside the top region of the node that turned the broadcast around.
Far(n) == \E r \in Node : casts[r][Top] # 0 /\ n[Top] # r[Top]

FarCasts ==
    \A n \in Node : Far(n) => \A l \in 0 .. Top - 1, j \in 0 .. Top : Highest(n, j) =>
        /\ casts[n][l] = IF n[0] = 0 /\ l < j THEN heard[n][j] ELSE 0
        /\ casts[n][l] <= 1

ShownHeard ==
    \A n \in Node, j \in 0 .. Top :
        Highest(n, j) /\ casts[n][Top] = 0 => shown[n] = heard[n][j]

MembersOnly ==
    \A n \in Node, l \in 0 .. Top :
        ~ ResidesById(n, l) => casts[n][l] = 0 /\ heard[n][l] = 0

CallsClimb == \A m \in calls : Climbing(m)

CastsInv == RingsInv /\ FarCasts /\ ShownHeard /\ MembersOnly /\ CallsClimb

-----------------------------------------------------------------------------
(***************************************************************************)
(* What a step does to one ring.                                           *)
(***************************************************************************)
\* Nothing.
LEMMA RingRests ==
    ASSUME NEW p, NEW l, RingRight(p, l), p \in RingById(p, l),
           \A n \in RingById(p, l) : casts'[n][l] = casts[n][l] /\ heard'[n][l] = heard[n][l],
           \A x \in Message : InRingOf(p, l, x) => UnderWay(x)' = UnderWay(x)
    PROVE  RingRight(p, l)'
<1>1. NobodyCasts(p, l)' => NobodyCasts(p, l)
  BY DEF NobodyCasts
<1>2. CastsAlone(p, l)' => CastsAlone(p, l)
  BY DEF CastsAlone
<1>3. ASSUME RingQuiet(p, l) PROVE RingQuiet(p, l)'
  BY <1>3 DEF RingQuiet
<1>4. ASSUME RingTree(p, l) PROVE RingTree(p, l)'
  <2>1. \A n \in RingById(p, l) : Served(n, l)' = Served(n, l)
    BY DEF Served
  <2>2. ASSUME NEW x \in Message, InRingOf(p, l, x)
        PROVE  IF IsEdge(p, l, x) THEN UnderWay(x)' + heard'[x.to][l] = Served(x.from, l)'
               ELSE UnderWay(x)' = 0
    <3>1. UnderWay(x)' = UnderWay(x) /\ heard'[x.to][l] = heard[x.to][l]
      BY <2>2 DEF InRingOf
    <3>2. IsEdge(p, l, x) => Served(x.from, l)' = Served(x.from, l)
      BY <2>1 DEF IsEdge
    <3>3. IF IsEdge(p, l, x) THEN UnderWay(x) + heard[x.to][l] = Served(x.from, l)
          ELSE UnderWay(x) = 0
      BY <1>4, <2>2 DEF RingTree
    <3>4. QED BY <3>1, <3>2, <3>3
  <2>3. \A n \in RingById(p, l) : Served(n, l)' \in {0, 1}
    BY <1>4, <2>1 DEF RingTree
  <2>4. QED BY <2>2, <2>3 DEF RingTree
<1>5. QED BY <1>1, <1>2, <1>3, <1>4 DEF RingRight

\* A member begins a cast.
LEMMA RingBegins ==
    ASSUME FewContacts, StructureInv, Counters, NEW p \in Node, NEW l \in 0 .. Top,
           ResidesById(p, l), RingRight(p, l), NEW q \in RingById(p, l), q \in up,
           \A n \in RingById(p, l) :
                /\ casts'[n][l] = IF n = q THEN casts[n][l] + 1 ELSE casts[n][l]
                /\ heard'[n][l] = heard[n][l],
           \A x \in Message : InRingOf(p, l, x) =>
                UnderWay(x)' = UnderWay(x) + (IF x \in WithinRing(q, l, 0) THEN 1 ELSE 0)
    PROVE  RingRight(p, l)'
<1>1. p \in RingById(p, l) /\ OrderFrom(p, p, l) = 0
  BY OrdersDiffer
<1>2. \A n \in RingById(p, l) : casts[n][l] \in Nat /\ heard[n][l] \in Nat
  BY SameRing DEF Counters
<1>3. ~ NobodyCasts(p, l)'
  <2>1. casts'[q][l] = casts[q][l] + 1 /\ casts[q][l] \in Nat
    BY <1>2
  <2>2. casts'[q][l] # 0
    BY <2>1
  <2>3. QED BY <2>2 DEF NobodyCasts
<1>4. ASSUME CastsAlone(p, l)' PROVE RingTree(p, l)'
  <2>1. q = p
    <3>1. q # p => casts'[q][l] = 0
      BY <1>4 DEF CastsAlone
    <3>2. casts'[q][l] = casts[q][l] + 1 /\ casts[q][l] \in Nat
      BY <1>2
    <3>3. QED BY <3>1, <3>2
  <2>2. casts[p][l] = 0 /\ casts'[p][l] = 1
    <3>1. casts'[p][l] = 1 /\ casts'[p][l] = casts[p][l] + 1 /\ casts[p][l] \in Nat
      BY <1>1, <1>2, <1>4, <2>1 DEF CastsAlone
    <3>2. QED BY <3>1
  <2>3. \A n \in RingById(p, l) : n # p => casts[n][l] = 0 /\ casts'[n][l] = 0
    BY <1>4, <2>1 DEF CastsAlone
  <2>4. NobodyCasts(p, l)
    BY <2>2, <2>3 DEF NobodyCasts
  <2>5. /\ \A n \in RingById(p, l) : heard[n][l] = 0
        /\ \A x \in Message : InRingOf(p, l, x) => UnderWay(x) = 0
    BY <2>4 DEF RingRight, RingQuiet
  <2>6. \A n \in RingById(p, l) : /\ Served(n, l)' = IF n = p THEN 1 ELSE 0
                                  /\ heard'[n][l] = 0
    <3> SUFFICES ASSUME NEW n \in RingById(p, l)
                 PROVE  /\ Served(n, l)' = IF n = p THEN 1 ELSE 0
                        /\ heard'[n][l] = 0
      OBVIOUS
    <3>1. heard'[n][l] = 0
      BY <2>5
    <3>2. casts'[n][l] = IF n = p THEN 1 ELSE 0
      BY <2>2, <2>3
    <3>3. QED BY <3>1, <3>2 DEF Served
  <2>7. ASSUME NEW x \in Message, InRingOf(p, l, x)
        PROVE  IF IsEdge(p, l, x) THEN UnderWay(x)' + heard'[x.to][l] = Served(x.from, l)'
               ELSE UnderWay(x)' = 0
    <3>1. x \in WithinRing(p, l, 0) <=> IsEdge(p, l, x) /\ x.from = p
      <4>1. x \in WithinRing(p, l, OrderFrom(p, p, l)) <=> IsEdge(p, l, x) /\ x.from = p
        BY <1>1, <2>1, WithinRingEdges
      <4>2. QED BY <1>1, <4>1
    <3>2. UnderWay(x)' = IF x \in WithinRing(p, l, 0) THEN 1 ELSE 0
      BY <2>1, <2>5, <2>7
    <3>3. CASE IsEdge(p, l, x)
      <4>1. x.from \in RingById(p, l) /\ x.to \in RingById(p, l)
        BY <3>3 DEF IsEdge
      <4>2. heard'[x.to][l] = 0 /\ Served(x.from, l)' = IF x.from = p THEN 1 ELSE 0
        BY <2>6, <4>1
      <4>3. QED BY <3>1, <3>2, <3>3, <4>2
    <3>4. CASE ~ IsEdge(p, l, x)
      BY <3>1, <3>2, <3>4
    <3>5. QED BY <3>3, <3>4
  <2>8. \A n \in RingById(p, l) : Served(n, l)' \in {0, 1}
    BY <2>6
  <2>9. QED BY <2>7, <2>8 DEF RingTree
<1>5. QED BY <1>3, <1>4 DEF RingRight

\* A packet that is under way in the ring of a lone cast is one of this cast;
\* its receiver has not come by the payload, its sender has.
LEMMA EdgeUnderWay ==
    ASSUME FewContacts, Counters, NEW p \in Node, NEW l \in 0 .. Top,
           ResidesById(p, l), CastsAlone(p, l), RingTree(p, l),
           NEW m \in Message, InRingOf(p, l, m), UnderWay(m) # 0, UnderWay(m) \in Nat
    PROVE  /\ IsEdge(p, l, m) /\ m.to # p /\ m.from # m.to
           /\ UnderWay(m) = 1 /\ Served(m.from, l) = 1
           /\ casts[m.to][l] = 0 /\ heard[m.to][l] = 0 /\ Served(m.to, l) = 0
<1>1. IsEdge(p, l, m) /\ UnderWay(m) + heard[m.to][l] = Served(m.from, l)
  BY DEF RingTree
<1>2. m.to # p /\ m.from # m.to
  BY <1>1, EdgeFacts
<1>3. m.to \in RingById(p, l) /\ m.from \in RingById(p, l)
  BY <1>1 DEF IsEdge
<1>4. casts[m.to][l] = 0 /\ heard[m.to][l] \in Nat
  <2>1. m.to \in Node
    BY <1>3, SameRing
  <2>2. QED BY <1>2, <1>3, <2>1 DEF CastsAlone, Counters
<1>5. Served(m.from, l) \in {0, 1}
  BY <1>3 DEF RingTree
<1>6. UnderWay(m) = 1 /\ heard[m.to][l] = 0 /\ Served(m.from, l) = 1
  <2> DEFINE u == UnderWay(m)
             h == heard[m.to][l]
             s == Served(m.from, l)
  <2>1. u \in Nat /\ u # 0 /\ h \in Nat /\ s \in {0, 1} /\ u + h = s
    BY <1>1, <1>4, <1>5
  <2> HIDE DEF u, h, s
  <2>2. u = 1 /\ h = 0 /\ s = 1
    BY <2>1
  <2>3. QED BY <2>2 DEF u, h, s
<1>7. QED BY <1>1, <1>2, <1>4, <1>6 DEF Served

\* A member handles a packet of the ring, and passes it on.
LEMMA RingPasses ==
    ASSUME FewContacts, StructureInv, Counters, NEW p \in Node, NEW l \in 0 .. Top,
           ResidesById(p, l), RingRight(p, l),
           NEW m \in Message, InRingOf(p, l, m), m.to \in up,
           UnderWay(m) # 0, \A x : UnderWay(x) \in Nat,
           \A n \in RingById(p, l) :
                /\ casts'[n][l] = casts[n][l]
                /\ heard'[n][l] = IF n = m.to THEN heard[n][l] + 1 ELSE heard[n][l],
           \A x \in Message : InRingOf(p, l, x) =>
                UnderWay(x)' = UnderWay(x) - (IF x = m THEN 1 ELSE 0)
                                 + (IF x \in WithinRing(m.to, l, m.order) THEN 1 ELSE 0)
    PROVE  RingRight(p, l)'
<1>1. p \in RingById(p, l) /\ m.to \in RingById(p, l)
  BY OrdersDiffer DEF InRingOf
<1>2. ~ NobodyCasts(p, l)'
  <2>1. NobodyCasts(p, l)' => NobodyCasts(p, l)
    BY DEF NobodyCasts
  <2>2. QED BY <2>1 DEF RingRight, RingQuiet
<1>3. ASSUME CastsAlone(p, l)' PROVE RingTree(p, l)'
  <2>1. CastsAlone(p, l) /\ RingTree(p, l)
    BY <1>1, <1>3 DEF CastsAlone, RingRight
  <2>2. /\ IsEdge(p, l, m) /\ m.to # p /\ m.from # m.to
        /\ UnderWay(m) = 1 /\ Served(m.from, l) = 1
        /\ casts[m.to][l] = 0 /\ heard[m.to][l] = 0 /\ Served(m.to, l) = 0
    BY <2>1, EdgeUnderWay
  <2>3. \A n \in RingById(p, l) :
            /\ Served(n, l)' = IF n = m.to THEN 1 ELSE Served(n, l)
            /\ heard'[n][l] = IF n = m.to THEN 1 ELSE heard[n][l]
    <3> SUFFICES ASSUME NEW n \in RingById(p, l)
                 PROVE  /\ Served(n, l)' = IF n = m.to THEN 1 ELSE Served(n, l)
                        /\ heard'[n][l] = IF n = m.to THEN 1 ELSE heard[n][l]
      OBVIOUS
    <3>1. /\ casts'[n][l] = casts[n][l]
          /\ heard'[n][l] = IF n = m.to THEN heard[n][l] + 1 ELSE heard[n][l]
      OBVIOUS
    <3>2. QED BY <2>2, <3>1 DEF Served
  <2>4. \A x : x \in WithinRing(m.to, l, m.order) <=> IsEdge(p, l, x) /\ x.from = m.to
    <3>1. m.order = OrderFrom(p, m.to, l)
      BY <2>2 DEF IsEdge
    <3>2. ResidesById(m.to, l) /\ RingById(m.to, l) = RingById(p, l)
      BY <1>1, SameRing
    <3>3. \A x : x \in WithinRing(m.to, l, OrderFrom(p, m.to, l))
                    <=> IsEdge(p, l, x) /\ x.from = m.to
      BY <1>1, <3>2, WithinRingEdges
    <3>4. QED BY <3>1, <3>3
  <2>5. ASSUME NEW x \in Message, InRingOf(p, l, x)
        PROVE  IF IsEdge(p, l, x) THEN UnderWay(x)' + heard'[x.to][l] = Served(x.from, l)'
               ELSE UnderWay(x)' = 0
    <3>1. UnderWay(x)' = UnderWay(x) - (IF x = m THEN 1 ELSE 0)
                            + (IF IsEdge(p, l, x) /\ x.from = m.to THEN 1 ELSE 0)
      BY <2>4, <2>5
    <3>2. IF IsEdge(p, l, x) THEN UnderWay(x) + heard[x.to][l] = Served(x.from, l)
          ELSE UnderWay(x) = 0
      BY <2>1, <2>5 DEF RingTree
    <3>3. UnderWay(x) \in Nat
      OBVIOUS
    <3>4. CASE ~ IsEdge(p, l, x)
      BY <2>2, <3>1, <3>2, <3>4
    <3>5. CASE IsEdge(p, l, x) /\ x = m
      <4>1. m.from \in RingById(p, l)
        BY <2>2 DEF IsEdge
      <4>2. heard'[m.to][l] = 1 /\ Served(m.from, l)' = 1
        BY <1>1, <2>2, <2>3, <4>1
      <4>3. UnderWay(x)' = 0
        BY <2>2, <3>1, <3>5
      <4>4. QED BY <3>5, <4>2, <4>3
    <3>6. CASE IsEdge(p, l, x) /\ x # m
      <4>1. x.to \in RingById(p, l) /\ x.from \in RingById(p, l)
        BY <3>6 DEF IsEdge
      <4>2. x.to # m.to /\ x.to \in Node
        BY <2>2, <3>6, <4>1, EdgeUnique, SameRing
      <4>3. heard'[x.to][l] = heard[x.to][l] /\ heard[x.to][l] \in Nat
        BY <2>3, <4>1, <4>2 DEF Counters
      <4>4. Served(x.from, l)' = IF x.from = m.to THEN 1 ELSE Served(x.from, l)
        BY <2>3, <4>1
      <4>5. UnderWay(x)' = UnderWay(x) + (IF x.from = m.to THEN 1 ELSE 0)
        BY <3>1, <3>3, <3>6
      <4>6. UnderWay(x) + heard[x.to][l] = Served(x.from, l)
        BY <3>2, <3>6
      <4>7. CASE x.from = m.to
        <5>1. UnderWay(x) + heard[x.to][l] = 0
          BY <2>2, <4>6, <4>7
        <5>2. UnderWay(x) = 0 /\ heard[x.to][l] = 0
          BY <3>3, <4>3, <5>1
        <5>3. UnderWay(x)' + heard'[x.to][l] = 1 /\ Served(x.from, l)' = 1
          BY <4>3, <4>4, <4>5, <4>7, <5>2
        <5>4. QED BY <3>6, <5>3
      <4>8. CASE x.from # m.to
        <5>1. UnderWay(x)' = UnderWay(x)
          BY <3>3, <4>5, <4>8
        <5>2. QED BY <3>6, <4>3, <4>4, <4>6, <4>8, <5>1
      <4>9. QED BY <4>7, <4>8
    <3>7. QED BY <3>4, <3>5, <3>6
  <2>6. \A n \in RingById(p, l) : Served(n, l)' \in {0, 1}
    BY <2>1, <2>3 DEF RingTree
  <2>7. QED BY <2>5, <2>6 DEF RingTree
<1>4. QED BY <1>2, <1>3 DEF RingRight

\* What the handler of m sends in its ring of level l, if it begins casts at
\* the levels D.
Sent(m, D, l) ==
    IF ~ Climbing(m) /\ l = m.level THEN WithinRing(m.to, l, m.order)
    ELSE IF l \in D THEN WithinRing(m.to, l, 0) ELSE {}

LEMMA UnderWayType ==
    ASSUME Counters
    PROVE  \A x : UnderWay(x) \in Nat
  BY CopiesType DEF UnderWay, Counters

\* All rings at once.
LEMMA HandlerRings ==
    ASSUME FewContacts, ClimbInv, RingsInv, CallsClimb,
           NEW m \in Pending, Runs(m), NEW S, NEW D, Sends(m, S, D), lost' = lost,
           ~ Climbing(m) => m.level \notin D,
           \A n \in Node, l \in 0 .. Top : heard'[n][l] =
                IF ~ Climbing(m) /\ n = m.to /\ l = m.level THEN heard[n][l] + 1
                ELSE heard[n][l],
           \A x : ~ Climbing(x) => (x \in S <=> \E l \in 0 .. Top : x \in Sent(m, D, l))
    PROVE  RingsInv' /\ CallsClimb'
<1> DEFINE q == m.to
<1>1. /\ SameLimits /\ StructureInv /\ Counters
      /\ q \in up /\ q \in Node /\ RightMessage(m)
      /\ \A x : UnderWay(x) \in Nat
  BY HandlerIsUp, UnderWayType DEF ClimbInv, FewContacts
<1>2. ~ Climbing(m) => /\ m.level \in 0 .. Top /\ m.order \in Nat /\ m \in Message
                       /\ q \in RingById(m.from, m.level)
  BY <1>1, PacketHandled DEF RightMessage
<1>3. ASSUME NEW l \in 0 .. Top, NEW x \in Sent(m, D, l)
      PROVE  ResidesById(q, l) /\ x.level = l /\ x.to # q /\ x.to \in RingById(q, l)
  <2>1. PICK order \in Nat : x \in WithinRing(q, l, order)
    BY <1>2, <1>3 DEF Sent
  <2>2. QED BY <1>1, <2>1, SentToOthers
<1>4. ASSUME NEW x, ~ Climbing(x), x \in S
      PROVE  x.to # q
  BY <1>3, <1>4
<1>5. CallsClimb'
  <2> SUFFICES ASSUME NEW x \in calls' PROVE Climbing(x)
    BY DEF CallsClimb
  <2>1. x \in (calls \ {m}) \cup {y \in S : y.to = m.to}
    BY DEF Sends
  <2>2. CASE x \in calls
    BY <2>2 DEF CallsClimb
  <2>3. CASE x \in S /\ x.to = m.to
    BY <1>4, <2>3
  <2>4. QED BY <2>1, <2>2, <2>3
<1>6. ASSUME NEW x, ~ Climbing(x), NEW l \in 0 .. Top, x.level = l
      PROVE  UnderWay(x)' = UnderWay(x) - (IF x = m THEN 1 ELSE 0)
                                + (IF x \in Sent(m, D, l) THEN 1 ELSE 0)
  <2>1. Copies(x, net') = Copies(x, net) - (IF x = m /\ m \notin calls THEN 1 ELSE 0)
                                + (IF x \in S /\ x.to # m.to THEN 1 ELSE 0)
    BY SentCopies
  <2>2. x = m => m \notin calls
    BY <1>6 DEF CallsClimb
  <2>3. x \in S <=> x \in Sent(m, D, l)
    <3>1. x \in S <=> \E j \in 0 .. Top : x \in Sent(m, D, j)
      BY <1>6
    <3>2. \A j \in 0 .. Top : x \in Sent(m, D, j) => j = l
      BY <1>3, <1>6
    <3>3. QED BY <3>1, <3>2
  <2>4. Copies(x, net) \in Nat /\ Copies(x, lost) \in Nat
    BY <1>1, CopiesType DEF Counters
  <2>5. Copies(x, net') = Copies(x, net) - (IF x = m THEN 1 ELSE 0)
                                + (IF x \in Sent(m, D, l) THEN 1 ELSE 0)
    BY <1>4, <1>6, <2>1, <2>2, <2>3
  <2>6. UnderWay(x)' = Copies(x, net') + Copies(x, lost)
    BY DEF UnderWay
  <2>7. QED BY <2>4, <2>5, <2>6 DEF UnderWay
<1>7. \A n \in Node, l \in 0 .. Top : casts'[n][l] =
            IF n = q /\ l \in D THEN casts[n][l] + 1 ELSE casts[n][l]
  BY SentCasts
<1>8. ASSUME NEW p \in Node, NEW l \in 0 .. Top, ResidesById(p, l)
      PROVE  RingRight(p, l)'
  <2>1. RingRight(p, l) /\ p \in RingById(p, l)
    BY <1>8, OrdersDiffer DEF RingsInv
  <2>2. \A n \in RingById(p, l) : n \in Node
    BY SameRing
  <2>3. \A x \in Message : InRingOf(p, l, x) => ~ Climbing(x) /\ x.level = l
    BY DEF InRingOf
  <2>4. CASE q \in RingById(p, l) /\ ~ Climbing(m) /\ l = m.level
    <3>1. m \in Message /\ InRingOf(p, l, m)
      BY <1>2, <2>4 DEF InRingOf
    <3>2. UnderWay(m) # 0
      <4>1. m \in BagToSet(net)
        BY <2>4, HandlerIsUp DEF CallsClimb
      <4>2. Copies(m, net) \in Nat /\ Copies(m, net) > 0 /\ Copies(m, lost) \in Nat
        BY <1>1, <4>1, CopiesType DEF Counters
      <4>3. QED BY <4>2 DEF UnderWay
    <3>3. \A n \in RingById(p, l) :
            /\ casts'[n][l] = casts[n][l]
            /\ heard'[n][l] = IF n = m.to THEN heard[n][l] + 1 ELSE heard[n][l]
      BY <1>7, <2>2, <2>4
    <3>4. \A x \in Message : InRingOf(p, l, x) =>
            UnderWay(x)' = UnderWay(x) - (IF x = m THEN 1 ELSE 0)
                             + (IF x \in WithinRing(m.to, l, m.order) THEN 1 ELSE 0)
      <4>1. Sent(m, D, l) = WithinRing(m.to, l, m.order)
        BY <2>4 DEF Sent
      <4>2. QED BY <1>6, <2>3, <4>1
    <3>5. QED BY <1>1, <1>8, <2>1, <3>1, <3>2, <3>3, <3>4, RingPasses
  <2>5. CASE q \in RingById(p, l) /\ l \in D
    <3>1. Climbing(m) \/ l # m.level
      BY <2>5
    <3>2. \A n \in RingById(p, l) :
            /\ casts'[n][l] = IF n = q THEN casts[n][l] + 1 ELSE casts[n][l]
            /\ heard'[n][l] = heard[n][l]
      BY <1>7, <2>2, <2>5, <3>1
    <3>3. \A x \in Message : InRingOf(p, l, x) =>
            UnderWay(x)' = UnderWay(x) + (IF x \in WithinRing(q, l, 0) THEN 1 ELSE 0)
      <4>1. Sent(m, D, l) = WithinRing(q, l, 0)
        BY <2>5, <3>1 DEF Sent
      <4> SUFFICES ASSUME NEW x \in Message, InRingOf(p, l, x)
                   PROVE  UnderWay(x)' = UnderWay(x)
                                            + (IF x \in WithinRing(q, l, 0) THEN 1 ELSE 0)
        OBVIOUS
      <4>2. x # m
        BY <2>3, <3>1
      <4>3. UnderWay(x)' = UnderWay(x) - (IF x = m THEN 1 ELSE 0)
                                + (IF x \in Sent(m, D, l) THEN 1 ELSE 0)
        BY <1>6, <2>3
      <4>4. UnderWay(x) \in Nat
        BY <1>1
      <4>5. QED BY <4>1, <4>2, <4>3, <4>4
    <3>4. QED BY <1>1, <1>8, <2>1, <2>5, <3>2, <3>3, RingBegins
  <2>6. CASE \/ q \notin RingById(p, l)
             \/ (Climbing(m) \/ l # m.level) /\ l \notin D
    <3>1. \A n \in RingById(p, l) : casts'[n][l] = casts[n][l] /\ heard'[n][l] = heard[n][l]
      BY <1>7, <2>2, <2>6
    <3>2. ASSUME NEW x \in Message, InRingOf(p, l, x) PROVE UnderWay(x)' = UnderWay(x)
      <4>1. x # m
        <5>1. ~ Climbing(x) /\ x.level = l /\ x.to \in RingById(p, l)
          BY <3>2 DEF InRingOf
        <5>2. x = m => m.to \in RingById(p, l) /\ m.level \notin D
          BY <5>1
        <5>3. QED BY <2>6, <5>1, <5>2
      <4>2. x \notin Sent(m, D, l)
        <5>1. CASE q \notin RingById(p, l)
          <6> SUFFICES ASSUME x \in Sent(m, D, l) PROVE FALSE
            OBVIOUS
          <6>1. ResidesById(q, l) /\ x.to \in RingById(q, l) /\ x.to \in RingById(p, l)
            BY <1>3, <3>2 DEF InRingOf
          <6>2. RingById(q, l) = RingById(p, l)
            BY <6>1, SameRing
          <6>3. q \in RingById(q, l)
            BY <1>1, <6>1 DEF RingById, SameRegion
          <6>4. QED BY <5>1, <6>2, <6>3
        <5>2. CASE (Climbing(m) \/ l # m.level) /\ l \notin D
          BY <5>2 DEF Sent
        <5>3. QED BY <2>6, <5>1, <5>2
      <4>3. UnderWay(x)' = UnderWay(x) - (IF x = m THEN 1 ELSE 0)
                                + (IF x \in Sent(m, D, l) THEN 1 ELSE 0)
        BY <1>6, <2>3, <3>2
      <4>4. UnderWay(x) \in Nat
        BY <1>1
      <4>5. QED BY <4>1, <4>2, <4>3, <4>4
    <3>3. QED BY <2>1, <3>1, <3>2, RingRests
  <2>7. QED BY <2>4, <2>5, <2>6
<1>9. QED BY <1>5, <1>8 DEF RingsInv

-----------------------------------------------------------------------------
(***************************************************************************)
(* Away from the turn.                                                     *)
(***************************************************************************)
\* A ring has one member that resides above it with single digit 0.
LEMMA OneCaster ==
    ASSUME NEW n \in Node, NEW l \in 0 .. Top, NEW p \in RingById(n, l), NEW q \in RingById(n, l),
           ResidesById(p, l + 1), ResidesById(q, l + 1), p[0] = 0, q[0] = 0
    PROVE  p = q
<1>1. l \in Nat /\ Top \in 0 .. 5 /\ (l + 1) - 1 = l /\ l + 1 > 0
  BY TopType
<1>2. /\ p \in Node /\ q \in Node
      /\ \A d \in l + 1 .. Top : p[d] = n[d] /\ q[d] = n[d]
  BY RegionDigits DEF RingById
<1>3. \A d \in 1 .. l : p[d] = 0 /\ q[d] = 0
  BY <1>1 DEF ResidesById
<1>4. \A d \in 0 .. Top : p[d] = q[d]
  BY <1>1, <1>2, <1>3
<1>5. p \in [0 .. Top -> Nat] /\ q \in [0 .. Top -> Nat]
  BY <1>2, Digits
<1>6. QED BY <1>4, <1>5, SameIds

\* Each node has a highest ring.
LEMMA HighestExists ==
    ASSUME NEW n \in Node
    PROVE  \E j \in 0 .. Top : Highest(n, j)
<1>1. Top \in 0 .. 5 /\ ResidesById(n, 0)
  BY TopType DEF ResidesById
<1>2. SUFFICES ASSUME \A j \in 0 .. Top : ~ Highest(n, j) PROVE FALSE
  OBVIOUS
<1>3. \A j \in 0 .. Top : ResidesById(n, j) => j # Top /\ ResidesById(n, j + 1)
  BY <1>2 DEF Highest
<1> DEFINE P(j) == ResidesById(n, j)
<1> HIDE DEF P
<1>4. P(0) /\ \A j \in 0 .. Top : P(j) => j # Top /\ P(j + 1)
  BY <1>1, <1>3 DEF P
<1>5. QED BY <1>1, <1>4

\* It is the one level up to which n resides.
LEMMA HighestIs ==
    ASSUME NEW n \in Node, NEW j \in 0 .. Top, Highest(n, j)
    PROVE  \A l \in 0 .. Top : ResidesById(n, l) <=> l <= j
<1>1. Top \in 0 .. 5 /\ ResidesById(n, j) /\ (j = Top \/ ~ ResidesById(n, j + 1))
  BY TopType DEF Highest
<1> SUFFICES ASSUME NEW l \in 0 .. Top PROVE ResidesById(n, l) <=> l <= j
  OBVIOUS
<1>2. ASSUME l <= j PROVE ResidesById(n, l)
  <2>1. j \in 0 .. 6 /\ l \in 0 .. j
    BY <1>1, <1>2
  <2>2. QED BY <1>1, <2>1, ResidesDown
<1>3. ASSUME ResidesById(n, l), ~ (l <= j) PROVE FALSE
  <2>1. l \in 0 .. 6 /\ j + 1 \in 0 .. l /\ j # Top
    BY <1>1, <1>3
  <2>2. ResidesById(n, j + 1)
    BY <1>3, <2>1, ResidesDown
  <2>3. QED BY <1>1, <2>1, <2>2
<1>4. QED BY <1>2, <1>3

\* Who casts in a ring far from the turn.
LEMMA FarCaster ==
    ASSUME FarCasts, NEW q \in Node, Far(q), NEW l \in 0 .. Top - 1, casts[q][l] # 0
    PROVE  q[0] = 0 /\ ResidesById(q, l + 1) /\ casts[q][l] <= 1
<1>1. PICK j \in 0 .. Top : Highest(q, j)
  BY HighestExists
<1>2. q[0] = 0 /\ l < j /\ casts[q][l] <= 1
  <2>1. /\ casts[q][l] = IF q[0] = 0 /\ l < j THEN heard[q][j] ELSE 0
        /\ casts[q][l] <= 1
    BY <1>1 DEF FarCasts
  <2>2. QED BY <2>1
<1>3. l + 1 \in 0 .. Top /\ l + 1 <= j
  BY <1>2, TopType
<1>4. QED BY <1>1, <1>2, <1>3, HighestIs

\* In each ring far from the turn, and in the top ring, one member casts, or none.
LEMMA FarRing ==
    ASSUME FewContacts, ClimbInv, FarCasts, MembersOnly, NEW n \in Node,
           NEW l \in 0 .. Top, ResidesById(n, l), Far(n)
    PROVE  \/ NobodyCasts(n, l)
           \/ \E p \in RingById(n, l) :
                /\ CastsAlone(p, l)
                /\ l < Top => p[0] = 0 /\ ResidesById(p, l + 1)
<1>1. Top \in 0 .. 5 /\ l \in Nat /\ casts \in [Node -> [0 .. Top -> Nat]]
  BY TopType DEF ClimbInv, Counters
<1>2. PICK r \in Node : casts[r][Top] # 0 /\ n[Top] # r[Top]
  BY DEF Far
<1>3. CASE l = Top
  <2>1. PICK t \in Node : \A x \in Node : casts[x][Top] = IF x = t THEN 1 ELSE 0
    <3>1. ~ NothingCast
      BY <1>1, <1>2 DEF NothingCast
    <3>2. QED BY <3>1 DEF ClimbInv, Phase
  <2>2. ResidesById(t, Top)
    <3>1. casts[t][Top] = 1 /\ Top \in 0 .. Top
      BY <1>1, <2>1
    <3>2. QED BY <3>1 DEF MembersOnly
  <2>3. t \in RingById(n, l)
    <3>1. \A d \in l + 1 .. Top : t[d] = n[d]
      BY <1>1, <1>3
    <3>2. QED BY <1>3, <2>2, <3>1, RegionDigits DEF RingById
  <2>4. CastsAlone(t, l)
    <3>1. \A x \in RingById(t, l) : x \in Node
      BY SameRing
    <3>2. QED BY <1>3, <2>1, <3>1 DEF CastsAlone
  <2>5. QED BY <1>3, <2>3, <2>4, <1>1
<1>4. CASE l # Top
  <2>1. l \in 0 .. Top - 1 /\ Top \in l + 1 .. Top
    BY <1>1, <1>4
  <2>2. ASSUME NEW q \in RingById(n, l), casts[q][l] # 0
        PROVE  q[0] = 0 /\ ResidesById(q, l + 1) /\ casts[q][l] = 1
    <3>1. q \in Node /\ q[Top] = n[Top]
      BY <2>1, RegionDigits DEF RingById
    <3>2. Far(q)
      BY <1>2, <3>1 DEF Far
    <3>3. q[0] = 0 /\ ResidesById(q, l + 1) /\ casts[q][l] <= 1
      BY <2>1, <2>2, <3>1, <3>2, FarCaster
    <3>4. casts[q][l] \in Nat
      BY <1>1, <3>1
    <3>5. QED BY <2>2, <3>3, <3>4
  <2>3. CASE NobodyCasts(n, l)
    BY <2>3
  <2>4. CASE ~ NobodyCasts(n, l)
    <3>1. PICK p \in RingById(n, l) : casts[p][l] # 0
      BY <2>4 DEF NobodyCasts
    <3>2. p[0] = 0 /\ ResidesById(p, l + 1) /\ casts[p][l] = 1
      BY <2>2, <3>1
    <3>3. ASSUME NEW q \in RingById(p, l), q # p PROVE casts[q][l] = 0
      <4>1. q \in RingById(n, l)
        BY SameRing
      <4>2. casts[q][l] # 0 => q[0] = 0 /\ ResidesById(q, l + 1)
        BY <2>2, <4>1
      <4>3. QED BY <3>2, <3>3, <4>1, <4>2, OneCaster
    <3>4. CastsAlone(p, l)
      BY <3>2, <3>3 DEF CastsAlone
    <3>5. QED BY <3>2, <3>4
  <2>5. QED BY <2>3, <2>4
<1>5. QED BY <1>3, <1>4

-----------------------------------------------------------------------------
(***************************************************************************)
(* The steps.                                                              *)
(***************************************************************************)
\* Unchanged counters and unchanged copies of packets leave the casts as they are.
LEMMA CastsStay ==
    ASSUME FewContacts, CastsInv,
           \A n \in Node, l \in 0 .. Top : casts'[n][l] = casts[n][l],
           UNCHANGED <<heard, shown>>,
           \A x \in Message : ~ Climbing(x) => UnderWay(x)' = UnderWay(x),
           CallsClimb'
    PROVE  CastsInv'
<1>1. RingsInv'
  <2> SUFFICES ASSUME NEW p \in Node, NEW l \in 0 .. Top, ResidesById(p, l)
               PROVE  RingRight(p, l)'
    BY DEF RingsInv
  <2>1. RingRight(p, l) /\ p \in RingById(p, l)
    BY OrdersDiffer DEF RingsInv, CastsInv
  <2>2. \A n \in RingById(p, l) : casts'[n][l] = casts[n][l] /\ heard'[n][l] = heard[n][l]
    BY SameRing
  <2>3. \A x \in Message : InRingOf(p, l, x) => UnderWay(x)' = UnderWay(x)
    BY DEF InRingOf
  <2>4. QED BY <2>1, <2>2, <2>3, RingRests
<1>2. Top \in 0 .. 5 /\ \A l \in 0 .. Top - 1 : l \in 0 .. Top
  BY TopType
<1>3. FarCasts'
  <2> SUFFICES ASSUME NEW n \in Node, Far(n)', NEW l \in 0 .. Top - 1, NEW j \in 0 .. Top,
                      Highest(n, j)
               PROVE  /\ casts'[n][l] = IF n[0] = 0 /\ l < j THEN heard'[n][j] ELSE 0
                      /\ casts'[n][l] <= 1
    BY DEF FarCasts
  <2>1. Far(n)
    BY <1>2 DEF Far
  <2>2. /\ casts[n][l] = IF n[0] = 0 /\ l < j THEN heard[n][j] ELSE 0
        /\ casts[n][l] <= 1
    BY <2>1 DEF FarCasts, CastsInv
  <2>3. QED BY <1>2, <2>2
<1>4. ShownHeard' /\ MembersOnly'
  BY <1>2 DEF CastsInv, ShownHeard, MembersOnly
<1>5. QED BY <1>1, <1>3, <1>4 DEF CastsInv

LEMMA CastsAtStart ==
    ASSUME FewContacts, Init
    PROVE  CastsInv
<1>1. BagToSet(net) = {} /\ BagToSet(lost) = {} /\ calls = {}
  BY BagOfNone DEF Init
<1>2. /\ \A n \in Node : shown[n] = 0
      /\ \A n \in Node, l \in 0 .. Top : casts[n][l] = 0 /\ heard[n][l] = 0
  BY DEF Init
<1>3. \A x : UnderWay(x) = 0
  BY <1>1 DEF UnderWay, Copies
<1>4. Top \in 0 .. 5
  BY TopType
<1>5. RingsInv
  <2> SUFFICES ASSUME NEW p \in Node, NEW l \in 0 .. Top, ResidesById(p, l)
               PROVE  RingRight(p, l)
    BY DEF RingsInv
  <2>1. RingQuiet(p, l)
    BY <1>2, <1>3, SameRing DEF RingQuiet
  <2>2. ~ CastsAlone(p, l)
    BY <1>2 DEF CastsAlone
  <2>3. QED BY <2>1, <2>2 DEF RingRight
<1>6. FarCasts
  <2>1. \A n \in Node : ~ Far(n)
    BY <1>2, <1>4 DEF Far
  <2>2. QED BY <2>1 DEF FarCasts
<1>7. ShownHeard /\ MembersOnly /\ CallsClimb
  BY <1>1, <1>2 DEF ShownHeard, MembersOnly, CallsClimb
<1>8. QED BY <1>5, <1>6, <1>7 DEF CastsInv

LEMMA CastsBroadcast ==
    ASSUME FewContacts, ClimbInv, CastsInv, NEW n \in Origins, Broadcast(n)
    PROVE  CastsInv'
<1>1. PICK r \in get_contact_nodes(n, 0) :
        LET m == [type |-> UpSameLevel, level |-> 0, order |-> -1, from |-> n, to |-> r]
        IN  IF r = n THEN calls' = {m} /\ UNCHANGED net
                     ELSE net' = SetToBag({m}) /\ UNCHANGED calls
  BY DEF Broadcast
<1> DEFINE m == [type |-> UpSameLevel, level |-> 0, order |-> -1, from |-> n, to |-> r]
<1>2. /\ origin = NoNode /\ UNCHANGED <<hash, up, casts, heard, shown, lost>>
  BY DEF Broadcast
<1>3. Climbing(m)
  BY DEF Climbing
<1> HIDE DEF m
<1>4. BagToSet(net) = {} /\ calls = {}
  BY <1>2 DEF ClimbInv, Pending
<1>5. BagToSet(net') \subseteq {m} /\ calls' \subseteq {m}
  <2>1. CASE r = n
    BY <1>1, <1>4, <2>1 DEF m
  <2>2. CASE r # n
    <3>1. net' = SetToBag({m}) /\ calls' = {}
      BY <1>1, <1>4, <2>2 DEF m
    <3>2. BagToSet(net') = {m}
      BY <3>1, BagOfOne
    <3>3. QED BY <3>1, <3>2
  <2>3. QED BY <2>1, <2>2
<1>6. ASSUME NEW x \in Message, ~ Climbing(x) PROVE UnderWay(x)' = UnderWay(x)
  <2>1. x # m
    BY <1>3, <1>6
  <2>2. Copies(x, net') = 0 /\ Copies(x, net) = 0 /\ lost' = lost
    BY <1>2, <1>4, <1>5, <2>1 DEF Copies
  <2>3. QED BY <2>2 DEF UnderWay
<1>7. CallsClimb'
  BY <1>3, <1>5 DEF CallsClimb
<1>8. \A x \in Node, l \in 0 .. Top : casts'[x][l] = casts[x][l]
  BY <1>2
<1>9. UNCHANGED <<heard, shown>>
  BY <1>2
<1>10. QED BY <1>6, <1>7, <1>8, <1>9, CastsStay

LEMMA CastsClimb ==
    ASSUME FewContacts, ClimbInv, CastsInv, NEW m \in Pending, Climb(m)
    PROVE  CastsInv'
<1>1. PICK r \in get_contact_nodes(m.to, ClimbsTo(m) + 1) :
        Sends(m, {[type |-> UpFromBelow, level |-> ClimbsTo(m), order |-> -1,
                   from |-> m.to, to |-> r]}, {})
  BY DEF Climb
<1> DEFINE x == [type |-> UpFromBelow, level |-> ClimbsTo(m), order |-> -1,
                 from |-> m.to, to |-> r]
<1>2. /\ Runs(m) /\ Climbing(m)
      /\ UNCHANGED <<hash, up, origin, heard, shown, lost>>
  BY DEF Climb
<1>3. Climbing(x) /\ Sends(m, {x}, {})
  BY <1>1 DEF Climbing
<1> HIDE DEF x
<1>4. \A n \in Node, l \in 0 .. Top : casts'[n][l] = casts[n][l]
  BY <1>2, <1>3, SentCasts
<1>5. ASSUME NEW p \in Message, ~ Climbing(p) PROVE UnderWay(p)' = UnderWay(p)
  <2>1. p # m /\ p # x
    BY <1>2, <1>3, <1>5
  <2>2. Copies(p, net') = Copies(p, net) - 0 + 0 /\ lost' = lost
    BY <1>2, <1>3, <2>1, SentCopies
  <2>3. Copies(p, net) \in Nat
    BY CopiesType DEF ClimbInv, Counters
  <2>4. Copies(p, net') = Copies(p, net)
    BY <2>2, <2>3
  <2>5. QED BY <2>2, <2>4 DEF UnderWay
<1>6. CallsClimb'
  <2>1. calls' \subseteq calls \cup {x}
    BY <1>2, <1>3, SentMessages
  <2>2. QED BY <1>3, <2>1 DEF CastsInv, CallsClimb
<1>7. UNCHANGED <<heard, shown>>
  BY <1>2
<1>8. QED BY <1>4, <1>5, <1>6, <1>7, CastsStay

LEMMA CastsLose ==
    ASSUME FewContacts, ClimbInv, CastsInv, NEW m \in Pending, Lose(m)
    PROVE  CastsInv'
<1>1. /\ m \in BagToSet(net)
      /\ net' = net (-) SetToBag({m}) /\ lost' = lost (+) SetToBag({m})
      /\ UNCHANGED <<hash, up, origin, calls, casts, heard, shown>>
  BY DEF Lose, BagIn
<1>2. IsABag(net) /\ IsABag(lost)
  BY DEF ClimbInv, Counters
<1>3. ASSUME NEW p PROVE UnderWay(p)' = UnderWay(p)
  <2>1. Copies(p, net') = Copies(p, net) - (IF p = m THEN 1 ELSE 0)
    BY <1>1, <1>2, MinusCopies
  <2>2. Copies(p, lost') = Copies(p, lost) + (IF p \in {m} THEN 1 ELSE 0)
    BY <1>1, <1>2, PlusCopies
  <2>3. Copies(p, net) \in Nat /\ Copies(p, lost) \in Nat
    BY <1>2, CopiesType
  <2>4. Copies(p, net') + Copies(p, lost') = Copies(p, net) + Copies(p, lost)
    BY <2>1, <2>2, <2>3
  <2>5. QED BY <2>4 DEF UnderWay
<1>4. CallsClimb'
  BY <1>1 DEF CastsInv, CallsClimb
<1>5. /\ \A n \in Node, l \in 0 .. Top : casts'[n][l] = casts[n][l]
      /\ UNCHANGED <<heard, shown>>
  BY <1>1
<1>6. QED BY <1>3, <1>4, <1>5, CastsStay

\* At the turn all rings were quiet.
LEMMA CastsTurn ==
    ASSUME FewContacts, ClimbInv, CastsInv, NEW m \in Pending, TurnDown(m)
    PROVE  CastsInv'
<1> DEFINE L == ClimbsTo(m)
           S == Downwards(m.to, L)
           D == 0 .. L
<1>1. /\ Runs(m) /\ Climbing(m) /\ Sends(m, S, D) /\ Shows(m)
      /\ UNCHANGED <<hash, up, origin, heard, lost>>
      /\ get_contact_nodes(m.to, L + 1) = {}
  BY DEF TurnDown
<1>2. /\ m.to \in up /\ m.to \in Node /\ RightMessage(m) /\ StructureInv /\ SameLimits
      /\ Counters
  BY <1>1, HandlerIsUp DEF ClimbInv, FewContacts
<1>3. L = Top /\ Top \in 0 .. 5
  BY <1>1, <1>2, ClimbKnows, TopType
<1>4. ResidesById(m.to, Top + 1)
  BY <1>1, <1>2, <1>3 DEF RightMessage
<1>5. \A l \in 0 .. Top : l \in D
  BY <1>3
<1>6. \A x : x \in S <=> \E l \in 0 .. Top : x \in Sent(m, D, l)
  <2>1. \A l \in 0 .. Top : Sent(m, D, l) = WithinRing(m.to, l, 0)
    BY <1>1, <1>5 DEF Sent
  <2>2. QED BY <1>3, <2>1 DEF Downwards
<1> HIDE DEF S, D, L
<1>7. RingsInv /\ FarCasts /\ ShownHeard /\ MembersOnly /\ CallsClimb
  BY DEF CastsInv
<1>8. RingsInv' /\ CallsClimb'
  <2>1. \A n \in Node, l \in 0 .. Top : heard'[n][l] =
            IF ~ Climbing(m) /\ n = m.to /\ l = m.level THEN heard[n][l] + 1 ELSE heard[n][l]
    BY <1>1
  <2>2. lost' = lost
    BY <1>1
  <2>3. QED BY <1>1, <1>6, <1>7, <2>1, <2>2, HandlerRings
<1>9. NothingCast
  BY <1>1, WhichPhase
<1>10. \A n \in Node, l \in 0 .. Top :
         /\ casts'[n][l] = IF n = m.to THEN 1 ELSE 0
         /\ heard'[n][l] = heard[n][l]
  <2>1. \A n \in Node, l \in 0 .. Top : casts'[n][l] =
            IF n = m.to /\ l \in D THEN casts[n][l] + 1 ELSE casts[n][l]
    BY <1>1, SentCasts
  <2>2. heard' = heard
    BY <1>1
  <2>3. QED BY <1>5, <1>9, <2>1, <2>2 DEF NothingCast
<1>11. \A n \in Node, l \in 0 .. Top : heard[n][l] = 0
  <2> SUFFICES ASSUME NEW n \in Node, NEW l \in 0 .. Top PROVE heard[n][l] = 0
    OBVIOUS
  <2>1. CASE ResidesById(n, l)
    <3>1. NobodyCasts(n, l)
      BY <1>9, SameRing DEF NobodyCasts, NothingCast
    <3>2. RingQuiet(n, l)
      BY <1>7, <2>1, <3>1 DEF RingsInv, RingRight
    <3>3. n \in RingById(n, l)
      BY <2>1 DEF RingById, SameRegion
    <3>4. QED BY <3>2, <3>3 DEF RingQuiet
  <2>2. CASE ~ ResidesById(n, l)
    BY <1>7, <2>2 DEF MembersOnly
  <2>3. QED BY <2>1, <2>2
<1>12. FarCasts'
  <2> SUFFICES ASSUME NEW n \in Node, Far(n)', NEW l \in 0 .. Top - 1, NEW j \in 0 .. Top
               PROVE  /\ casts'[n][l] = IF n[0] = 0 /\ l < j THEN heard'[n][j] ELSE 0
                      /\ casts'[n][l] <= 1
    BY DEF FarCasts
  <2>1. n # m.to
    <3>1. PICK r \in Node : casts'[r][Top] # 0 /\ n[Top] # r[Top]
      BY DEF Far
    <3>2. r = m.to
      BY <1>3, <1>10, <3>1
    <3>3. QED BY <3>1, <3>2
  <2>2. l \in 0 .. Top
    BY <1>3
  <2>3. casts'[n][l] = 0 /\ heard'[n][j] = 0
    BY <1>10, <1>11, <2>1, <2>2
  <2>4. QED BY <2>3
<1>13. ShownHeard'
  <2> SUFFICES ASSUME NEW n \in Node, NEW j \in 0 .. Top, Highest(n, j), casts'[n][Top] = 0
               PROVE  shown'[n] = heard'[n][j]
    BY DEF ShownHeard
  <2>1. n # m.to
    BY <1>3, <1>10
  <2>2. shown'[n] = shown[n]
    BY <1>1, <1>2, <2>1, ShownUp DEF Shows, Counters
  <2>3. casts[n][Top] = 0
    BY <1>3, <1>9 DEF NothingCast
  <2>4. QED BY <1>7, <1>10, <2>2, <2>3 DEF ShownHeard
<1>14. MembersOnly'
  <2> SUFFICES ASSUME NEW n \in Node, NEW l \in 0 .. Top, ~ ResidesById(n, l)
               PROVE  casts'[n][l] = 0 /\ heard'[n][l] = 0
    BY DEF MembersOnly
  <2>1. n # m.to
    <3>1. Top + 1 \in 0 .. 6 /\ l \in 0 .. Top + 1
      BY <1>3
    <3>2. ResidesById(m.to, l)
      BY <1>4, <3>1, ResidesDown
    <3>3. QED BY <3>2
  <2>2. QED BY <1>10, <1>11, <2>1
<1>15. QED BY <1>8, <1>12, <1>13, <1>14 DEF CastsInv

\* A packet that has arrived: far from the turn it is the first of its ring, and
\* the highest its receiver gets, if this one casts in the rings below.
LEMMA CastsPass ==
    ASSUME FewContacts, ClimbInv, CastsInv, NEW m \in Pending, Runs(m), ~ Climbing(m),
           NEW S, NEW D, Sends(m, S, D), Hears(m),
           \A l \in 0 .. Top : l \in D => l < m.level,
           m.level \notin D,
           m.type = TypeAt(m.to, m.level) =>
                \A l \in 0 .. Top : l \in D <=> m.to[0] = 0 /\ l < m.level,
           \A x : ~ Climbing(x) => (x \in S <=> \E l \in 0 .. Top : x \in Sent(m, D, l))
    PROVE  CastsInv'
<1> DEFINE q == m.to
           h == m.level
<1>1. /\ RingsInv /\ FarCasts /\ ShownHeard /\ MembersOnly /\ CallsClimb
      /\ Counters /\ StructureInv /\ SameLimits
  BY DEF CastsInv, ClimbInv, FewContacts
<1>2. /\ q \in up /\ q \in Node /\ RightMessage(m) /\ m \in Message /\ h \in 0 .. Top
      /\ q \in RingById(m.from, h) /\ Top \in 0 .. 5
  <2>1. q \in up /\ q \in Node /\ RightMessage(m)
    BY HandlerIsUp
  <2>2. h \in 0 .. Top /\ Top \in 0 .. 5
    BY <1>1, PacketHandled, TopType
  <2>3. QED BY <2>1, <2>2 DEF RightMessage
<1>3. ResidesById(q, h)
  BY <1>2, SameRing
<1>4. /\ \A n \in Node, l \in 0 .. Top : casts'[n][l] =
            IF n = q /\ l \in D THEN casts[n][l] + 1 ELSE casts[n][l]
      /\ \A n \in Node, l \in 0 .. Top : heard'[n][l] =
            IF n = q /\ l = h THEN heard[n][l] + 1 ELSE heard[n][l]
      /\ lost' = lost
  <2>1. /\ \A n \in Node, l \in 0 .. Top : casts'[n][l] =
                IF n = q /\ l \in D THEN casts[n][l] + 1 ELSE casts[n][l]
    BY SentCasts
  <2>2. heard \in [Node -> [0 .. Top -> Nat]] /\ heard' = [heard EXCEPT ![q][h] = @ + 1]
    BY <1>1 DEF Counters, Hears
  <2>3. \A n \in Node, l \in 0 .. Top : heard'[n][l] =
            IF n = q /\ l = h THEN heard[n][l] + 1 ELSE heard[n][l]
    <3> HIDE DEF q, h
    <3> QED BY <1>2, <2>2, HeardUp
  <2>4. lost' = lost
    BY DEF Hears
  <2>5. QED BY <2>1, <2>3, <2>4
<1>5. RingsInv' /\ CallsClimb'
  <2>1. \A n \in Node, l \in 0 .. Top : heard'[n][l] =
            IF ~ Climbing(m) /\ n = m.to /\ l = m.level THEN heard[n][l] + 1 ELSE heard[n][l]
    BY <1>4
  <2>2. QED BY <1>1, <1>4, <2>1, HandlerRings
<1>6. Top \notin D /\ Top \in 0 .. Top
  BY <1>2
<1>7. MembersOnly'
  <2> SUFFICES ASSUME NEW n \in Node, NEW l \in 0 .. Top, ~ ResidesById(n, l)
               PROVE  casts'[n][l] = 0 /\ heard'[n][l] = 0
    BY DEF MembersOnly
  <2>1. n = q => l \notin D /\ l # h
    <3>1. ASSUME n = q, l \in D PROVE FALSE
      <4>1. h \in 0 .. 6 /\ l \in 0 .. h
        BY <1>2, <3>1
      <4>2. QED BY <1>3, <3>1, <4>1, ResidesDown
    <3>2. QED BY <1>3, <3>1
  <2>2. QED BY <1>1, <1>4, <2>1 DEF MembersOnly
<1>8. ShownHeard'
  <2> SUFFICES ASSUME NEW n \in Node, NEW j \in 0 .. Top, Highest(n, j), casts'[n][Top] = 0
               PROVE  shown'[n] = heard'[n][j]
    BY DEF ShownHeard
  <2>1. casts[n][Top] = 0
    BY <1>4, <1>6
  <2>2. shown[n] = heard[n][j]
    BY <1>1, <2>1 DEF ShownHeard
  <2>3. CASE n # q
    <3>1. shown'[n] = shown[n]
      <4>1. shown' = shown \/ shown' = [shown EXCEPT ![q] = @ + 1]
        BY DEF Hears, Shows
      <4>2. QED BY <1>1, <1>2, <2>3, <4>1, ShownUp DEF Counters
    <3>2. heard'[n][j] = heard[n][j]
      BY <1>4, <2>3
    <3>3. QED BY <2>2, <3>1, <3>2
  <2>4. CASE n = q
    <3>1. get_top_level(q) = j
      <4> DEFINE t == get_top_level(q)
      <4>1. t \in 0 .. Top /\ \A l \in 0 .. Top : l <= t <=> ResidesById(q, l)
        BY <1>1, <1>2, Answers
      <4>2. \A l \in 0 .. Top : ResidesById(q, l) <=> l <= j
        BY <2>4, HighestIs
      <4> HIDE DEF t
      <4>3. t <= j /\ j <= t
        BY <1>2, <4>1, <4>2
      <4>4. t = j
        BY <4>1, <4>3
      <4>5. QED BY <4>4 DEF t
    <3>2. shown' = IF h = j THEN [shown EXCEPT ![q] = @ + 1] ELSE shown
      BY <3>1 DEF Hears, Shows
    <3>3. shown'[q] = IF h = j THEN shown[q] + 1 ELSE shown[q]
      BY <1>1, <1>2, <3>2, ShownUp DEF Counters
    <3>4. heard'[q][j] = IF h = j THEN heard[q][j] + 1 ELSE heard[q][j]
      BY <1>2, <1>4
    <3>5. QED BY <2>2, <2>4, <3>3, <3>4
  <2>5. QED BY <2>3, <2>4
<1>9. FarCasts'
  <2> SUFFICES ASSUME NEW n \in Node, Far(n)', NEW l \in 0 .. Top - 1, NEW j \in 0 .. Top,
                      Highest(n, j)
               PROVE  /\ casts'[n][l] = IF n[0] = 0 /\ l < j THEN heard'[n][j] ELSE 0
                      /\ casts'[n][l] <= 1
    BY DEF FarCasts
  <2>1. Far(n)
    BY <1>4, <1>6 DEF Far
  <2>2. l \in 0 .. Top /\ l # Top
    BY <1>2
  <2>3. /\ casts[n][l] = IF n[0] = 0 /\ l < j THEN heard[n][j] ELSE 0
        /\ casts[n][l] <= 1
    BY <1>1, <2>1 DEF FarCasts
  <2>4. CASE n # q
    BY <1>4, <2>2, <2>3, <2>4
  <2>5. CASE n = q
    <3>1. m \in BagToSet(net)
      BY <1>1, HandlerIsUp DEF CallsClimb
    <3>2. UnderWay(m) # 0 /\ UnderWay(m) \in Nat
      <4>1. Copies(m, net) \in Nat /\ Copies(m, net) > 0 /\ Copies(m, lost) \in Nat
        BY <1>1, <3>1, CopiesType DEF Counters
      <4>2. QED BY <4>1 DEF UnderWay
    <3>3. q \in RingById(q, h)
      BY <1>2, <1>3 DEF RingById, SameRegion
    <3>4. ~ NobodyCasts(q, h)
      <4>1. InRingOf(q, h, m)
        BY <3>3 DEF InRingOf
      <4>2. QED BY <1>1, <1>2, <1>3, <3>2, <4>1 DEF RingsInv, RingRight, RingQuiet
    <3>5. PICK p \in RingById(q, h) : /\ CastsAlone(p, h)
                                      /\ h < Top => p[0] = 0 /\ ResidesById(p, h + 1)
      BY <1>1, <1>2, <1>3, <2>1, <2>5, <3>4, FarRing
    <3>6. p \in Node /\ ResidesById(p, h) /\ RingById(p, h) = RingById(q, h)
      BY SameRing
    <3>7. RingTree(p, h) /\ InRingOf(p, h, m)
      BY <1>1, <1>2, <3>3, <3>5, <3>6 DEF RingsInv, RingRight, InRingOf
    <3>8. IsEdge(p, h, m) /\ q # p /\ heard[q][h] = 0
      BY <1>1, <1>2, <3>2, <3>5, <3>6, <3>7, EdgeUnderWay
    <3>9. l \in D <=> q[0] = 0 /\ l < h
      BY <2>2, <3>8 DEF IsEdge
    <3>10. h <= j
      BY <1>2, <1>3, <2>5, HighestIs
    <3>11. q[0] = 0 => h = j
      <4> SUFFICES ASSUME q[0] = 0, h # j PROVE FALSE
        OBVIOUS
      <4>1. h < Top /\ h + 1 <= j /\ h + 1 \in 0 .. Top
        BY <1>2, <3>10
      <4>2. ResidesById(q, h + 1)
        BY <2>5, <4>1, HighestIs
      <4>3. p = q
        BY <1>2, <3>3, <3>5, <4>1, <4>2, OneCaster
      <4>4. QED BY <3>8, <4>3
    <3>12. CASE q[0] = 0
      <4>1. casts[q][l] = 0 /\ heard'[q][j] = 1
        <5>1. heard[q][j] = 0
          BY <3>8, <3>11, <3>12
        <5>2. casts[q][l] = 0
          BY <2>3, <2>5, <5>1
        <5>3. heard'[q][j] = heard[q][j] + 1
          BY <1>2, <1>4, <3>11, <3>12
        <5>4. QED BY <5>1, <5>2, <5>3
      <4>2. casts'[q][l] = IF l < j THEN 1 ELSE 0
        BY <1>2, <1>4, <2>2, <3>9, <3>11, <3>12, <4>1
      <4>3. QED BY <2>5, <3>12, <4>1, <4>2
    <3>13. CASE q[0] # 0
      <4>1. casts[q][l] = 0 /\ l \notin D
        BY <2>3, <2>5, <3>9, <3>13
      <4>2. casts'[q][l] = 0
        BY <1>2, <1>4, <2>2, <4>1
      <4>3. QED BY <2>5, <3>13, <4>2
    <3>14. QED BY <3>12, <3>13
  <2>6. QED BY <2>4, <2>5
<1>10. QED BY <1>5, <1>7, <1>8, <1>9 DEF CastsInv

LEMMA CastsPassDown ==
    ASSUME FewContacts, ClimbInv, CastsInv, NEW m \in Pending, PassDown(m)
    PROVE  CastsInv'
<1> DEFINE S == WithinRing(m.to, m.level, m.order) \cup Downwards(m.to, m.level - 1)
           D == 0 .. m.level - 1
<1>1. Runs(m) /\ ~ Climbing(m) /\ Sends(m, S, D) /\ Hears(m) /\ m.type = Down
  BY DEF PassDown, Climbing, Down, UpFromBelow, UpSameLevel
<1>2. m.level \in 0 .. Top /\ Top \in 0 .. 5
  BY <1>1, PacketHandled, TopType DEF FewContacts
<1>3. /\ \A l \in 0 .. Top : l \in D <=> l < m.level
      /\ m.level \notin D /\ \A l \in D : l \in 0 .. Top
  <2> DEFINE g == m.level
  <2>1. g \in 0 .. 5 /\ g <= Top /\ Top \in 0 .. 5
    BY <1>2
  <2> HIDE DEF g
  <2>2. /\ \A l \in 0 .. Top : l \in 0 .. g - 1 <=> l < g
        /\ g \notin 0 .. g - 1 /\ \A l \in 0 .. g - 1 : l \in 0 .. Top
    BY <2>1
  <2>3. QED BY <2>2 DEF g
<1>4. m.type = TypeAt(m.to, m.level) => m.to[0] = 0
  BY <1>1 DEF TypeAt, Down, InRing
<1>5. \A x : x \in S <=> \E l \in 0 .. Top : x \in Sent(m, D, l)
  <2>1. Sent(m, D, m.level) = WithinRing(m.to, m.level, m.order)
    BY <1>1 DEF Sent
  <2>2. \A l \in 0 .. Top : l # m.level =>
            Sent(m, D, l) = IF l \in D THEN WithinRing(m.to, l, 0) ELSE {}
    BY DEF Sent
  <2>3. S = WithinRing(m.to, m.level, m.order) \cup UNION {WithinRing(m.to, l, 0) : l \in D}
    BY DEF Downwards
  <2> HIDE DEF S, D
  <2>4. QED BY <1>2, <1>3, <2>1, <2>2, <2>3
<1> HIDE DEF S, D
<1>6. QED BY <1>1, <1>3, <1>4, <1>5, CastsPass

LEMMA CastsPassOn ==
    ASSUME FewContacts, ClimbInv, CastsInv, NEW m \in Pending, PassOn(m)
    PROVE  CastsInv'
<1> DEFINE S == WithinRing(m.to, m.level, m.order)
<1>1. Runs(m) /\ ~ Climbing(m) /\ Sends(m, S, {}) /\ Hears(m) /\ m.type = InRing
  BY DEF PassOn, Climbing, InRing, UpFromBelow, UpSameLevel
<1>2. m.level \in 0 .. Top /\ Top \in 0 .. 5
  BY <1>1, PacketHandled, TopType DEF FewContacts
<1>3. m.type = TypeAt(m.to, m.level) => \A l \in 0 .. Top : ~ (m.to[0] = 0 /\ l < m.level)
  <2>1. m.type = TypeAt(m.to, m.level) => m.level = 0 \/ m.to[0] # 0
    BY <1>1 DEF TypeAt, Down, InRing
  <2>2. QED BY <1>2, <2>1
<1>4. \A x : x \in S <=> \E l \in 0 .. Top : x \in Sent(m, {}, l)
  BY <1>1, <1>2 DEF Sent
<1> HIDE DEF S
<1>5. QED BY <1>1, <1>3, <1>4, CastsPass

LEMMA CastsInvHolds == ASSUME FewContacts PROVE Spec => []CastsInv
<1>1. Init => CastsInv
  BY CastsAtStart
<1>2. ClimbInv /\ CastsInv /\ [Next]_vars => CastsInv'
  <2> SUFFICES ASSUME ClimbInv, CastsInv, [Next]_vars PROVE CastsInv'
    OBVIOUS
  <2>1. ASSUME UNCHANGED broadcastVars PROVE CastsInv'
    <3>1. UNCHANGED <<origin, net, calls, casts, heard, shown, lost>>
      BY <2>1 DEF broadcastVars
    <3>2. \A x : UnderWay(x)' = UnderWay(x)
      BY <3>1 DEF UnderWay
    <3>3. CallsClimb'
      BY <3>1 DEF CastsInv, CallsClimb
    <3>4. QED BY <3>1, <3>2, <3>3, CastsStay
  <2>2. ASSUME NEW n \in Origins, Broadcast(n) PROVE CastsInv'
    BY <2>2, CastsBroadcast
  <2>3. ASSUME NEW m \in BagToSet(net) \cup calls, OnReceive(m) PROVE CastsInv'
    <3>1. m \in Pending /\ ~ Stranded(m)
      BY NeverStranded DEF Pending, FewContacts
    <3>2. QED BY <2>3, <3>1, CastsClimb, CastsTurn, CastsPassDown, CastsPassOn
              DEF OnReceive
  <2>4. ASSUME NEW m \in BagToSet(net) \cup calls, Lose(m) PROVE CastsInv'
    BY <2>4, CastsLose DEF Pending
  <2>5. QED BY <2>1, <2>2, <2>3, <2>4 DEF Next, Start, vars
<1>3. Spec => []ClimbInv
  BY ClimbInvHolds DEF FewContacts
<1>4. QED BY <1>1, <1>2, <1>3, PTL DEF Spec

(***************************************************************************)
(* With one or two contact nodes per ring a cast that a member of a ring   *)
(* has begun alone, and once, takes at most one path to each member, each  *)
(* computing its children from its own copy of the list                    *)
(* (broadcast_within_ring, peer_manager.cpp:183).                          *)
(***************************************************************************)
THEOREM CastsSpan ==
    ASSUME FewContacts PROVE Spec => []SpanningTree
<1>1. ClimbInv /\ CastsInv => SpanningTree
  <2> SUFFICES ASSUME ClimbInv, CastsInv, NEW l \in 0 .. Top, NEW R \in RegionsAt[l],
                      NEW p \in Casters(R, l), Casters(R, l) = {p}, casts[p][l] = 1,
                      NEW n \in R
               PROVE  casts[n][l] + heard[n][l] <= 1
    BY DEF SpanningTree
  <2>1. PICK a \in Node : R = SameRegion(a, l)
    BY DEF RegionsAt
  <2>2. n \in Node /\ p \in Node /\ p \in R
    BY <2>1 DEF SameRegion, Casters
  <2>3. ResidesById(p, l)
    BY <2>2 DEF CastsInv, MembersOnly
  <2>4. CASE ~ ResidesById(n, l)
    <3>1. casts[n][l] = 0 /\ heard[n][l] = 0
      BY <2>2, <2>4 DEF CastsInv, MembersOnly
    <3>2. QED BY <3>1
  <2>5. CASE ResidesById(n, l)
    <3>1. SameRegion(p, l) = R
      BY <2>1, <2>2 DEF SameRegion
    <3>2. n \in RingById(p, l)
      BY <2>5, <3>1 DEF RingById
    <3>3. CastsAlone(p, l)
      <4>1. ASSUME NEW x \in RingById(p, l), x # p PROVE casts[x][l] = 0
        <5>1. x \in R /\ x \in Node /\ x \notin Casters(R, l)
          BY <3>1, <4>1 DEF RingById, SameRegion
        <5>2. casts[x][l] \in Nat /\ ~ (casts[x][l] > 0)
          BY <5>1 DEF Casters, ClimbInv, Counters
        <5>3. QED BY <5>2
      <4>2. QED BY <4>1 DEF CastsAlone
    <3>4. RingTree(p, l)
      BY <2>2, <2>3, <3>3 DEF CastsInv, RingsInv, RingRight
    <3>5. Served(n, l) \in {0, 1}
      BY <3>2, <3>4 DEF RingTree
    <3>6. QED BY <3>5 DEF Served
  <2>6. QED BY <2>4, <2>5
<1>2. Spec => []ClimbInv
  BY ClimbInvHolds DEF FewContacts
<1>3. QED BY <1>1, <1>2, CastsInvHolds, PTL

(***************************************************************************)
(* With one or two contact nodes per ring no node outside the top region   *)
(* of the turn shows the payload twice, although two nodes of each region  *)
(* sit in the ring above and none remembers what it has seen (on_receive,  *)
(* types 2 and 5).                                                         *)
(***************************************************************************)
THEOREM RepeatsOnlyNearTurn ==
    ASSUME FewContacts PROVE Spec => []RepeatsNearTurn
<1>1. ClimbInv /\ CastsInv => RepeatsNearTurn
  <2> SUFFICES ASSUME ClimbInv, CastsInv, NEW r \in Casters(Node, Top),
                      NEW n \in Node, n[Top] # r[Top]
               PROVE  shown[n] <= 1
    BY DEF RepeatsNearTurn
  <2>1. /\ RingsInv /\ FarCasts /\ ShownHeard /\ MembersOnly /\ Counters
        /\ Top \in 0 .. 5 /\ Top \in 0 .. Top
    BY TopType DEF CastsInv, ClimbInv
  <2>2. r \in Node /\ casts[r][Top] > 0
    BY DEF Casters
  <2>3. Far(n)
    BY <2>2 DEF Far
  <2>4. casts[n][Top] = 0
    <3>1. ~ NothingCast
      BY <2>1, <2>2 DEF NothingCast
    <3>2. PICK t \in Node : \A x \in Node : casts[x][Top] = IF x = t THEN 1 ELSE 0
      BY <3>1 DEF ClimbInv, Phase
    <3>3. r = t /\ n # r
      BY <2>2, <3>2
    <3>4. QED BY <3>2, <3>3
  <2>5. PICK j \in 0 .. Top : Highest(n, j)
    BY HighestExists
  <2>6. shown[n] = heard[n][j] /\ ResidesById(n, j)
    BY <2>1, <2>4, <2>5 DEF ShownHeard, Highest
  <2>7. n \in RingById(n, j)
    BY <2>6 DEF RingById, SameRegion
  <2>8. CASE NobodyCasts(n, j)
    <3>1. heard[n][j] = 0
      BY <2>1, <2>6, <2>7, <2>8 DEF RingsInv, RingRight, RingQuiet
    <3>2. QED BY <2>6, <3>1
  <2>9. ASSUME NEW p \in RingById(n, j), CastsAlone(p, j) PROVE shown[n] <= 1
    <3>1. p \in Node /\ ResidesById(p, j) /\ n \in RingById(p, j)
      BY <2>7, SameRing
    <3>2. Served(n, j) \in {0, 1}
      BY <2>1, <2>9, <3>1 DEF RingsInv, RingRight, RingTree
    <3>3. casts[n][j] \in Nat /\ heard[n][j] \in Nat
      BY <2>1 DEF Counters
    <3>4. QED BY <2>6, <3>2, <3>3 DEF Served
  <2>10. QED BY <2>1, <2>3, <2>6, <2>8, <2>9, FarRing
<1>2. Spec => []ClimbInv
  BY ClimbInvHolds DEF FewContacts
<1>3. QED BY <1>1, <1>2, CastsInvHolds, PTL

=============================================================================
