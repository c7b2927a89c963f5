------------------------ MODULE RingBroadcast_proofs ------------------------
(***************************************************************************)
(* Proofs about RingBroadcast, for every ring size and every root.         *)
(***************************************************************************)
EXTENDS RingBroadcast, FiniteSetTheorems, WellFoundedInduction, TLAPS

-----------------------------------------------------------------------------
(***************************************************************************)
(* The inductive invariant.                                                *)
(***************************************************************************)

\* p is the order of the parent of the member that packet m is addressed to.
ParentOf(m, p) ==
    /\ p \in 0 .. end_ID
    /\ \E s \in ChildStrides(p) : m.order = p + s
    /\ m.from = Wrap(root + p)

\* Every packet was sent by a member that is the root or handled a packet.
HasParent ==
    \A m \in Sent : \E p \in 0 .. end_ID :
        /\ ParentOf(m, p)
        /\ p # 0 => \E n \in rcvd : n.order = p

\* A packet is under way, handled or lost, never two of these.
InOnePlace == net \cap rcvd = {} /\ net \cap lost = {} /\ rcvd \cap lost = {}

\* A packet's place is its order counted from the root.
Placed == \A m \in Sent : m.to = Wrap(root + m.order)

\* Whoever holds the payload has sent every packet its order asks for.
Forwarded ==
    started => \A p \in 0 .. end_ID : \A s \in ChildStrides(p) :
        (p = 0 \/ \E n \in rcvd : n.order = p)
            => \E m \in Sent : m.order = p + s

\* A member has come by the payload once if it began or a packet to it was
\* handled, and otherwise not at all.
Counted ==
    \A p \in Members : times[p] =
        IF (started /\ p = root) \/ (\E m \in rcvd : m.to = p) THEN 1 ELSE 0

IInv ==
    /\ TypeOK
    /\ ~ started => Sent = {}
    /\ HasParent
    /\ InOnePlace
    /\ Placed
    /\ Forwarded
    /\ Counted

-----------------------------------------------------------------------------
(***************************************************************************)
(* Arithmetic of the tree.                                                 *)
(***************************************************************************)

\* A member has one parent: no order is reached along two strides.  It is the
\* skipping of the strides up to the own order that makes this true.
LEMMA UniqueParent ==
    ASSUME NEW p \in 0 .. end_ID, NEW q \in 0 .. end_ID,
           NEW s \in ChildStrides(p), NEW t \in ChildStrides(q),
           p + s = q + t
    PROVE  p = q /\ s = t
<1>1. /\ s \in Strides /\ t \in Strides /\ s \in Nat /\ t \in Nat
      /\ s > p /\ t > q /\ p \in Nat /\ q \in Nat
  BY StridesAssumption, RingAssumption DEF ChildStrides, end_ID
<1>2. ~ (s < t)
  BY <1>1, StridesAssumption
<1>3. ~ (t < s)
  BY <1>1, StridesAssumption
<1>4. QED
  BY <1>1, <1>2, <1>3

\* Going on around the ring by s from the place of order p ends at the place
\* of order p + s, whether or not the ring's end lies between them.
LEMMA WrapAdds ==
    ASSUME NEW r \in Members, NEW p \in 0 .. end_ID, NEW s \in Nat,
           p + s <= end_ID
    PROVE  /\ Wrap(r + p) \in Members
           /\ Wrap(Wrap(r + p) + s) = Wrap(r + (p + s))
  BY RingAssumption DEF Wrap, Members, end_ID

\* Different orders are at different places, and none but order 0 at the root.
LEMMA WrapInjective ==
    ASSUME NEW r \in Members, NEW p \in 0 .. end_ID, NEW q \in 0 .. end_ID,
           Wrap(r + p) = Wrap(r + q)
    PROVE  p = q
  BY RingAssumption DEF Wrap, Members, end_ID

\* Every member is at the place of some order.
LEMMA WrapSurjective ==
    ASSUME NEW r \in Members, NEW x \in Members
    PROVE  \E p \in 0 .. end_ID : x = Wrap(r + p)
<1>1. CASE r <= x
  <2>1. x - r \in 0 .. end_ID /\ x = Wrap(r + (x - r))
    BY <1>1, RingAssumption DEF Wrap, Members, end_ID
  <2>2. QED BY <2>1
<1>2. CASE x < r
  <2>1. x + RingSize - r \in 0 .. end_ID /\ x = Wrap(r + (x + RingSize - r))
    BY <1>2, RingAssumption DEF Wrap, Members, end_ID
  <2>2. QED BY <2>1
<1>3. QED BY <1>1, <1>2, RingAssumption DEF Members, end_ID

\* Every order but 0 has a parent.
LEMMA ParentExists ==
    ASSUME NEW o \in 1 .. end_ID
    PROVE  \E p \in 0 .. end_ID : \E s \in ChildStrides(p) : p < o /\ o = p + s
<1>1. PICK s \in Strides : s <= o /\ o < 2 * s
  BY StridesAssumption DEF end_ID
<1>2. s \in Nat \ {0}
  BY StridesAssumption
<1>3. /\ o - s \in 0 .. end_ID
      /\ s \in ChildStrides(o - s)
      /\ o - s < o
      /\ o = (o - s) + s
  BY <1>1, <1>2, RingAssumption DEF ChildStrides, end_ID
<1>4. QED BY <1>3

\* The least-number principle for a set of naturals.
LEMMA LeastNatural ==
    ASSUME NEW T, T \subseteq Nat, T # {}
    PROVE  \E x \in T : \A y \in T : x <= y
<1> DEFINE U == {0 .. n : n \in T}
           R == StrictSubsetOrdering(Nat)
<1>1. U \subseteq FiniteSubsetsOf(Nat)
  <2>1. ASSUME NEW n \in T PROVE 0 .. n \in FiniteSubsetsOf(Nat)
    <3>1. n \in Int /\ 0 \in Int /\ 0 .. n \in SUBSET Nat
      OBVIOUS
    <3>2. IsFiniteSet(0 .. n)
      BY <3>1, FS_Interval
    <3>3. QED BY <3>1, <3>2 DEF FiniteSubsetsOf
  <2>2. QED BY <2>1
<1>2. U # {}
  OBVIOUS
<1>3. IsWellFoundedOn(R, FiniteSubsetsOf(Nat))
  BY FS_StrictSubsetOrderingWellFounded
<1>4. PICK I \in U : \A J \in U : ~ (<<J, I>> \in R)
  <2> HIDE DEF U, R
  <2> QED BY <1>1, <1>2, <1>3, WFMin
<1>5. PICK x \in T : I = 0 .. x
  OBVIOUS
<1>6. ASSUME NEW y \in T
      PROVE  x <= y
  <2>1. SUFFICES ASSUME y < x PROVE FALSE
    OBVIOUS
  <2>2. 0 .. y \subseteq 0 .. x /\ 0 .. y # 0 .. x
    <3>1. x \in 0 .. x /\ x \notin 0 .. y
      BY <2>1
    <3>2. 0 .. y \subseteq 0 .. x
      BY <2>1
    <3>3. QED BY <3>1, <3>2
  <2>3. <<0 .. y, 0 .. x>> \in R
    BY <2>2 DEF StrictSubsetOrdering
  <2>4. QED BY <2>3, <1>4, <1>5
<1>7. QED BY <1>6

-----------------------------------------------------------------------------
(***************************************************************************)
(* IInv is inductive.                                                      *)
(***************************************************************************)

\* What a member sends is well formed and is exactly its part of the tree.
LEMMA SendsFacts ==
    ASSUME root \in Members, NEW p \in 0 .. end_ID
    PROVE  /\ Sends(Wrap(root + p), p) \subseteq Packets
           /\ \A m \in Sends(Wrap(root + p), p) :
                 ParentOf(m, p) /\ m.to = Wrap(root + m.order)
           /\ \A s \in ChildStrides(p) :
                 \E m \in Sends(Wrap(root + p), p) : m.order = p + s
<1>1. ASSUME NEW s \in ChildStrides(p)
      PROVE  /\ s \in Nat \ {0}
             /\ p + s \in 1 .. end_ID
             /\ Wrap(root + p) \in Members
             /\ Wrap(Wrap(root + p) + s) = Wrap(root + (p + s))
             /\ Wrap(root + (p + s)) \in Members
  <2>1. s \in Nat \ {0} /\ p + s \in 1 .. end_ID
    BY StridesAssumption, RingAssumption DEF ChildStrides, end_ID
  <2>2. QED BY <2>1, WrapAdds, RingAssumption DEF Wrap, Members, end_ID
<1>2. ASSUME NEW s \in ChildStrides(p), NEW m,
             m = [from |-> Wrap(root + p), to |-> Wrap(Wrap(root + p) + s),
                  order |-> p + s]
      PROVE  /\ m \in Packets
             /\ ParentOf(m, p) /\ m.to = Wrap(root + m.order)
  BY <1>1, <1>2, RingAssumption DEF Packets, ParentOf, end_ID
<1>3. ASSUME NEW m \in Sends(Wrap(root + p), p)
      PROVE  /\ m \in Packets
             /\ ParentOf(m, p) /\ m.to = Wrap(root + m.order)
  <2>1. PICK s \in ChildStrides(p) :
            m = [from |-> Wrap(root + p), to |-> Wrap(Wrap(root + p) + s),
                 order |-> p + s]
    BY DEF Sends
  <2>2. QED BY <1>2, <2>1
<1>4. ASSUME NEW s \in ChildStrides(p)
      PROVE  \E m \in Sends(Wrap(root + p), p) : m.order = p + s
  <2> DEFINE m == [from |-> Wrap(root + p), to |-> Wrap(Wrap(root + p) + s),
                   order |-> p + s]
  <2>1. m \in Sends(Wrap(root + p), p) /\ m.order = p + s
    BY DEF Sends
  <2>2. QED BY <2>1
<1>5. QED BY <1>3, <1>4

\* Before the cast begins no packet exists, so IInv holds.
THEOREM Initially == Init => IInv
<1> SUFFICES ASSUME Init PROVE IInv
  OBVIOUS
<1>1. TypeOK /\ HasParent /\ InOnePlace /\ Placed /\ Forwarded /\ Sent = {}
  BY DEF Init, TypeOK, Sent, HasParent, InOnePlace, Placed, Forwarded
<1>2. Counted
  BY DEF Init, Counted
<1>3. QED BY <1>1, <1>2 DEF IInv

\* The root's packets are the first of the tree: each goes to a child of the
\* root, at the place of its order.
LEMMA BeginKeeps == IInv /\ Begin => IInv'
<1> SUFFICES ASSUME IInv, Begin PROVE IInv'
  OBVIOUS
<1>1. /\ net = {} /\ rcvd = {} /\ lost = {}
      /\ root' = root /\ started' = TRUE /\ rcvd' = {} /\ lost' = {}
      /\ net' = Sends(root, 0) /\ root \in Members
      /\ times \in [Members -> Nat] /\ times' = [times EXCEPT ![root] = @ + 1]
      /\ \A p \in Members : times[p] = 0
  BY DEF IInv, TypeOK, Begin, Sent, Counted
<1>2. /\ 0 \in 0 .. end_ID /\ Wrap(root + 0) = root
  BY <1>1, RingAssumption DEF Members, Wrap, end_ID
<1>3. /\ Sends(root, 0) \subseteq Packets
      /\ \A m \in Sends(root, 0) : ParentOf(m, 0) /\ m.to = Wrap(root + m.order)
      /\ \A s \in ChildStrides(0) : \E m \in Sends(root, 0) : m.order = 0 + s
  BY <1>1, <1>2, SendsFacts
<1>4. Sent' = Sends(root, 0)
  BY <1>1 DEF Sent
<1>5. TypeOK'
  BY <1>1, <1>3 DEF TypeOK
<1>6. HasParent'
  BY <1>1, <1>2, <1>3, <1>4 DEF HasParent, ParentOf
<1>7. InOnePlace'
  BY <1>1 DEF InOnePlace
<1>8. Placed'
  BY <1>1, <1>3, <1>4 DEF Placed
<1>9. Forwarded'
  BY <1>1, <1>3, <1>4 DEF Forwarded
<1>10. Counted'
  BY <1>1 DEF Counted
<1>11. QED
  BY <1>1, <1>5, <1>6, <1>7, <1>8, <1>9, <1>10 DEF IInv

\* Under IInv an order identifies its packet.
LEMMA OrderIdentifies ==
    ASSUME IInv, NEW m \in Sent, NEW n \in Sent, m.order = n.order
    PROVE  m = n
<1>1. PICK p \in 0 .. end_ID : ParentOf(m, p)
  BY DEF IInv, HasParent
<1>2. PICK q \in 0 .. end_ID : ParentOf(n, q)
  BY DEF IInv, HasParent
<1>3. p = q
  BY <1>1, <1>2, UniqueParent DEF ParentOf
<1>4. m.from = n.from /\ m.to = n.to
  BY <1>1, <1>2, <1>3 DEF ParentOf, IInv, Placed
<1>5. m \in Packets /\ n \in Packets
  BY DEF IInv, TypeOK, Sent
<1>6. QED BY <1>4, <1>5 DEF Packets

\* Under IInv no two packets are addressed to the same member, and none to
\* the root: different orders are at different places.
LEMMA OnePacketEach ==
    ASSUME IInv
    PROVE  /\ \A m, n \in Sent : m.to = n.to => m = n
           /\ \A m \in Sent : m.to # root
<1>1. ASSUME NEW m \in Sent
      PROVE  /\ m.order \in 1 .. end_ID /\ m.order \in 0 .. end_ID
             /\ m.to = Wrap(root + m.order)
  BY RingAssumption DEF IInv, TypeOK, Sent, Packets, Placed, end_ID
<1>2. root \in Members /\ 0 \in 0 .. end_ID /\ Wrap(root + 0) = root
  BY RingAssumption DEF IInv, TypeOK, Members, Wrap, end_ID
<1>3. ASSUME NEW m \in Sent, NEW n \in Sent, m.to = n.to
      PROVE  m = n
  <2>1. m.order = n.order
    BY <1>1, <1>2, <1>3, WrapInjective
  <2>2. QED BY <2>1, OrderIdentifies
<1>4. ASSUME NEW m \in Sent, m.to = root
      PROVE  FALSE
  <2>1. m.order = 0
    BY <1>1, <1>2, <1>4, WrapInjective
  <2>2. QED BY <1>1, <2>1
<1>5. QED BY <1>3, <1>4

\* A handled packet makes place for its receiver's packets, which are new: they
\* have the receiver for their parent, and a member has one parent.
LEMMA HandleKeeps == ASSUME IInv, NEW m \in net, Handle(m) PROVE IInv'
<1>1. /\ m \in Sent /\ m \in Packets /\ m.order \in 1 .. end_ID
      /\ m.order \in 0 .. end_ID /\ root \in Members
      /\ m.to = Wrap(root + m.order)
  BY RingAssumption DEF IInv, TypeOK, Sent, Placed, Packets, end_ID
<1> DEFINE New == Sends(m.to, m.order)
<1>2. /\ New \subseteq Packets
      /\ \A n \in New : ParentOf(n, m.order) /\ n.to = Wrap(root + n.order)
      /\ \A s \in ChildStrides(m.order) : \E n \in New : n.order = m.order + s
  BY <1>1, SendsFacts
<1>3. /\ rcvd' = rcvd \cup {m} /\ net' = (net \ {m}) \cup New
      /\ root' = root /\ started' = started /\ lost' = lost
      /\ times' = [times EXCEPT ![m.to] = @ + 1]
  BY DEF Handle
<1> HIDE DEF New
<1>4. Sent' = Sent \cup New
  BY <1>1, <1>3 DEF Sent
<1>5. started
  BY <1>1 DEF IInv
<1>6. m \notin rcvd
  BY DEF IInv, InOnePlace
\* The packets sent now are new: were one sent before, its parent, the member
\* handling m, would have handled another packet of m's order.
<1>7. Sent \cap New = {}
  <2>1. SUFFICES ASSUME NEW n \in Sent, n \in New PROVE FALSE
    OBVIOUS
  <2>2. PICK p \in 0 .. end_ID :
            ParentOf(n, p) /\ (p # 0 => \E x \in rcvd : x.order = p)
    BY DEF IInv, HasParent
  <2>3. p = m.order
    BY <1>1, <1>2, <2>1, <2>2, UniqueParent DEF ParentOf
  <2>4. p # 0
    BY <1>1, <2>3
  <2>5. PICK x \in rcvd : x.order = m.order
    BY <2>2, <2>3, <2>4
  <2>6. x = m
    BY <1>1, <2>5, OrderIdentifies DEF Sent
  <2>7. QED BY <1>6, <2>5, <2>6
<1>8. TypeOK'
  BY <1>1, <1>2, <1>3 DEF IInv, TypeOK, Packets
<1>9. HasParent'
  <2>1. ASSUME NEW n \in Sent'
        PROVE  \E p \in 0 .. end_ID :
                  ParentOf(n, p)' /\ (p # 0 => \E x \in rcvd' : x.order = p)
    <3>1. CASE n \in Sent
      BY <3>1, <1>3 DEF IInv, HasParent, ParentOf
    <3>2. CASE n \in New
      BY <3>2, <1>1, <1>2, <1>3 DEF ParentOf
    <3>3. QED BY <2>1, <3>1, <3>2, <1>4
  <2>2. QED BY <2>1 DEF HasParent
<1>10. InOnePlace'
  BY <1>3, <1>7 DEF IInv, InOnePlace, Sent
<1>11. Placed'
  BY <1>2, <1>3, <1>4 DEF IInv, Placed
<1>12. Forwarded'
  <2>1. ASSUME NEW p \in 0 .. end_ID, NEW s \in ChildStrides(p),
               p = 0 \/ \E n \in rcvd' : n.order = p
        PROVE  \E n \in Sent' : n.order = p + s
    <3>1. CASE p = m.order
      BY <3>1, <1>2, <1>4
    <3>2. CASE p # m.order
      <4>1. p = 0 \/ \E n \in rcvd : n.order = p
        BY <2>1, <3>2, <1>3
      <4>2. QED BY <4>1, <1>4, <1>5 DEF IInv, Forwarded
    <3>3. QED BY <3>1, <3>2
  <2>2. QED BY <2>1 DEF Forwarded
<1>13. Counted'
  <2>1. m.to # root /\ ~ \E n \in rcvd : n.to = m.to
    BY <1>1, <1>6, OnePacketEach DEF Sent
  <2>2. m.to \in Members /\ times \in [Members -> Nat] /\ times[m.to] = 0
    BY <1>1, <2>1 DEF Packets, IInv, TypeOK, Counted
  <2>3. ASSUME NEW p \in Members
        PROVE  times'[p] = IF (started' /\ p = root') \/ (\E n \in rcvd' : n.to = p)
                           THEN 1 ELSE 0
    <3>1. CASE p = m.to
      BY <3>1, <1>3, <2>2
    <3>2. CASE p # m.to
      <4>1. times'[p] = times[p]
        BY <3>2, <1>3, <2>2
      <4>2. (\E n \in rcvd' : n.to = p) <=> (\E n \in rcvd : n.to = p)
        BY <3>2, <1>3
      <4>3. QED BY <4>1, <4>2, <1>3 DEF IInv, Counted
    <3>3. QED BY <3>1, <3>2
  <2>4. QED BY <2>3 DEF Counted
<1>14. QED
  BY <1>3, <1>5, <1>8, <1>9, <1>10, <1>11, <1>12, <1>13 DEF IInv

\* A lost packet stays among the packets sent, so nobody sends it again.
LEMMA LoseKeeps == ASSUME IInv, NEW m \in net, Lose(m) PROVE IInv'
<1>1. /\ net' = net \ {m} /\ lost' = lost \cup {m}
      /\ root' = root /\ started' = started /\ rcvd' = rcvd /\ times' = times
  BY DEF Lose
<1>2. Sent' = Sent
  BY <1>1 DEF Sent
<1>3. TypeOK'
  BY <1>1 DEF IInv, TypeOK
<1>4. HasParent'
  BY <1>1, <1>2 DEF IInv, HasParent, ParentOf
<1>5. InOnePlace'
  BY <1>1 DEF IInv, InOnePlace
<1>6. Placed' /\ Forwarded' /\ Counted'
  BY <1>1, <1>2 DEF IInv, Placed, Forwarded, Counted
<1>7. QED BY <1>1, <1>2, <1>3, <1>4, <1>5, <1>6 DEF IInv

\* Every step of on_receive and of the network keeps IInv.
THEOREM Inductive == IInv /\ [Next]_vars => IInv'
<1> SUFFICES ASSUME IInv, [Next]_vars PROVE IInv'
  OBVIOUS
<1>1. CASE Begin
  BY <1>1, BeginKeeps
<1>2. ASSUME NEW m \in net, Handle(m) PROVE IInv'
  BY <1>2, HandleKeeps
<1>3. ASSUME NEW m \in net, Lose(m) PROVE IInv'
  BY <1>3, LoseKeeps
<1>4. CASE UNCHANGED vars
  BY <1>4 DEF vars, IInv, TypeOK, Sent, HasParent, ParentOf, InOnePlace,
              Placed, Forwarded, Counted
<1>5. QED BY <1>1, <1>2, <1>3, <1>4 DEF Next

\* IInv holds in every state of every ring broadcast, of any ring size.
THEOREM Invariance == Spec => []IInv
  BY Initially, Inductive, PTL DEF Spec

-----------------------------------------------------------------------------
(***************************************************************************)
(* The safety properties.                                                  *)
(***************************************************************************)

\* No packet is ever addressed outside the ring, whatever its size: the lookup
\* peer_list.at(...) of get_peer_by_order cannot throw.
THEOREM TypeCorrect == Spec => []TypeOK
  BY Invariance, PTL DEF IInv

\* Within twice the ring's length, wrapping once is the remainder.
LEMMA WrapIsRemainder ==
    ASSUME NEW r \in Members, NEW o \in 0 .. end_ID
    PROVE  Wrap(r + o) = (r + o) % RingSize
<1>1. /\ RingSize \in Int /\ RingSize > 0 /\ r \in Int /\ o \in Int
      /\ 0 <= r + o /\ r + o < 2 * RingSize
  BY RingAssumption DEF Members, end_ID
<1>2. CASE r + o < RingSize
  BY <1>1, <1>2, RingAssumption DEF Wrap, end_ID
<1>3. CASE r + o >= RingSize
  <2>1. (r + o) % RingSize = r + o - RingSize
    BY <1>1, <1>3
  <2>2. QED BY <1>1, <1>3, <2>1, RingAssumption DEF Wrap, end_ID
<1>4. QED BY <1>1, <1>2, <1>3

\* However many hops a packet took, and wherever it crossed the end of the
\* list, its order is its receiver's distance from the root.
THEOREM PlacesAreDistances == Spec => []OrderIsDistance
<1>1. IInv => OrderIsDistance
  <2> SUFFICES ASSUME IInv, NEW m \in Sent
               PROVE  m.to = (root + m.order) % RingSize
    BY DEF OrderIsDistance
  <2>1. root \in Members /\ m.order \in 0 .. end_ID /\ m.to = Wrap(root + m.order)
    BY RingAssumption DEF IInv, TypeOK, Sent, Packets, Placed, end_ID
  <2>2. QED BY <2>1, WrapIsRemainder
<1>2. QED BY <1>1, Invariance, PTL

\* No member of the ring comes by the payload twice, though nobody remembers
\* what it has seen.
THEOREM DeliveredAtMostOnce == Spec => []AtMostOnce
<1>1. IInv => AtMostOnce
  BY DEF IInv, Counted, AtMostOnce
<1>2. QED BY <1>1, Invariance, PTL

\* A cast at rest that lost no packet has reached every order: the least order
\* left out would have a parent that holds the payload, and has sent it on.
LEMMA NobodyForgotten == IInv => ReachesAll
<1> SUFFICES ASSUME IInv, Quiet, lost = {} PROVE Reached = Members
  BY DEF ReachesAll
<1>1. root \in Members /\ started /\ Sent = rcvd
  BY DEF IInv, TypeOK, Quiet, Sent
<1> DEFINE Missed == {o \in 1 .. end_ID : ~ \E m \in rcvd : m.order = o}
<1>2. Missed = {}
  <2>1. SUFFICES ASSUME Missed # {} PROVE FALSE
    OBVIOUS
  <2>2. Missed \subseteq Nat
    OBVIOUS
  <2>3. PICK o \in Missed : \A q \in Missed : o <= q
    <3> HIDE DEF Missed
    <3> QED BY <2>1, <2>2, LeastNatural
  <2>4. PICK p \in 0 .. end_ID : \E s \in ChildStrides(p) : p < o /\ o = p + s
    BY ParentExists
  <2>5. p = 0 \/ \E n \in rcvd : n.order = p
    BY <2>3, <2>4, RingAssumption DEF end_ID
  <2>6. \E m \in rcvd : m.order = o
    BY <1>1, <2>4, <2>5 DEF IInv, Forwarded
  <2>7. QED BY <2>6
<1>3. ASSUME NEW x \in Members
      PROVE  x \in Reached
  <2>1. PICK o \in 0 .. end_ID : x = Wrap(root + o)
    BY <1>1, WrapSurjective
  <2>2. CASE o = 0
    BY <1>1, <2>1, <2>2, RingAssumption
       DEF Reached, Wrap, Members, end_ID, IInv, Counted
  <2>3. CASE o # 0
    <3>1. o \in 1 .. end_ID
      BY <2>3, RingAssumption DEF end_ID
    <3>2. PICK m \in rcvd : m.order = o
      BY <1>2, <3>1
    <3>3. m.to = x
      BY <1>1, <2>1, <3>2 DEF IInv, Placed
    <3>4. QED BY <3>2, <3>3 DEF Reached, IInv, Counted
  <2>4. QED BY <2>2, <2>3
<1>4. Reached \subseteq Members
  BY DEF Reached
<1>5. QED BY <1>3, <1>4

\* Without loss a cast that has come to rest has reached the whole ring.
THEOREM CompleteWithoutLoss == Spec => []ReachesAll
  BY Invariance, NobodyForgotten, PTL

-----------------------------------------------------------------------------
(***************************************************************************)
(* What a loss costs.  Below the ring's size the strides are powers of two,*)
(* which is hidden in StridesAssumption: enough of it is that the double of*)
(* a stride divides every greater stride.                                  *)
(***************************************************************************)

\* What % gives.
LEMMA DivMod ==
    ASSUME NEW x \in Nat, NEW d \in Nat \ {0}
    PROVE  /\ x \div d \in Nat /\ x % d \in 0 .. d - 1
           /\ x = (x \div d) * d + (x % d)
  OBVIOUS

\* A remainder is never above what was divided.
LEMMA RemainderBelow ==
    ASSUME NEW x \in Nat, NEW d \in Nat \ {0}
    PROVE  x % d <= x
<1>1. x \div d \in Nat /\ x % d \in Nat /\ x = (x \div d) * d + (x % d)
  BY DivMod
<1>2. (x \div d) * d \in Nat
  BY <1>1
<1>3. QED BY <1>1, <1>2

\* Multiplication is monotonic.
LEMMA ProductGrows ==
    ASSUME NEW a \in Nat, NEW b \in Nat, NEW d \in Nat, a <= b
    PROVE  a * d \in Nat /\ b * d \in Nat /\ a * d <= b * d
  OBVIOUS

\* There is one remainder.
LEMMA RemainderUnique ==
    ASSUME NEW d \in Nat \ {0}, NEW p \in Nat, NEW q \in Nat,
           NEW r \in 0 .. d - 1, NEW t \in 0 .. d - 1, p * d + r = q * d + t
    PROVE  r = t
<1>1. ~ p < q
  <2> SUFFICES ASSUME p < q PROVE FALSE
    OBVIOUS
  <2>1. (p + 1) * d <= q * d /\ (p + 1) * d = p * d + d /\ p * d \in Nat /\ q * d \in Nat
    BY ProductGrows
  <2>2. QED BY <2>1
<1>2. ~ q < p
  <2> SUFFICES ASSUME q < p PROVE FALSE
    OBVIOUS
  <2>1. (q + 1) * d <= p * d /\ (q + 1) * d = q * d + d /\ p * d \in Nat /\ q * d \in Nat
    BY ProductGrows
  <2>2. QED BY <2>1
<1>3. p = q /\ p * d \in Nat
  BY <1>1, <1>2
<1>4. QED BY <1>3

\* A multiple of the divisor does not change the remainder.
LEMMA RemainderOfSum ==
    ASSUME NEW a \in Nat, NEW d \in Nat \ {0}, NEW k \in Nat
    PROVE  (a + k * d) % d = a % d
<1> DEFINE q == a \div d
           r == a % d
           x == a + k * d
           p == x \div d
           t == x % d
<1>1. q \in Nat /\ r \in 0 .. d - 1 /\ a = q * d + r
  BY DivMod
<1>2. x \in Nat /\ k * d \in Nat
  OBVIOUS
<1>3. p \in Nat /\ t \in 0 .. d - 1 /\ x = p * d + t
  BY <1>2, DivMod
<1>4. x = (q + k) * d + r
  <2> HIDE DEF q, r
  <2>1. (q + k) * d = q * d + k * d /\ q * d \in Nat
    BY <1>1
  <2>2. QED BY <1>1, <1>2, <2>1
<1>5. t = r
  <2> HIDE DEF q, r, x, p, t
  <2>1. q + k \in Nat
    BY <1>1
  <2>2. QED BY <1>1, <1>3, <1>4, <2>1, RemainderUnique
<1>6. QED BY <1>5

\* Between two strides in the ring lies the double of the lower one, or it is
\* the upper one.
LEMMA StridesDouble ==
    ASSUME NEW s \in Strides, NEW t \in Strides, s < t, t <= end_ID
    PROVE  \E k \in Nat : t = k * (2 * s)
<1> DEFINE Odd == {u \in Strides : s < u /\ u <= end_ID /\ ~ \E k \in Nat : u = k * (2 * s)}
<1>1. Strides \subseteq Nat \ {0} /\ s \in Nat \ {0} /\ end_ID \in Nat
  BY StridesAssumption, RingAssumption DEF end_ID
<1>2. SUFFICES ASSUME Odd # {} PROVE FALSE
  OBVIOUS
<1>3. PICK u \in Odd : \A v \in Odd : u <= v
  <2>1. Odd \subseteq Nat
    BY <1>1
  <2> HIDE DEF Odd
  <2> QED BY <1>2, <2>1, LeastNatural
<1>4. u \in Strides /\ u \in Nat /\ s < u /\ u <= end_ID
  BY <1>1
<1>5. PICK v \in Strides : v <= u - 1 /\ u - 1 < 2 * v
  <2>1. u - 1 \in 1 .. RingSize - 1
    BY <1>1, <1>4, RingAssumption DEF end_ID
  <2>2. QED BY <2>1, StridesAssumption
<1>6. v \in Nat /\ v < u /\ u = 2 * v
  BY <1>1, <1>4, <1>5, StridesAssumption
<1>7. CASE v = s
  <2>1. u = 1 * (2 * s)
    BY <1>1, <1>6, <1>7
  <2>2. QED BY <1>3, <2>1
<1>8. CASE v < s
  BY <1>1, <1>4, <1>6, <1>8, StridesAssumption
<1>9. CASE s < v
  <2>1. v \notin Odd
    BY <1>3, <1>4, <1>6
  <2>2. PICK k \in Nat : v = k * (2 * s)
    BY <1>4, <1>6, <1>9, <2>1, <1>1
  <2>3. u = (2 * k) * (2 * s)
    BY <1>1, <1>6, <2>2
  <2>4. QED BY <1>3, <2>3
<1>10. QED BY <1>1, <1>6, <1>7, <1>8, <1>9

\* Going on along a higher stride keeps the low digits.
LEMMA LowDigitsKept ==
    ASSUME NEW p \in 0 .. end_ID, NEW t \in ChildStrides(p), NEW s \in Strides, s < t
    PROVE  (p + t) % (2 * s) = p % (2 * s)
<1>1. s \in Nat \ {0} /\ t \in Strides /\ t \in Nat /\ t <= end_ID /\ p \in Nat
  BY StridesAssumption, RingAssumption DEF ChildStrides, end_ID
<1>2. PICK k \in Nat : t = k * (2 * s)
  BY <1>1, StridesDouble
<1>3. 2 * s \in Nat \ {0}
  BY <1>1
<1>4. QED BY <1>1, <1>2, <1>3, RemainderOfSum

\* The highest stride of an order is the one it is reached along.
LEMMA LastStride ==
    ASSUME NEW p \in 0 .. end_ID, NEW t \in ChildStrides(p),
           NEW s \in Strides, s <= p + t, p + t < 2 * s
    PROVE  s = t
<1>1. s \in Nat \ {0} /\ t \in Strides /\ t \in Nat \ {0} /\ p \in Nat /\ p < t
  BY StridesAssumption, RingAssumption DEF ChildStrides, end_ID
<1>2. QED BY <1>1, StridesAssumption

\* The tree in two sentences: the order reached from p along t is cut off if
\* the packet there was lost, or if p is cut off.
LEMMA CutOffStep ==
    ASSUME IInv, NEW p \in 0 .. end_ID, NEW t \in ChildStrides(p)
    PROVE  CutOff(p + t) <=> \/ \E m \in lost : m.order = p + t
                             \/ p # 0 /\ CutOff(p)
<1>1. /\ p \in Nat /\ t \in Strides /\ t \in Nat \ {0} /\ p < t
      /\ Strides \subseteq Nat \ {0} /\ p + t \in 1 .. end_ID
  BY StridesAssumption, RingAssumption DEF ChildStrides, end_ID
<1>2. \A m \in lost : m.order \in 1 .. end_ID
  BY DEF IInv, TypeOK, Packets
<1>3. ASSUME NEW m \in lost, m.order = p + t
      PROVE  CutOff(p + t)
  <2>1. (p + t) % (2 * t) = p + t
    BY <1>1
  <2>2. QED BY <1>1, <1>3, <2>1 DEF CutOff
<1>4. ASSUME NEW m \in lost, NEW s \in Strides, s <= m.order, m.order < 2 * s,
             s < t
      PROVE  /\ (p + t) % (2 * s) = p % (2 * s)
             /\ p % (2 * s) = m.order => p # 0
  <2>1. (p + t) % (2 * s) = p % (2 * s)
    BY <1>4, LowDigitsKept
  <2>2. 0 % (2 * s) = 0
    BY <1>1
  <2>3. QED BY <1>2, <2>1, <2>2
<1>5. ASSUME p # 0, CutOff(p)
      PROVE  CutOff(p + t)
  <2>1. PICK m \in lost, s \in Strides :
            s <= m.order /\ m.order < 2 * s /\ p % (2 * s) = m.order
    BY <1>5 DEF CutOff
  <2>2. p % (2 * s) <= p
    <3>1. 2 * s \in Nat \ {0}
      BY <1>1
    <3>2. QED BY <1>1, <3>1, RemainderBelow
  <2>3. s < t
    BY <1>1, <1>2, <2>1, <2>2
  <2>4. (p + t) % (2 * s) = m.order
    BY <1>4, <2>1, <2>3
  <2>5. QED BY <2>1, <2>4 DEF CutOff
<1>6. ASSUME CutOff(p + t), ~ \E m \in lost : m.order = p + t
      PROVE  p # 0 /\ CutOff(p)
  <2>1. PICK m \in lost, s \in Strides :
            s <= m.order /\ m.order < 2 * s /\ (p + t) % (2 * s) = m.order
    BY <1>6 DEF CutOff
  <2>2. s \in Nat \ {0}
    BY <1>1
  <2>3. s < t
    <3>1. SUFFICES ASSUME t <= s PROVE FALSE
      BY <1>1, <2>2
    <3>2. p + t < 2 * s
      BY <1>1, <2>2, <3>1
    <3>3. (p + t) % (2 * s) = p + t
      BY <1>1, <2>2, <3>2
    <3>4. QED BY <1>6, <2>1, <3>3
  <2>4. p % (2 * s) = m.order /\ p # 0
    BY <1>4, <2>1, <2>3
  <2>5. QED BY <2>1, <2>4 DEF CutOff
<1>7. QED BY <1>3, <1>5, <1>6

\* At rest an order was handled if the packet there was not lost and the order
\* it was sent from was handled.
LEMMA HandledStep ==
    ASSUME IInv, Quiet, NEW p \in 0 .. end_ID, NEW t \in ChildStrides(p)
    PROVE  (\E m \in rcvd : m.order = p + t)
                <=> /\ ~ \E m \in lost : m.order = p + t
                    /\ p = 0 \/ \E m \in rcvd : m.order = p
<1>1. started /\ Sent = rcvd \cup lost
  BY DEF Quiet, Sent
<1>2. ASSUME NEW m \in rcvd, m.order = p + t
      PROVE  /\ ~ \E n \in lost : n.order = p + t
             /\ p = 0 \/ \E n \in rcvd : n.order = p
  <2>1. ASSUME NEW n \in lost, n.order = p + t PROVE FALSE
    BY <1>1, <1>2, <2>1, OrderIdentifies DEF IInv, InOnePlace
  <2>2. PICK q \in 0 .. end_ID :
            ParentOf(m, q) /\ (q # 0 => \E n \in rcvd : n.order = q)
    BY <1>1 DEF IInv, HasParent
  <2>3. q = p
    BY <1>2, <2>2, UniqueParent DEF ParentOf
  <2>4. QED BY <2>1, <2>2, <2>3
<1>3. ASSUME p = 0 \/ \E m \in rcvd : m.order = p
      PROVE  \E m \in rcvd \cup lost : m.order = p + t
  BY <1>1, <1>3 DEF IInv, Forwarded
<1>4. QED BY <1>2, <1>3

\* A lost packet cuts off its receiver and those below it in the tree, in every
\* ring and for every pattern of losses: the least order for which this is not
\* so would have a parent for which it is.
THEOREM LossesCutSubtrees == Spec => []LossCutsSubtree
<1>1. IInv => LossCutsSubtree
  <2> SUFFICES ASSUME IInv, Quiet PROVE LossCutsSubtree
    BY DEF LossCutsSubtree
  <2> DEFINE Handled(o) == \E m \in rcvd : m.order = o
             Wrong == {o \in 1 .. end_ID : ~ (~ Handled(o) <=> CutOff(o))}
  <2>1. SUFFICES ASSUME Wrong # {} PROVE FALSE
    <3> HIDE DEF CutOff
    <3> QED BY DEF LossCutsSubtree
  <2>2. Wrong \subseteq Nat
    OBVIOUS
  <2>3. PICK o \in Wrong : \A q \in Wrong : o <= q
    <3> HIDE DEF Wrong
    <3> QED BY <2>1, <2>2, LeastNatural
  <2>4. PICK p \in 0 .. end_ID : \E s \in ChildStrides(p) : p < o /\ o = p + s
    BY ParentExists
  <2>5. PICK t \in ChildStrides(p) : p < o /\ o = p + t
    BY <2>4
  <2>6. p # 0 => (~ Handled(p) <=> CutOff(p))
    BY <2>3, <2>5, RingAssumption DEF end_ID
  <2>7. CutOff(o) <=> (\E m \in lost : m.order = o) \/ (p # 0 /\ CutOff(p))
    BY <2>5, CutOffStep
  <2>8. Handled(o) <=> ~ (\E m \in lost : m.order = o) /\ (p = 0 \/ Handled(p))
    BY <2>5, HandledStep
  <2>9. QED BY <2>3, <2>6, <2>7, <2>8
<1>2. QED BY <1>1, Invariance, PTL

-----------------------------------------------------------------------------
(***************************************************************************)
(* The ring broadcast implements RingCast: beginning maps to beginning,    *)
(* handling a packet to serving its receiver, a loss to a stutter.         *)
(***************************************************************************)
LEMMA StepSimulates == IInv /\ [Next]_vars => [Cast!Next]_times
<1> SUFFICES ASSUME IInv, [Next]_vars PROVE [Cast!Next]_times
  OBVIOUS
<1>1. root \in Members /\ times \in [Members -> Nat]
  BY DEF IInv, TypeOK
<1>2. CASE Begin
  <2>1. \A p \in Members : times[p] = 0
    BY <1>2 DEF Begin, IInv, Sent, Counted
  <2>2. times' = [times EXCEPT ![root] = 1]
    <3>1. times[root] = 0 /\ times' = [times EXCEPT ![root] = times[root] + 1]
      BY <1>1, <1>2, <2>1 DEF Begin
    <3>2. QED BY <3>1
  <2>3. QED BY <1>1, <2>1, <2>2 DEF Cast!Next, Cast!Begin
<1>3. ASSUME NEW m \in net, Handle(m)
      PROVE  Cast!Next
  <2>1. started /\ m \in Sent /\ m.to \in Members /\ m \notin rcvd
    BY DEF IInv, TypeOK, Sent, Packets, InOnePlace
  <2>2. times[root] = 1
    BY <1>1, <2>1 DEF IInv, Counted
  <2>3. times[m.to] = 0
    BY <2>1, OnePacketEach DEF IInv, Counted, Sent
  <2>4. times' = [times EXCEPT ![m.to] = 1]
    BY <1>1, <1>3, <2>1, <2>3 DEF Handle
  <2>5. Cast!HandOver(m.to)
    BY <1>1, <2>2, <2>3, <2>4 DEF Cast!HandOver
  <2>6. QED BY <2>1, <2>5 DEF Cast!Next
<1>4. ASSUME NEW m \in net, Lose(m)
      PROVE  UNCHANGED times
  BY <1>4 DEF Lose
<1>5. CASE UNCHANGED vars
  BY <1>5 DEF vars
<1>6. QED BY <1>2, <1>3, <1>4, <1>5 DEF Next

\* broadcast_within_ring keeps the promise of RingCast, for every ring size and
\* every pattern of loss: one member begins, each other is served at most once.
THEOREM Refinement == Spec => ImplementsCast
<1>1. Init => Cast!Init
  BY DEF Init, Cast!Init
<1>2. QED
  BY <1>1, StepSimulates, Invariance, PTL DEF Spec, ImplementsCast, Cast!Spec
=============================================================================
