---------------------------- MODULE EthPull_proofs --------------------------
(***************************************************************************)
(* Proofs about EthPull, for every network and any number of losses.       *)
(***************************************************************************)
EXTENDS EthPull, FiniteSetTheorems, TLAPS

\* broadcast sends to nodes only: it draws no index beyond the table, and the
\* first entry of a table is the successor.
LEMMA ReceiversAreNodes ==
    ASSUME FormStructure, NEW n \in Node, NEW R \in Receivers(n)
    PROVE  R \subseteq Node
<1>1. PICK first \in {{}, {table[n][0]}}, I \in SUBSET (1 .. TABLE_SIZE - 1) :
        R = first \cup {table[n][i] : i \in I}
  BY DEF Receivers
<1>2. I \subseteq 0 .. TABLE_SIZE /\ 0 \in 0 .. TABLE_SIZE
  BY OverlayAssumption
<1>3. \A i \in 0 .. TABLE_SIZE : table[n][i] \in Node
  BY OverlayAssumption DEF FormStructure, RoutingTables
<1>4. QED BY <1>1, <1>2, <1>3

-----------------------------------------------------------------------------
(***************************************************************************)
(* The inductive invariant.                                                *)
(***************************************************************************)

\* Whoever invites has the data.
InvitersHave ==
    \A m \in BagToSet(pull_net) : m.type = "inv" => m.item \in data_map[m.from]

\* A step of the exchange in which p invites q, q requests d, and p answers.
StepOf(m, p, q, d) ==
    /\ m.item = d
    /\ \/ m.type \in {"inv", "data"} /\ m.from = p /\ m.to = q
       \/ m.type = "request" /\ m.from = q /\ m.to = p

\* An exchange that was begun is over, under way or was cut by a loss.
Served(p, q, d) ==
    \/ d \in data_map[q]
    \/ \E m \in BagToSet(pull_net) \cup BagToSet(pull_lost) : StepOf(m, p, q, d)

ExchangesGoOn ==
    \A p \in Node, q \in Node, d \in Origins :
        <<p, q, d>> \in invited => Served(p, q, d)

IInv == PullTypeOK /\ InvitersHave /\ RequestsAnswerable /\ ExchangesGoOn

-----------------------------------------------------------------------------
(***************************************************************************)
(* Facts about bags and about invitations.                                 *)
(***************************************************************************)
\* Only the datagram handled leaves the network, and only the new ones enter.
LEMMA PutEffect ==
    ASSUME NEW msgs, NEW m, IsABag(pull_net), Put(msgs, SetToBag({m}))
    PROVE  /\ IsABag(pull_net')
           /\ BagToSet(pull_net') \subseteq BagToSet(pull_net) \cup msgs
           /\ (BagToSet(pull_net) \ {m}) \cup msgs \subseteq BagToSet(pull_net')
  BY DEF Put, IsABag, BagToSet, SetToBag, (+), (-)

\* If nothing is handled, nothing leaves.
LEMMA FirstPutEffect ==
    ASSUME NEW msgs, IsABag(pull_net), Put(msgs, EmptyBag)
    PROVE  /\ IsABag(pull_net')
           /\ BagToSet(pull_net') \subseteq BagToSet(pull_net) \cup msgs
           /\ BagToSet(pull_net) \cup msgs \subseteq BagToSet(pull_net')
  BY DEF Put, IsABag, BagToSet, SetToBag, EmptyBag, (+), (-)

\* A lost datagram is one more in the bag of those.
LEMMA AddToBag ==
    ASSUME NEW m, IsABag(pull_lost), pull_lost' = pull_lost (+) SetToBag({m})
    PROVE  IsABag(pull_lost') /\ BagToSet(pull_lost') = BagToSet(pull_lost) \cup {m}
  BY DEF IsABag, BagToSet, SetToBag, (+)

\* The invitations of one round, one for each receiver.
Invitations(n, d, R) == {[type |-> "inv", item |-> d, from |-> n, to |-> r] : r \in R}

\* Invitations are what they should be.
LEMMA InvitationsType ==
    ASSUME NEW n \in Node, NEW d \in Origins, NEW R \in SUBSET Node
    PROVE  \A m \in Invitations(n, d, R) :
                m \in PullMessage /\ m.type = "inv" /\ m.item = d /\ m.from = n
  BY DEF Invitations, PullMessage

-----------------------------------------------------------------------------
(***************************************************************************)
(* The invariant is inductive.                                             *)
(***************************************************************************)
\* Before the first broadcast nobody was invited.
LEMMA InitEstablishes == PullInit => IInv
<1> SUFFICES ASSUME PullInit PROVE IInv
  OBVIOUS
<1>1. IsABag(EmptyBag) /\ BagToSet(EmptyBag) = {}
  BY DEF IsABag, EmptyBag, SetToBag, BagToSet
<1>2. QED
  BY <1>1 DEF PullInit, IInv, PullTypeOK, InvitersHave, RequestsAnswerable, ExchangesGoOn

\* A round of invitations by a node that has the data keeps the invariant,
\* whether it replaces a datagram that was handled or not.
RoundOf(n, d, R) ==
    /\ IsABag(pull_net') /\ BagToSet(pull_net') \subseteq BagToSet(pull_net) \cup Invitations(n, d, R)
    /\ Invitations(n, d, R) \subseteq BagToSet(pull_net')
    /\ \A m \in BagToSet(pull_net) :
            m \in BagToSet(pull_net') \/ (m.type = "data" /\ m.to = n /\ m.item = d)
    /\ data_map' = [data_map EXCEPT ![n] = @ \cup {d}]
    /\ invited' = invited \cup {<<n, r, d>> : r \in R}
    /\ rounds' = [rounds EXCEPT ![n][d] = @ + 1]
    /\ UNCHANGED <<table, requests, pull_lost>>

\* The inviter has the data it invites to.
LEMMA RoundPreserves ==
    ASSUME IInv, NEW n \in Node, NEW d \in Origins, NEW R \in SUBSET Node,
           RoundOf(n, d, R)
    PROVE  IInv'
<1>1. \A m \in BagToSet(pull_net') : m \in BagToSet(pull_net) \/
            (m \in PullMessage /\ m.type = "inv" /\ m.item = d /\ m.from = n)
  BY InvitationsType DEF RoundOf
<1>2. /\ \A x \in Node : data_map[x] \subseteq data_map'[x]
      /\ d \in data_map'[n]
  BY DEF IInv, PullTypeOK, RoundOf
<1>3. \A m \in BagToSet(pull_net) : m \in PullMessage /\ m.from \in Node /\ m.to \in Node
  BY DEF IInv, PullTypeOK, PullMessage
<1>4. PullTypeOK'
  <2>1. FormStructure'
    BY DEF IInv, PullTypeOK, RoundOf, FormStructure
  <2>2. data_map' \in [Node -> SUBSET Origins] /\ rounds' \in [Node -> [Origins -> Nat]]
    BY DEF IInv, PullTypeOK, RoundOf
  <2>3. invited' \subseteq Node \X Node \X Origins
    BY DEF IInv, PullTypeOK, RoundOf
  <2>4. IsABag(pull_net') /\ BagToSet(pull_net') \subseteq PullMessage
    BY <1>1, <1>3 DEF RoundOf
  <2>5. UNCHANGED <<requests, pull_lost>>
    BY DEF RoundOf
  <2>6. QED BY <2>1, <2>2, <2>3, <2>4, <2>5 DEF IInv, PullTypeOK
<1>5. InvitersHave'
  BY <1>1, <1>2, <1>3 DEF IInv, InvitersHave
<1>6. RequestsAnswerable'
  BY <1>1, <1>2, <1>3 DEF IInv, RequestsAnswerable
<1>7. ExchangesGoOn'
  <2>1. SUFFICES ASSUME NEW p \in Node, NEW q \in Node, NEW e \in Origins,
                        <<p, q, e>> \in invited'
                 PROVE  Served(p, q, e)'
    BY DEF ExchangesGoOn
  <2>2. CASE <<p, q, e>> \in invited
    <3>1. Served(p, q, e)
      BY <2>2 DEF IInv, ExchangesGoOn
    <3>2. ASSUME NEW m \in BagToSet(pull_net), StepOf(m, p, q, e)
          PROVE  Served(p, q, e)'
      <4>1. CASE m \in BagToSet(pull_net')
        BY <3>2, <4>1 DEF Served, StepOf
      <4>2. CASE m.type = "data" /\ m.to = n /\ m.item = d
        BY <1>2, <3>2, <4>2 DEF Served, StepOf
      <4>3. QED BY <4>1, <4>2 DEF RoundOf
    <3>3. ASSUME NEW m \in BagToSet(pull_lost), StepOf(m, p, q, e)
          PROVE  Served(p, q, e)'
      BY <3>3 DEF Served, StepOf, RoundOf
    <3>4. CASE e \in data_map[q]
      BY <1>2, <3>4 DEF Served
    <3>5. QED BY <3>1, <3>2, <3>3, <3>4 DEF Served
  <2>3. CASE <<p, q, e>> \notin invited
    <3>1. p = n /\ e = d /\ q \in R
      BY <2>1, <2>3 DEF RoundOf
    <3>2. [type |-> "inv", item |-> e, from |-> p, to |-> q] \in BagToSet(pull_net')
      BY <3>1 DEF RoundOf, Invitations
    <3>3. QED BY <3>2 DEF Served, StepOf
  <2>4. QED BY <2>2, <2>3
<1>8. QED BY <1>4, <1>5, <1>6, <1>7 DEF IInv

\* broadcast keeps the data before it invites.
LEMMA BroadcastPreserves ==
    ASSUME IInv, NEW n \in Origins, PullBroadcast(n)
    PROVE  IInv'
<1>1. PullTypeOK /\ n \in Node /\ IsABag(pull_net) /\ FormStructure
  BY BoundsAssumption DEF IInv, PullTypeOK
<1>2. PICK R \in Receivers(n) :
        /\ Put(Invitations(n, n, R), EmptyBag)
        /\ invited' = invited \cup {<<n, r, n>> : r \in R}
  BY DEF PullBroadcast, Invite, Invitations
<1>3. R \in SUBSET Node
  BY <1>1, ReceiversAreNodes
<1>4. /\ IsABag(pull_net') /\ BagToSet(pull_net') \subseteq BagToSet(pull_net) \cup Invitations(n, n, R)
      /\ BagToSet(pull_net) \cup Invitations(n, n, R) \subseteq BagToSet(pull_net')
  BY <1>1, <1>2, FirstPutEffect
<1>5. RoundOf(n, n, R)
  BY <1>2, <1>4 DEF RoundOf, PullBroadcast, Invite
<1>6. QED BY <1>1, <1>3, <1>5, RoundPreserves

\* on_receive keeps the data before it invites.
LEMMA ReceiveDataPreserves ==
    ASSUME IInv, NEW m \in BagToSet(pull_net), ReceiveData(m)
    PROVE  IInv'
<1> DEFINE n == m.to
           d == m.item
<1>1. PullTypeOK /\ n \in Node /\ d \in Origins /\ IsABag(pull_net) /\ FormStructure
  BY DEF IInv, PullTypeOK, PullMessage
<1>2. PICK R \in Receivers(n) :
        /\ Put(Invitations(n, d, R), SetToBag({m}))
        /\ invited' = invited \cup {<<n, r, d>> : r \in R}
  BY DEF ReceiveData, Invite, Invitations
<1>3. R \in SUBSET Node
  BY <1>1, ReceiversAreNodes
<1>4. /\ IsABag(pull_net') /\ BagToSet(pull_net') \subseteq BagToSet(pull_net) \cup Invitations(n, d, R)
      /\ (BagToSet(pull_net) \ {m}) \cup Invitations(n, d, R) \subseteq BagToSet(pull_net')
  BY <1>1, <1>2, PutEffect
<1>5. RoundOf(n, d, R)
  BY <1>2, <1>4 DEF RoundOf, ReceiveData, Invite
<1>6. QED BY <1>1, <1>3, <1>5, RoundPreserves

\* A datagram is handled with one reply at the most: the invariant is kept if
\* what the reply says is true and the exchange it belongs to goes on.
OneReply(m, msgs) ==
    /\ IsABag(pull_net') /\ BagToSet(pull_net') \subseteq BagToSet(pull_net) \cup msgs
    /\ BagToSet(pull_net) \ {m} \subseteq BagToSet(pull_net')
    /\ msgs \subseteq PullMessage
    /\ \A r \in msgs : r.type # "inv"
    /\ \A r \in msgs : r.type = "request" => r.item \in data_map[r.to]
    /\ \A p \in Node, q \in Node, d \in Origins : StepOf(m, p, q, d) => Served(p, q, d)'
    /\ requests' \in [Node -> [Origins -> Nat]]
    /\ IsABag(pull_lost') /\ BagToSet(pull_lost) \subseteq BagToSet(pull_lost')
    /\ BagToSet(pull_lost') \subseteq BagToSet(pull_lost) \cup {m}
    /\ UNCHANGED <<table, data_map, invited, rounds>>

\* Handling with one reply at most, or losing, keeps the invariant.
LEMMA OneReplyPreserves ==
    ASSUME IInv, NEW m \in BagToSet(pull_net), NEW msgs, OneReply(m, msgs)
    PROVE  IInv'
<1>1. PullTypeOK'
  <2>1. FormStructure'
    BY DEF IInv, PullTypeOK, OneReply, FormStructure
  <2>2. /\ IsABag(pull_net') /\ BagToSet(pull_net') \subseteq PullMessage
        /\ IsABag(pull_lost') /\ BagToSet(pull_lost') \subseteq PullMessage
    BY DEF IInv, PullTypeOK, OneReply
  <2>3. QED BY <2>1, <2>2 DEF IInv, PullTypeOK, OneReply
<1>2. InvitersHave'
  BY DEF IInv, InvitersHave, OneReply
<1>3. RequestsAnswerable'
  BY DEF IInv, RequestsAnswerable, OneReply
<1>4. ExchangesGoOn'
  <2>1. SUFFICES ASSUME NEW p \in Node, NEW q \in Node, NEW d \in Origins,
                        <<p, q, d>> \in invited
                 PROVE  Served(p, q, d)'
    BY DEF ExchangesGoOn, OneReply
  <2>2. Served(p, q, d)
    BY <2>1 DEF IInv, ExchangesGoOn
  <2>3. ASSUME NEW x \in BagToSet(pull_net) \cup BagToSet(pull_lost), StepOf(x, p, q, d)
        PROVE  Served(p, q, d)'
    <3>1. CASE x = m
      BY <2>3, <3>1 DEF OneReply
    <3>2. CASE x # m
      <4>1. x \in BagToSet(pull_net') \cup BagToSet(pull_lost')
        BY <3>2 DEF OneReply
      <4>2. QED BY <2>3, <4>1 DEF Served, StepOf
    <3>3. QED BY <3>1, <3>2
  <2>4. CASE d \in data_map[q]
    BY <2>4 DEF Served, OneReply
  <2>5. QED BY <2>2, <2>3, <2>4 DEF Served
<1>5. QED BY <1>1, <1>2, <1>3, <1>4 DEF IInv

\* A reply goes back to where the datagram came from.
LEMMA ReplyType ==
    ASSUME NEW m \in PullMessage, NEW type \in {"inv", "data", "request"}
    PROVE  /\ Reply(type, m) \in PullMessage /\ Reply(type, m).type = type
           /\ Reply(type, m).item = m.item
           /\ Reply(type, m).from = m.to /\ Reply(type, m).to = m.from
  BY DEF Reply, PullMessage

\* An invitation is useless only to those who have the data.
LEMMA UselessInvPreserves ==
    ASSUME IInv, NEW m \in BagToSet(pull_net), UselessInv(m)
    PROVE  IInv'
<1>1. /\ IsABag(pull_net') /\ BagToSet(pull_net') \subseteq BagToSet(pull_net) \cup {}
      /\ (BagToSet(pull_net) \ {m}) \cup {} \subseteq BagToSet(pull_net')
  BY PutEffect DEF UselessInv, IInv, PullTypeOK
<1>2. OneReply(m, {})
  BY <1>1 DEF UselessInv, Has, OneReply, IInv, PullTypeOK, StepOf, Served
<1>3. QED BY <1>2, OneReplyPreserves

\* Who invited has the data that is requested of it.
LEMMA RequestPreserves ==
    ASSUME IInv, NEW m \in BagToSet(pull_net), Request(m)
    PROVE  IInv'
<1> DEFINE r == Reply("request", m)
<1>1. /\ m \in PullMessage /\ m.item \in Origins /\ m.to \in Node
      /\ m.type = "inv" /\ m.item \in data_map[m.from]
  BY DEF Request, IInv, PullTypeOK, PullMessage, InvitersHave
<1>2. /\ r \in PullMessage /\ r.type = "request" /\ r.item = m.item
      /\ r.from = m.to /\ r.to = m.from
  BY <1>1, ReplyType
<1> HIDE DEF r
<1>3. /\ IsABag(pull_net') /\ BagToSet(pull_net') \subseteq BagToSet(pull_net) \cup {r}
      /\ (BagToSet(pull_net) \ {m}) \cup {r} \subseteq BagToSet(pull_net')
  BY PutEffect DEF Request, IInv, PullTypeOK, r
<1>4. requests' \in [Node -> [Origins -> Nat]]
  BY <1>1 DEF Request, IInv, PullTypeOK
<1>5. \A p \in Node, q \in Node, d \in Origins : StepOf(m, p, q, d) => Served(p, q, d)'
  BY <1>1, <1>2, <1>3 DEF StepOf, Served
<1>6. OneReply(m, {r})
  BY <1>1, <1>2, <1>3, <1>4, <1>5 DEF Request, OneReply, IInv, PullTypeOK
<1>7. QED BY <1>6, OneReplyPreserves

\* An answer is the last step of an exchange.
LEMMA AnswerPreserves ==
    ASSUME IInv, NEW m \in BagToSet(pull_net), Answer(m)
    PROVE  IInv'
<1> DEFINE r == Reply("data", m)
<1>1. m \in PullMessage /\ m.type = "request"
  BY DEF Answer, IInv, PullTypeOK
<1>2. /\ r \in PullMessage /\ r.type = "data" /\ r.item = m.item
      /\ r.from = m.to /\ r.to = m.from
  BY <1>1, ReplyType
<1> HIDE DEF r
<1>3. /\ IsABag(pull_net') /\ BagToSet(pull_net') \subseteq BagToSet(pull_net) \cup {r}
      /\ (BagToSet(pull_net) \ {m}) \cup {r} \subseteq BagToSet(pull_net')
  BY PutEffect DEF Answer, IInv, PullTypeOK, r
<1>4. \A p \in Node, q \in Node, d \in Origins : StepOf(m, p, q, d) => Served(p, q, d)'
  BY <1>1, <1>2, <1>3 DEF StepOf, Served
<1>5. OneReply(m, {r})
  BY <1>2, <1>3, <1>4 DEF Answer, OneReply, IInv, PullTypeOK
<1>6. QED BY <1>5, OneReplyPreserves

\* A loss cuts an exchange, and is on record.
LEMMA LosePreserves ==
    ASSUME IInv, NEW m \in BagToSet(pull_net), PullLose(m)
    PROVE  IInv'
<1>1. /\ IsABag(pull_net') /\ BagToSet(pull_net') \subseteq BagToSet(pull_net) \cup {}
      /\ (BagToSet(pull_net) \ {m}) \cup {} \subseteq BagToSet(pull_net')
  BY PutEffect DEF PullLose, IInv, PullTypeOK
<1>2. IsABag(pull_lost') /\ BagToSet(pull_lost') = BagToSet(pull_lost) \cup {m}
  BY AddToBag DEF PullLose, IInv, PullTypeOK
<1>3. \A p \in Node, q \in Node, d \in Origins : StepOf(m, p, q, d) => Served(p, q, d)'
  BY <1>2 DEF StepOf, Served
<1>4. OneReply(m, {})
  BY <1>1, <1>2, <1>3 DEF PullLose, OneReply, IInv, PullTypeOK
<1>5. QED BY <1>4, OneReplyPreserves

\* So every step keeps the invariant.
LEMMA StepPreserves == IInv /\ [PullNext]_pullVars => IInv'
<1> SUFFICES ASSUME IInv, [PullNext]_pullVars PROVE IInv'
  OBVIOUS
<1>1. ASSUME NEW n \in Origins, PullBroadcast(n) PROVE IInv'
  BY <1>1, BroadcastPreserves
<1>2. ASSUME NEW m \in BagToSet(pull_net), PullReceive(m) \/ PullLose(m) PROVE IInv'
  BY <1>2, UselessInvPreserves, RequestPreserves, ReceiveDataPreserves,
     AnswerPreserves, LosePreserves DEF PullReceive
<1>3. CASE UNCHANGED pullVars
  <2>1. PullTypeOK'
    BY <1>3 DEF pullVars, IInv, PullTypeOK, FormStructure
  <2>2. InvitersHave' /\ RequestsAnswerable'
    BY <1>3 DEF pullVars, IInv, InvitersHave, RequestsAnswerable
  <2>3. ExchangesGoOn'
    BY <1>3 DEF pullVars, IInv, ExchangesGoOn, Served
  <2>4. QED BY <2>1, <2>2, <2>3 DEF IInv
<1>4. QED BY <1>1, <1>2, <1>3 DEF PullNext

-----------------------------------------------------------------------------
\* Every step of pull gossip keeps IInv.
THEOREM Invariance == PullSpec => []IInv
  BY InitEstablishes, StepPreserves, PTL DEF PullSpec

\* Whoever is asked for data has it: the lookup in on_receive, which is not
\* checked, never comes up empty.
THEOREM LookupsSucceed == PullSpec => []RequestsAnswerable
<1>1. IInv => RequestsAnswerable
  BY DEF IInv
<1>2. QED BY <1>1, Invariance, PTL

\* Gossip that has died down has served everyone who was invited, except where
\* a datagram was lost.
THEOREM InvitationsAreKept == PullSpec => []InvitedAreServed
<1>1. IInv => InvitedAreServed
  <2>1. SUFFICES ASSUME IInv, pull_net = EmptyBag, NEW e \in invited
                 PROVE  \/ e[3] \in data_map[e[2]]
                        \/ \E m \in BagToSet(pull_lost) :
                             m.item = e[3] /\ {m.from, m.to} = {e[1], e[2]}
    BY DEF InvitedAreServed
  <2>2. PICK p \in Node, q \in Node, d \in Origins : e = <<p, q, d>>
    BY <2>1 DEF IInv, PullTypeOK
  <2>3. BagToSet(pull_net) = {}
    BY <2>1 DEF BagToSet, EmptyBag, SetToBag
  <2>4. Served(p, q, d)
    BY <2>1, <2>2 DEF IInv, ExchangesGoOn
  <2>5. \A m : StepOf(m, p, q, d) => m.item = d /\ {m.from, m.to} = {p, q}
    BY DEF StepOf
  <2>6. QED BY <2>2, <2>3, <2>4, <2>5 DEF Served
<1>2. QED BY <1>1, Invariance, PTL
-----------------------------------------------------------------------------
(***************************************************************************)
(* The balance of requests and rounds.                                     *)
(***************************************************************************)

\* A datagram is in Copies as often as it is in the bag, if it concerns n and d.
LEMMA CopyPresent ==
    ASSUME NEW B, IsABag(B), NEW n, NEW d
    PROVE  \A m, i : <<m, i>> \in Copies(B, n, d) <=>
                        /\ m \in BagToSet(B) /\ Concerns(m, n, d)
                        /\ i \in 1 .. B[m]
  BY DEF Copies

\* Nothing but such pairs is in Copies.
LEMMA CopiesArePairs ==
    ASSUME NEW B, NEW n, NEW d, NEW c \in Copies(B, n, d)
    PROVE  \E m, i : c = <<m, i>>
  BY DEF Copies

\* So two collections of copies are equal if they have the same pairs.
LEMMA SameCopies ==
    ASSUME NEW B, NEW C, IsABag(B), IsABag(C), NEW n, NEW d,
           \A m : Concerns(m, n, d) =>
                    /\ m \in BagToSet(B) <=> m \in BagToSet(C)
                    /\ m \in BagToSet(B) => B[m] = C[m]
    PROVE  Copies(B, n, d) = Copies(C, n, d)
  BY DEF Copies

Countable(B) == \A n \in Node, d \in Origins : IsFiniteSet(Copies(B, n, d))

\* A count is a number.
LEMMA CountType ==
    ASSUME NEW B, Countable(B), NEW n \in Node, NEW d \in Origins
    PROVE  HowMany(B, n, d) \in Nat
  BY FS_CardinalityType DEF Countable, HowMany

\* One datagram less.
LEMMA OneLess ==
    ASSUME NEW B, IsABag(B), Countable(B), NEW m \in BagToSet(B)
    PROVE  /\ IsABag(B (-) SetToBag({m})) /\ Countable(B (-) SetToBag({m}))
           /\ \A n \in Node, d \in Origins :
                 HowMany(B (-) SetToBag({m}), n, d) =
                     HowMany(B, n, d) - (IF Concerns(m, n, d) THEN 1 ELSE 0)
<1> DEFINE C == B (-) SetToBag({m})
<1>1. IsABag(C)
  BY DEF IsABag, BagToSet, SetToBag, (-)
<1>2. /\ B[m] \in Nat \ {0}
      /\ \A x : x # m => /\ x \in BagToSet(B) <=> x \in BagToSet(C)
                         /\ x \in BagToSet(B) => B[x] = C[x]
      /\ m \in BagToSet(C) <=> B[m] > 1
      /\ m \in BagToSet(C) => C[m] = B[m] - 1
  BY DEF IsABag, BagToSet, SetToBag, (-)
<1> HIDE DEF C
<1>3. ASSUME NEW n \in Node, NEW d \in Origins
      PROVE  /\ IsFiniteSet(Copies(C, n, d))
             /\ HowMany(C, n, d) = HowMany(B, n, d) - (IF Concerns(m, n, d) THEN 1 ELSE 0)
  <2>1. IsFiniteSet(Copies(B, n, d)) /\ Cardinality(Copies(B, n, d)) \in Nat
    BY FS_CardinalityType DEF Countable
  <2>2. CASE ~ Concerns(m, n, d)
    <3>1. Copies(C, n, d) = Copies(B, n, d)
      BY <1>1, <1>2, <2>2, SameCopies
    <3>2. QED BY <2>1, <2>2, <3>1 DEF HowMany
  <2>3. CASE Concerns(m, n, d)
    <3>1. <<m, B[m]>> \in Copies(B, n, d)
      BY <1>2, <2>3, CopyPresent
    <3>2. Copies(C, n, d) = Copies(B, n, d) \ {<<m, B[m]>>}
      <4>1. ASSUME NEW x, NEW i
            PROVE  <<x, i>> \in Copies(C, n, d) <=>
                        <<x, i>> \in Copies(B, n, d) /\ <<x, i>> # <<m, B[m]>>
        <5>1. CASE x = m
          BY <1>1, <1>2, <2>3, <5>1, CopyPresent
        <5>2. CASE x # m
          BY <1>1, <1>2, <5>2, CopyPresent
        <5>3. QED BY <5>1, <5>2
      <4>2. QED BY <4>1, CopiesArePairs
    <3>3. /\ IsFiniteSet(Copies(C, n, d))
          /\ Cardinality(Copies(C, n, d)) = Cardinality(Copies(B, n, d)) - 1
      BY <2>1, <3>1, <3>2, FS_RemoveElement
    <3>4. QED BY <2>3, <3>3 DEF HowMany
  <2>4. QED BY <2>2, <2>3
<1>4. QED BY <1>1, <1>3 DEF C, Countable

\* One datagram more.
LEMMA OneMore ==
    ASSUME NEW B, IsABag(B), Countable(B), NEW m
    PROVE  /\ IsABag(B (+) SetToBag({m})) /\ Countable(B (+) SetToBag({m}))
           /\ \A n \in Node, d \in Origins :
                 HowMany(B (+) SetToBag({m}), n, d) =
                     HowMany(B, n, d) + (IF Concerns(m, n, d) THEN 1 ELSE 0)
<1> DEFINE C == B (+) SetToBag({m})
           k == IF m \in BagToSet(B) THEN B[m] ELSE 0
<1>1. IsABag(C)
  BY DEF IsABag, BagToSet, SetToBag, (+)
<1>2. /\ k \in Nat /\ m \in BagToSet(C) /\ C[m] = k + 1
      /\ \A x : x # m => /\ x \in BagToSet(B) <=> x \in BagToSet(C)
                         /\ x \in BagToSet(B) => B[x] = C[x]
      /\ m \in BagToSet(B) => B[m] = k
      /\ m \notin BagToSet(B) => k = 0
  BY DEF IsABag, BagToSet, SetToBag, (+)
<1> HIDE DEF C, k
<1>3. ASSUME NEW n \in Node, NEW d \in Origins
      PROVE  /\ IsFiniteSet(Copies(C, n, d))
             /\ HowMany(C, n, d) = HowMany(B, n, d) + (IF Concerns(m, n, d) THEN 1 ELSE 0)
  <2>1. IsFiniteSet(Copies(B, n, d)) /\ Cardinality(Copies(B, n, d)) \in Nat
    BY FS_CardinalityType DEF Countable
  <2>2. CASE ~ Concerns(m, n, d)
    <3>1. Copies(C, n, d) = Copies(B, n, d)
      BY <1>1, <1>2, <2>2, SameCopies
    <3>2. QED BY <2>1, <2>2, <3>1 DEF HowMany
  <2>3. CASE Concerns(m, n, d)
    <3>1. <<m, k + 1>> \notin Copies(B, n, d)
      BY <1>2, CopyPresent
    <3>2. Copies(C, n, d) = Copies(B, n, d) \cup {<<m, k + 1>>}
      <4>1. ASSUME NEW x, NEW i
            PROVE  <<x, i>> \in Copies(C, n, d) <=>
                        <<x, i>> \in Copies(B, n, d) \/ <<x, i>> = <<m, k + 1>>
        <5>1. CASE x = m
          BY <1>1, <1>2, <2>3, <5>1, CopyPresent
        <5>2. CASE x # m
          BY <1>1, <1>2, <5>2, CopyPresent
        <5>3. QED BY <5>1, <5>2
      <4>2. QED BY <4>1, CopiesArePairs
    <3>3. /\ IsFiniteSet(Copies(B, n, d) \cup {<<m, k + 1>>})
          /\ Cardinality(Copies(B, n, d) \cup {<<m, k + 1>>}) = Cardinality(Copies(B, n, d)) + 1
      <4> DEFINE S == Copies(B, n, d)
                 x == <<m, k + 1>>
      <4> HIDE DEF S, x
      <4>1. IsFiniteSet(S) /\ x \notin S
        BY <2>1, <3>1 DEF S, x
      <4>2. IsFiniteSet(S \cup {x}) /\ Cardinality(S \cup {x}) = Cardinality(S) + 1
        BY <4>1, FS_AddElement
      <4>3. QED BY <4>2 DEF S, x
    <3>4. QED BY <2>3, <3>2, <3>3 DEF HowMany
  <2>4. QED BY <2>2, <2>3
<1>4. QED BY <1>1, <1>3 DEF C, Countable

\* Invitations are not counted.
LEMMA InvitationsUncounted ==
    ASSUME NEW B, IsABag(B), Countable(B), NEW S, \A m \in S : m.type = "inv"
    PROVE  /\ Countable(B (+) SetToBag(S))
           /\ \A n \in Node, d \in Origins : HowMany(B (+) SetToBag(S), n, d) = HowMany(B, n, d)
<1> DEFINE C == B (+) SetToBag(S)
<1>1. IsABag(C)
  BY DEF IsABag, BagToSet, SetToBag, (+)
<1>2. \A x : x \notin S => /\ x \in BagToSet(B) <=> x \in BagToSet(C)
                           /\ x \in BagToSet(B) => B[x] = C[x]
  BY DEF IsABag, BagToSet, SetToBag, (+)
<1> HIDE DEF C
<1>3. ASSUME NEW n \in Node, NEW d \in Origins
      PROVE  Copies(C, n, d) = Copies(B, n, d)
  <2>1. \A x : Concerns(x, n, d) => x \notin S
    BY DEF Concerns
  <2>2. QED BY <1>1, <1>2, <2>1, SameCopies
<1>4. QED BY <1>3 DEF C, Countable, HowMany

\* Taking no datagram away changes nothing, nor does putting none.
LEMMA NothingTaken ==
    ASSUME NEW B, IsABag(B)
    PROVE  B (-) EmptyBag = B /\ B (+) SetToBag({}) = B
<1>1. B = [e \in DOMAIN B |-> B[e]] /\ \A e \in DOMAIN B : B[e] \in Nat /\ B[e] > 0
  BY DEF IsABag
<1>2. B (-) EmptyBag = B
  <2>1. DOMAIN (B (-) EmptyBag) = DOMAIN B
    BY <1>1 DEF EmptyBag, SetToBag, (-)
  <2>2. B (-) EmptyBag = [e \in DOMAIN B |-> B[e]]
    BY <1>1, <2>1 DEF EmptyBag, SetToBag, (-)
  <2>3. QED BY <1>1, <2>2
<1>3. B (+) SetToBag({}) = B
  BY <1>1 DEF SetToBag, (+)
<1>4. QED BY <1>2, <1>3

\* Whatever is known anywhere is known at its origin, and nobody is sent data
\* its origin has not broadcast: so the origin's first round is its first.
OriginsFirst ==
    /\ \A n \in Node : \A d \in data_map[n] : d \in data_map[d]
    /\ \A m \in BagToSet(pull_net) : m.type = "data" => m.item \in data_map[m.item]

Books == Countable(pull_net) /\ Countable(pull_lost) /\ OriginsFirst /\ RequestsBalance

\* Nothing was requested before the first broadcast.
LEMMA BooksOpen == PullInit => Books
<1> SUFFICES ASSUME PullInit PROVE Books
  OBVIOUS
<1>1. IsABag(EmptyBag) /\ BagToSet(EmptyBag) = {}
  BY DEF IsABag, EmptyBag, SetToBag, BagToSet
<1>2. \A n, d : Copies(EmptyBag, n, d) = {}
  BY <1>1 DEF Copies
<1>3. Countable(EmptyBag) /\ \A n, d : HowMany(EmptyBag, n, d) = 0
  BY <1>2, FS_EmptySet DEF Countable, HowMany
<1>4. OriginsFirst
  BY <1>1 DEF PullInit, OriginsFirst
<1>5. RequestsBalance
  BY <1>3, BoundsAssumption DEF PullInit, RequestsBalance
<1>6. QED BY <1>3, <1>4, <1>5 DEF PullInit, Books

\* The parts of the balance are numbers.
LEMMA BooksType ==
    ASSUME IInv, Books, NEW n \in Node, NEW d \in Origins
    PROVE  /\ requests[n][d] \in Nat /\ rounds[n][d] \in Nat
           /\ HowMany(pull_net, n, d) \in Nat /\ HowMany(pull_lost, n, d) \in Nat
           /\ d \in Node
  BY BoundsAssumption, FS_CardinalityType DEF IInv, PullTypeOK, Books, Countable, HowMany

\* The origin's first round has no request.
LEMMA BroadcastBooked == ASSUME IInv, Books, NEW o \in Origins, PullBroadcast(o) PROVE Books'
<1>1. o \in Node /\ IsABag(pull_net) /\ FormStructure /\ o \notin data_map[o]
  BY BoundsAssumption DEF IInv, PullTypeOK, PullBroadcast
<1>2. PICK R \in Receivers(o) : Put(Invitations(o, o, R), EmptyBag)
  BY DEF PullBroadcast, Invite, Invitations
<1>3. R \in SUBSET Node
  BY <1>1, ReceiversAreNodes
<1>4. pull_net' = pull_net (+) SetToBag(Invitations(o, o, R))
  BY <1>1, <1>2, NothingTaken DEF Put
<1>5. /\ Countable(pull_net')
      /\ \A n \in Node, d \in Origins : HowMany(pull_net', n, d) = HowMany(pull_net, n, d)
  BY <1>1, <1>4, InvitationsUncounted DEF Books, Invitations
<1>6. /\ pull_lost' = pull_lost /\ requests' = requests
      /\ data_map' = [data_map EXCEPT ![o] = @ \cup {o}]
      /\ rounds' = [rounds EXCEPT ![o][o] = @ + 1]
  BY DEF PullBroadcast, Invite
<1>7. OriginsFirst'
  <2>1. \A n \in Node : \A d \in data_map'[n] : d \in data_map'[d]
    BY <1>1, <1>6, BoundsAssumption DEF IInv, PullTypeOK, Books, OriginsFirst
  <2>2. \A m \in BagToSet(pull_net') : m.type = "data" => m \in BagToSet(pull_net)
    BY <1>1, <1>2, FirstPutEffect DEF Invitations
  <2>3. \A m \in BagToSet(pull_net) : m.item \in Node
    BY BoundsAssumption DEF IInv, PullTypeOK, PullMessage
  <2>4. QED BY <1>6, <2>1, <2>2, <2>3 DEF IInv, PullTypeOK, Books, OriginsFirst
<1>8. RequestsBalance'
  <2> SUFFICES ASSUME NEW n \in Node, NEW d \in Origins
      PROVE  requests'[n][d] + (IF n = d /\ d \in data_map'[d] THEN 1 ELSE 0)
                = rounds'[n][d] + HowMany(pull_net', n, d) + HowMany(pull_lost', n, d)
    BY DEF RequestsBalance
  <2>1. requests[n][d] + (IF n = d /\ d \in data_map[d] THEN 1 ELSE 0)
                = rounds[n][d] + HowMany(pull_net, n, d) + HowMany(pull_lost, n, d)
    BY DEF Books, RequestsBalance
  <2>2. CASE n = o /\ d = o
    <3>1. d \in data_map'[d] /\ d \notin data_map[d] /\ rounds'[n][d] = rounds[n][d] + 1
      BY <1>1, <1>6, <2>2 DEF IInv, PullTypeOK
    <3>2. QED BY <1>5, <1>6, <2>1, <2>2, <3>1, BooksType
  <2>3. CASE ~ (n = o /\ d = o)
    <3>1. /\ n = d => (d \in data_map'[d] <=> d \in data_map[d])
          /\ rounds'[n][d] = rounds[n][d]
      BY <1>1, <1>6, <2>3 DEF IInv, PullTypeOK
    <3>2. QED BY <1>5, <1>6, <2>1, <3>1
  <2>4. QED BY <2>2, <2>3
<1>9. QED BY <1>5, <1>6, <1>7, <1>8 DEF Books

\* Data that arrives is one round; its origin has had its first round already.
LEMMA ReceiveDataBooked ==
    ASSUME IInv, Books, NEW m \in BagToSet(pull_net), ReceiveData(m)
    PROVE  Books'
<1> DEFINE o == m.to
           e == m.item
<1>1. /\ m \in PullMessage /\ o \in Node /\ e \in Origins /\ e \in Node /\ m.type = "data"
      /\ IsABag(pull_net) /\ FormStructure /\ e \in data_map[e]
  BY BoundsAssumption DEF IInv, PullTypeOK, PullMessage, ReceiveData, Books, OriginsFirst
<1>2. PICK R \in Receivers(o) : Put(Invitations(o, e, R), SetToBag({m}))
  BY DEF ReceiveData, Invite, Invitations
<1>3. /\ pull_lost' = pull_lost /\ requests' = requests
      /\ data_map' = [data_map EXCEPT ![o] = @ \cup {e}]
      /\ rounds' = [rounds EXCEPT ![o][e] = @ + 1]
  BY DEF ReceiveData, Invite
<1> DEFINE B == pull_net (-) SetToBag({m})
<1>4. /\ IsABag(B) /\ Countable(B)
      /\ \A n \in Node, d \in Origins :
            HowMany(B, n, d) = HowMany(pull_net, n, d) - (IF Concerns(m, n, d) THEN 1 ELSE 0)
  BY <1>1, OneLess DEF Books
<1>5. pull_net' = B (+) SetToBag(Invitations(o, e, R))
  BY <1>2 DEF Put
<1> HIDE DEF B
<1>6. /\ Countable(pull_net')
      /\ \A n \in Node, d \in Origins :
            HowMany(pull_net', n, d) = HowMany(pull_net, n, d) - (IF Concerns(m, n, d) THEN 1 ELSE 0)
  BY <1>4, <1>5, InvitationsUncounted DEF Invitations
<1>7. OriginsFirst'
  <2>1. \A n \in Node : \A d \in data_map'[n] : d \in data_map'[d]
    BY <1>1, <1>3, BoundsAssumption DEF IInv, PullTypeOK, Books, OriginsFirst
  <2>2. \A x \in BagToSet(pull_net') : x.type = "data" => x \in BagToSet(pull_net)
    <3>1. BagToSet(pull_net') \subseteq BagToSet(pull_net) \cup Invitations(o, e, R)
      BY <1>1, <1>2, PutEffect
    <3>2. QED BY <3>1 DEF Invitations
  <2>3. \A x \in BagToSet(pull_net) : x.item \in Node
    BY BoundsAssumption DEF IInv, PullTypeOK, PullMessage
  <2>4. QED BY <1>3, <2>1, <2>2, <2>3 DEF IInv, PullTypeOK, Books, OriginsFirst
<1>8. RequestsBalance'
  <2> SUFFICES ASSUME NEW n \in Node, NEW d \in Origins
      PROVE  requests'[n][d] + (IF n = d /\ d \in data_map'[d] THEN 1 ELSE 0)
                = rounds'[n][d] + HowMany(pull_net', n, d) + HowMany(pull_lost', n, d)
    BY DEF RequestsBalance
  <2>1. requests[n][d] + (IF n = d /\ d \in data_map[d] THEN 1 ELSE 0)
                = rounds[n][d] + HowMany(pull_net, n, d) + HowMany(pull_lost, n, d)
    BY DEF Books, RequestsBalance
  <2>2. n = d => (d \in data_map'[d] <=> d \in data_map[d])
    BY <1>1, <1>3 DEF IInv, PullTypeOK
  <2>3. CASE n = o /\ d = e
    <3>1. Concerns(m, n, d) /\ rounds'[n][d] = rounds[n][d] + 1
      BY <1>1, <1>3, <2>3 DEF IInv, PullTypeOK, Concerns
    <3>2. QED BY <1>3, <1>6, <2>1, <2>2, <3>1, BooksType
  <2>4. CASE ~ (n = o /\ d = e)
    <3>1. ~ Concerns(m, n, d) /\ rounds'[n][d] = rounds[n][d]
      BY <1>1, <1>3, <2>4 DEF IInv, PullTypeOK, Concerns
    <3>2. QED BY <1>3, <1>6, <2>1, <2>2, <3>1, BooksType
  <2>5. QED BY <2>3, <2>4
<1>9. QED BY <1>3, <1>6, <1>7, <1>8 DEF Books

\* The other steps: at most one datagram takes the place of the one handled, and
\* what it adds to the balance is what requests' or pull_lost' says.
LEMMA ReplyBooked ==
    ASSUME IInv, Books, NEW m \in BagToSet(pull_net),
           UNCHANGED <<data_map, rounds>>,
           Countable(pull_net'), Countable(pull_lost'),
           \A x \in BagToSet(pull_net') :
                x.type = "data" => x \in BagToSet(pull_net) \/ x.item \in data_map[x.item],
           \A n \in Node, d \in Origins :
                requests'[n][d] - HowMany(pull_net', n, d) - HowMany(pull_lost', n, d)
                    = requests[n][d] - HowMany(pull_net, n, d) - HowMany(pull_lost, n, d),
           requests' \in [Node -> [Origins -> Nat]]
    PROVE  Books'
<1>1. OriginsFirst'
  BY DEF Books, OriginsFirst
<1>2. RequestsBalance'
  <2> SUFFICES ASSUME NEW n \in Node, NEW d \in Origins
      PROVE  requests'[n][d] + (IF n = d /\ d \in data_map'[d] THEN 1 ELSE 0)
                = rounds'[n][d] + HowMany(pull_net', n, d) + HowMany(pull_lost', n, d)
    BY DEF RequestsBalance
  <2>1. requests[n][d] + (IF n = d /\ d \in data_map[d] THEN 1 ELSE 0)
                = rounds[n][d] + HowMany(pull_net, n, d) + HowMany(pull_lost, n, d)
    BY DEF Books, RequestsBalance
  <2>2. /\ requests'[n][d] \in Nat
        /\ HowMany(pull_net', n, d) \in Nat /\ HowMany(pull_lost', n, d) \in Nat
    BY FS_CardinalityType DEF Countable, HowMany
  <2>3. requests'[n][d] - HowMany(pull_net', n, d) - HowMany(pull_lost', n, d)
            = requests[n][d] - HowMany(pull_net, n, d) - HowMany(pull_lost, n, d)
    OBVIOUS
  <2>4. data_map' = data_map /\ rounds' = rounds
    OBVIOUS
  <2>5. /\ requests[n][d] \in Nat /\ rounds[n][d] \in Nat
        /\ HowMany(pull_net, n, d) \in Nat /\ HowMany(pull_lost, n, d) \in Nat
    BY BooksType
  <2> DEFINE one == IF n = d /\ d \in data_map[d] THEN 1 ELSE 0
  <2>6. one \in Nat /\ requests[n][d] + one = rounds[n][d] + HowMany(pull_net, n, d) + HowMany(pull_lost, n, d)
    BY <2>1
  <2> HIDE DEF one
  <2>7. requests'[n][d] + one = rounds[n][d] + HowMany(pull_net', n, d) + HowMany(pull_lost', n, d)
    <3> DEFINE q0 == requests[n][d]
               q1 == requests'[n][d]
               n0 == HowMany(pull_net, n, d)
               n1 == HowMany(pull_net', n, d)
               l0 == HowMany(pull_lost, n, d)
               l1 == HowMany(pull_lost', n, d)
               r0 == rounds[n][d]
    <3>1. /\ q0 \in Nat /\ q1 \in Nat /\ n0 \in Nat /\ n1 \in Nat
          /\ l0 \in Nat /\ l1 \in Nat /\ r0 \in Nat /\ one \in Nat
      BY <2>2, <2>5, <2>6
    <3>2. q1 - n1 - l1 = q0 - n0 - l0 /\ q0 + one = r0 + n0 + l0
      BY <2>3, <2>6
    <3> HIDE DEF q0, q1, n0, n1, l0, l1, r0
    <3>3. q1 + one = r0 + n1 + l1
      BY <3>1, <3>2, SMTT(30)
    <3>4. QED BY <3>3 DEF q0, q1, n0, n1, l0, l1, r0
  <2>8. QED BY <2>4, <2>7 DEF one
<1>3. QED BY <1>1, <1>2 DEF Books

\* What is left when m is handled and r is sent for it.
LEMMA Replaced ==
    ASSUME IInv, Books, NEW m \in BagToSet(pull_net), NEW r, Put({r}, SetToBag({m}))
    PROVE  /\ Countable(pull_net')
           /\ \A n \in Node, d \in Origins :
                HowMany(pull_net', n, d) = HowMany(pull_net, n, d)
                    - (IF Concerns(m, n, d) THEN 1 ELSE 0)
                    + (IF Concerns(r, n, d) THEN 1 ELSE 0)
<1>1. IsABag(pull_net) /\ Countable(pull_net)
  BY DEF IInv, PullTypeOK, Books
<1> DEFINE B == pull_net (-) SetToBag({m})
<1>2. /\ IsABag(B) /\ Countable(B)
      /\ \A n \in Node, d \in Origins :
            HowMany(B, n, d) = HowMany(pull_net, n, d) - (IF Concerns(m, n, d) THEN 1 ELSE 0)
  BY <1>1, OneLess
<1>3. pull_net' = B (+) SetToBag({r})
  BY DEF Put
<1> HIDE DEF B
<1>4. /\ Countable(pull_net')
      /\ \A n \in Node, d \in Origins :
            HowMany(pull_net', n, d) = HowMany(B, n, d) + (IF Concerns(r, n, d) THEN 1 ELSE 0)
  BY <1>2, <1>3, OneMore
<1>5. QED BY <1>1, <1>2, <1>4, CountType

\* What is left when m is handled and nothing is sent.
LEMMA TakenOut ==
    ASSUME IInv, Books, NEW m \in BagToSet(pull_net), Put({}, SetToBag({m}))
    PROVE  /\ Countable(pull_net')
           /\ \A n \in Node, d \in Origins :
                HowMany(pull_net', n, d) = HowMany(pull_net, n, d)
                    - (IF Concerns(m, n, d) THEN 1 ELSE 0)
<1>1. IsABag(pull_net) /\ Countable(pull_net)
  BY DEF IInv, PullTypeOK, Books
<1> DEFINE B == pull_net (-) SetToBag({m})
<1>2. /\ IsABag(B) /\ Countable(B)
      /\ \A n \in Node, d \in Origins :
            HowMany(B, n, d) = HowMany(pull_net, n, d) - (IF Concerns(m, n, d) THEN 1 ELSE 0)
  BY <1>1, OneLess
<1>3. pull_net' = B (+) SetToBag({})
  BY DEF Put
<1> HIDE DEF B
<1>4. pull_net' = B
  BY <1>2, <1>3, NothingTaken
<1>5. QED BY <1>2, <1>4

\* An invitation to data the node has is off the books.
LEMMA UselessInvBooked ==
    ASSUME IInv, Books, NEW m \in BagToSet(pull_net), UselessInv(m)
    PROVE  Books'
<1>1. Put({}, SetToBag({m})) /\ m.type = "inv"
      /\ UNCHANGED <<data_map, rounds, requests, pull_lost>>
  BY DEF UselessInv
<1>2. \A n, d : ~ Concerns(m, n, d)
  BY <1>1 DEF Concerns
<1>3. /\ Countable(pull_net') /\ Countable(pull_lost')
      /\ \A n \in Node, d \in Origins : HowMany(pull_net', n, d) = HowMany(pull_net, n, d)
  <2>1. /\ Countable(pull_net')
        /\ \A n \in Node, d \in Origins : HowMany(pull_net', n, d) = HowMany(pull_net, n, d)
                    - (IF Concerns(m, n, d) THEN 1 ELSE 0)
    BY <1>1, TakenOut
  <2>2. Countable(pull_lost')
    BY <1>1 DEF Books
  <2>3. QED BY <1>2, <2>1, <2>2, BooksType
<1>4. BagToSet(pull_net') \subseteq BagToSet(pull_net)
  <2>1. IsABag(pull_net)
    BY DEF IInv, PullTypeOK
  <2>2. BagToSet(pull_net') \subseteq BagToSet(pull_net) \cup {}
    BY <1>1, <2>1, PutEffect
  <2>3. QED BY <2>2
<1>5. QED BY <1>1, <1>3, <1>4, ReplyBooked, BooksType DEF IInv, PullTypeOK

\* A request is one more under way.
LEMMA RequestBooked ==
    ASSUME IInv, Books, NEW m \in BagToSet(pull_net), Request(m)
    PROVE  Books'
<1> DEFINE r == Reply("request", m)
<1>1. /\ m \in PullMessage /\ m.item \in Origins /\ m.to \in Node /\ m.type = "inv"
      /\ Put({r}, SetToBag({m})) /\ UNCHANGED <<data_map, rounds, pull_lost>>
      /\ requests' = [requests EXCEPT ![m.to][m.item] = @ + 1]
  BY DEF Request, IInv, PullTypeOK, PullMessage
<1>2. r.type = "request" /\ r.item = m.item /\ r.from = m.to
  BY <1>1, ReplyType
<1> HIDE DEF r
<1>3. \A n, d : ~ Concerns(m, n, d) /\ (Concerns(r, n, d) <=> n = m.to /\ d = m.item)
  BY <1>1, <1>2 DEF Concerns
<1>4. /\ Countable(pull_net') /\ Countable(pull_lost')
      /\ \A n \in Node, d \in Origins : HowMany(pull_net', n, d) = HowMany(pull_net, n, d)
                + (IF n = m.to /\ d = m.item THEN 1 ELSE 0)
  <2>1. /\ Countable(pull_net')
        /\ \A n \in Node, d \in Origins : HowMany(pull_net', n, d) = HowMany(pull_net, n, d)
                    - (IF Concerns(m, n, d) THEN 1 ELSE 0)
                    + (IF Concerns(r, n, d) THEN 1 ELSE 0)
    BY <1>1, Replaced
  <2>2. Countable(pull_lost')
    BY <1>1 DEF Books
  <2>3. QED BY <1>3, <2>1, <2>2, BooksType
<1>5. \A x \in BagToSet(pull_net') : x.type = "data" => x \in BagToSet(pull_net)
  <2>1. IsABag(pull_net)
    BY DEF IInv, PullTypeOK
  <2>2. BagToSet(pull_net') \subseteq BagToSet(pull_net) \cup {r}
    BY <1>1, <2>1, PutEffect
  <2>3. QED BY <1>2, <2>2
<1>6. requests' \in [Node -> [Origins -> Nat]]
  BY <1>1 DEF IInv, PullTypeOK
<1>7. ASSUME NEW n \in Node, NEW d \in Origins
      PROVE  requests'[n][d] - HowMany(pull_net', n, d) - HowMany(pull_lost', n, d)
                = requests[n][d] - HowMany(pull_net, n, d) - HowMany(pull_lost, n, d)
  <2>1. requests'[n][d] = requests[n][d] + (IF n = m.to /\ d = m.item THEN 1 ELSE 0)
    BY <1>1 DEF IInv, PullTypeOK
  <2>2. QED BY <1>1, <1>4, <2>1, BooksType
<1>8. QED BY <1>1, <1>4, <1>5, <1>6, <1>7, ReplyBooked

\* An answer takes the place of the request.
LEMMA AnswerBooked ==
    ASSUME IInv, Books, NEW m \in BagToSet(pull_net), Answer(m)
    PROVE  Books'
<1> DEFINE r == Reply("data", m)
<1>1. /\ m \in PullMessage /\ m.type = "request" /\ m.to \in Node
      /\ m.item \in data_map[m.to]
      /\ Put({r}, SetToBag({m})) /\ UNCHANGED <<data_map, rounds, requests, pull_lost>>
  BY DEF Answer, IInv, PullTypeOK, PullMessage, RequestsAnswerable
<1>2. r.type = "data" /\ r.item = m.item /\ r.to = m.from
  BY <1>1, ReplyType
<1> HIDE DEF r
<1>3. \A n, d : Concerns(r, n, d) <=> Concerns(m, n, d)
  BY <1>1, <1>2 DEF Concerns
<1>4. /\ Countable(pull_net') /\ Countable(pull_lost')
      /\ \A n \in Node, d \in Origins : HowMany(pull_net', n, d) = HowMany(pull_net, n, d)
  <2>1. /\ Countable(pull_net')
        /\ \A n \in Node, d \in Origins : HowMany(pull_net', n, d) = HowMany(pull_net, n, d)
                    - (IF Concerns(m, n, d) THEN 1 ELSE 0)
                    + (IF Concerns(r, n, d) THEN 1 ELSE 0)
    BY <1>1, Replaced
  <2>2. Countable(pull_lost')
    BY <1>1 DEF Books
  <2>3. QED BY <1>3, <2>1, <2>2, BooksType
<1>5. \A x \in BagToSet(pull_net') : x.type = "data" =>
            x \in BagToSet(pull_net) \/ x.item \in data_map[x.item]
  <2>1. r.item \in data_map[r.item]
    BY <1>1, <1>2 DEF Books, OriginsFirst
  <2>2. IsABag(pull_net)
    BY DEF IInv, PullTypeOK
  <2>3. BagToSet(pull_net') \subseteq BagToSet(pull_net) \cup {r}
    BY <1>1, <2>2, PutEffect
  <2>4. QED BY <2>1, <2>3
<1>6. QED BY <1>1, <1>4, <1>5, ReplyBooked, BooksType DEF IInv, PullTypeOK

\* A loss moves a datagram from one bag to the other.
LEMMA LoseBooked ==
    ASSUME IInv, Books, NEW m \in BagToSet(pull_net), PullLose(m)
    PROVE  Books'
<1>1. /\ Put({}, SetToBag({m})) /\ pull_lost' = pull_lost (+) SetToBag({m})
      /\ UNCHANGED <<data_map, rounds, requests>>
      /\ IsABag(pull_lost) /\ IsABag(pull_net) /\ Countable(pull_lost)
  BY DEF PullLose, IInv, PullTypeOK, Books
<1>2. /\ Countable(pull_lost')
      /\ \A n \in Node, d \in Origins :
            HowMany(pull_lost', n, d) = HowMany(pull_lost, n, d)
                + (IF Concerns(m, n, d) THEN 1 ELSE 0)
  BY <1>1, OneMore
<1>3. /\ Countable(pull_net')
      /\ \A n \in Node, d \in Origins :
            HowMany(pull_net', n, d) = HowMany(pull_net, n, d)
                - (IF Concerns(m, n, d) THEN 1 ELSE 0)
  BY <1>1, TakenOut
<1>4. BagToSet(pull_net') \subseteq BagToSet(pull_net)
  BY <1>1, PutEffect
<1>5. ASSUME NEW n \in Node, NEW d \in Origins
      PROVE  requests'[n][d] - HowMany(pull_net', n, d) - HowMany(pull_lost', n, d)
                = requests[n][d] - HowMany(pull_net, n, d) - HowMany(pull_lost, n, d)
  BY <1>1, <1>2, <1>3, BooksType
<1>6. QED BY <1>1, <1>2, <1>3, <1>4, <1>5, ReplyBooked DEF IInv, PullTypeOK

\* Requests, rounds, what is under way and what was lost balance at every node,
\* in every network and for any number of losses.
THEOREM RequestsAreBalanced == PullSpec => []RequestsBalance
<1>1. IInv /\ Books /\ [PullNext]_pullVars => Books'
  <2> SUFFICES ASSUME IInv, Books, [PullNext]_pullVars PROVE Books'
    OBVIOUS
  <2>1. ASSUME NEW n \in Origins, PullBroadcast(n) PROVE Books'
    BY <2>1, BroadcastBooked
  <2>2. ASSUME NEW m \in BagToSet(pull_net), PullReceive(m) \/ PullLose(m) PROVE Books'
    BY <2>2, UselessInvBooked, RequestBooked, ReceiveDataBooked, AnswerBooked,
       LoseBooked DEF PullReceive
  <2>3. CASE UNCHANGED pullVars
    BY <2>3 DEF pullVars, Books, Countable, OriginsFirst, RequestsBalance
  <2>4. QED BY <2>1, <2>2, <2>3 DEF PullNext
<1>2. Books => RequestsBalance
  BY DEF Books
<1>3. QED BY <1>1, <1>2, BooksOpen, Invariance, PTL DEF PullSpec
=============================================================================
