------------------------ MODULE RingStructure_proofs ------------------------
(***************************************************************************)
(* What form_structure makes of the command line, for every shape whose    *)
(* rings have equally many contact nodes, and every hash order; at last,   *)
(* the order of the lists with one or two contact nodes.                   *)
(***************************************************************************)
EXTENDS RingStructure, FiniteSetTheorems, FunctionTheorems, TLAPS

-----------------------------------------------------------------------------
(***************************************************************************)
(* Arithmetic and least numbers.                                           *)
(***************************************************************************)
\* What / and % of the code give.
LEMMA DivMod ==
    ASSUME NEW x \in Nat, NEW d \in Nat \ {0}
    PROVE  /\ x \div d \in Nat /\ x % d \in 0 .. d - 1
           /\ x = (x \div d) * d + (x % d)
  OBVIOUS

\* Multiplication is monotonic.
LEMMA ProductGrows ==
    ASSUME NEW a \in Nat, NEW b \in Nat, NEW d \in Nat, a <= b
    PROVE  a * d \in Nat /\ b * d \in Nat /\ a * d <= b * d
  OBVIOUS

\* Quotient and remainder are the only ones.
LEMMA DivUnique ==
    ASSUME NEW x \in Nat, NEW d \in Nat \ {0}, NEW p \in Nat, NEW r \in 0 .. d - 1,
           x = p * d + r
    PROVE  x \div d = p /\ x % d = r
<1> DEFINE q == x \div d
           t == x % d
<1>1. q \in Nat /\ t \in 0 .. d - 1 /\ x = q * d + t
  BY DivMod
<1> HIDE DEF q, t
<1>2. ~ p < q
  <2> SUFFICES ASSUME p < q PROVE FALSE
    OBVIOUS
  <2>1. (p + 1) * d <= q * d /\ (p + 1) * d = p * d + d
    BY <1>1, ProductGrows
  <2>2. QED BY <1>1, <2>1
<1>3. ~ q < p
  <2> SUFFICES ASSUME q < p PROVE FALSE
    OBVIOUS
  <2>1. (q + 1) * d <= p * d /\ (q + 1) * d = q * d + d
    BY <1>1, ProductGrows
  <2>2. QED BY <1>1, <2>1
<1>4. p = q
  BY <1>1, <1>2, <1>3
<1>5. QED BY <1>1, <1>4 DEF q, t

\* Every set of natural numbers has a least element.
LEMMA LeastNatural ==
    ASSUME NEW T, T \subseteq Nat, T # {}
    PROVE  Min(T) \in T /\ \A y \in T : Min(T) <= y
<1> DEFINE U == {0 .. n : n \in T}
           R == StrictSubsetOrdering(Nat)
<1>1. U \subseteq FiniteSubsetsOf(Nat)
  <2>1. ASSUME NEW n \in T PROVE 0 .. n \in FiniteSubsetsOf(Nat)
    <3>1. n \in Int /\ 0 \in Int /\ 0 .. n \in SUBSET Nat
      OBVIOUS
    <3>2. IsFiniteSet(0 .. n)
      BY <3>1, FS_Interval
    <3>3. QED BY <3>1, <3>2 DEF FiniteSubsetsOf
  <2>2. QED BY <2>1
<1>2. U # {}
  OBVIOUS
<1>3. IsWellFoundedOn(R, FiniteSubsetsOf(Nat))
  BY FS_StrictSubsetOrderingWellFounded
<1>4. PICK I \in U : \A J \in U : ~ (<<J, I>> \in R)
  <2> HIDE DEF U, R
  <2> QED BY <1>1, <1>2, <1>3, WFMin
<1>5. PICK x \in T : I = 0 .. x
  OBVIOUS
<1>6. ASSUME NEW y \in T
      PROVE  x <= y
  <2>1. SUFFICES ASSUME y < x PROVE FALSE
    OBVIOUS
  <2>2. 0 .. y \subseteq 0 .. x /\ 0 .. y # 0 .. x
    <3>1. x \in 0 .. x /\ x \notin 0 .. y
      BY <2>1
    <3>2. 0 .. y \subseteq 0 .. x
      BY <2>1
    <3>3. QED BY <3>1, <3>2
  <2>3. <<0 .. y, 0 .. x>> \in R
    BY <2>2 DEF StrictSubsetOrdering
  <2>4. QED BY <1>4, <1>5, <2>3
<1>7. QED BY <1>5, <1>6 DEF Min

-----------------------------------------------------------------------------
(***************************************************************************)
(* The shape.                                                              *)
(***************************************************************************)
\* There are up to six levels, of so many regions each.
LEMMA TopType == Top \in 0 .. 5
<1> DEFINE absent == {l \in 1 .. 4 : NumNodes[l] = 0}
<1>1. CASE absent = {}
  BY <1>1 DEF Top
<1>2. CASE absent # {}
  <2>1. absent \subseteq Nat
    OBVIOUS
  <2>2. Min(absent) \in absent
    <3> HIDE DEF absent
    <3> QED BY <1>2, <2>1, LeastNatural
  <2>3. QED BY <1>2, <2>2 DEF Top
<1>3. QED BY <1>1, <1>2

LEMMA WidthType == \A l \in 0 .. 5 : Width(l) \in Nat
<1> SUFFICES ASSUME NEW l \in 0 .. 5 PROVE Width(l) \in Nat
  OBVIOUS
<1>1. CASE l = 0
  BY <1>1, ShapeAssumption DEF Width
<1>2. CASE l = 5
  BY <1>2, ShapeAssumption DEF Width
<1>3. CASE l \in 1 .. 4
  <2>1. NumNodes[l] \in Nat /\ NumCnodes[l - 1] \in Nat \ {0}
    BY <1>3, ShapeAssumption
  <2>2. NumNodes[l] \div NumCnodes[l - 1] \in Nat
    BY <2>1, DivMod
  <2>3. QED BY <1>3, <2>2 DEF Width
<1>4. QED BY <1>1, <1>2, <1>3

\* An id is any choice of digits, each below the width of its level.
LEMMA NodeIds ==
    Node = {id \in [0 .. Top -> Nat] : \A l \in 0 .. Top : id[l] < Width(l)}
<1> DEFINE Digits == UNION {0 .. Width(l) - 1 : l \in 0 .. Top}
<1>1. \A l \in 0 .. Top : Width(l) \in Nat
  BY TopType, WidthType
<1>2. Digits \subseteq Nat
  BY <1>1
<1>3. ASSUME NEW id \in [0 .. Top -> Nat], \A l \in 0 .. Top : id[l] < Width(l)
      PROVE  id \in [0 .. Top -> Digits]
  <2>1. ASSUME NEW l \in 0 .. Top PROVE id[l] \in Digits
    BY <1>1, <1>3
  <2>2. QED BY <2>1
<1>4. QED BY <1>2, <1>3 DEF Node

-----------------------------------------------------------------------------
(***************************************************************************)
(* Lists.                                                                  *)
(***************************************************************************)
\* Ids that agree in all digits are the same.
LEMMA SameIds ==
    \A m, n \in [0 .. Top -> Nat] : (\A d \in 0 .. Top : m[d] = n[d]) => m = n
<1> DEFINE D == 0 .. Top
<1> HIDE DEF D
<1>1. \A m, n \in [D -> Nat] : (\A d \in D : m[d] = n[d]) => m = n
  OBVIOUS
<1>2. QED BY <1>1 DEF D

\* What ToSet holds.
LEMMA Entries ==
    ASSUME NEW X, NEW s \in Seq(X)
    PROVE  /\ Len(s) \in Nat /\ DOMAIN s = 1 .. Len(s)
           /\ ToSet(s) \subseteq X
           /\ \A x : x \in ToSet(s) <=> \E i \in 1 .. Len(s) : s[i] = x
  BY DEF ToSet

\* The iteration of an unordered_map loses and repeats no contact, whatever
\* buckets they fall into.
LEMMA IterationPermutes ==
    ASSUME NEW X, NEW s \in Seq(X), NEW bucket
    PROVE  /\ MapIteration(bucket, s) \in Seq(X)
           /\ Len(MapIteration(bucket, s)) = Len(s)
           /\ ToSet(MapIteration(bucket, s)) = ToSet(s)
<1> DEFINE D == 1 .. Len(s)
           Oldest(i) == Min({j \in DOMAIN s : bucket[j] = bucket[i]})
           Precedes(i, j) == \/ Oldest(i) > Oldest(j)
                             \/ Oldest(i) = Oldest(j) /\ i > j
           Sorts(p) == \A i, j \in DOMAIN s : i < j => Precedes(p[i], p[j])
           Before(i) == {j \in D : Precedes(j, i)}
           place == [i \in D |-> Cardinality(Before(i)) + 1]
           order == CHOOSE p \in [DOMAIN s -> DOMAIN s] : Sorts(p)
<1>1. Len(s) \in Nat /\ DOMAIN s = D
  OBVIOUS
<1>2. \A i \in D : Oldest(i) \in D
  <2> SUFFICES ASSUME NEW i \in D PROVE Oldest(i) \in D
    OBVIOUS
  <2> DEFINE T == {j \in DOMAIN s : bucket[j] = bucket[i]}
  <2>1. T \subseteq D /\ T \subseteq Nat /\ i \in T
    BY <1>1
  <2>2. Min(T) \in T
    <3> HIDE DEF T
    <3> QED BY <2>1, LeastNatural
  <2>3. QED BY <2>1, <2>2
<1> HIDE DEF Oldest
<1>3. \A i \in D : ~ Precedes(i, i)
  BY <1>1, <1>2
<1>4. \A i, j \in D : i # j => Precedes(i, j) \/ Precedes(j, i)
  BY <1>1, <1>2
<1>5. \A i, j, m \in D : Precedes(i, j) /\ Precedes(j, m) => Precedes(i, m)
  BY <1>1, <1>2
<1> HIDE DEF Precedes
<1>6. IsFiniteSet(D) /\ Cardinality(D) = Len(s)
  BY <1>1, FS_Interval
<1>7. \A i \in D : place[i] \in D
  <2> SUFFICES ASSUME NEW i \in D PROVE place[i] \in D
    OBVIOUS
  <2>1. Before(i) \subseteq D /\ i \notin Before(i)
    BY <1>3
  <2>2. IsFiniteSet(Before(i)) /\ Cardinality(Before(i)) <= Cardinality(D)
           /\ Cardinality(Before(i)) # Cardinality(D)
    BY <1>6, <2>1, FS_Subset
  <2>3. Cardinality(Before(i)) \in Nat
    BY <2>2, FS_CardinalityType
  <2> HIDE DEF Before
  <2>4. QED BY <1>1, <1>6, <2>2, <2>3
<1>8. \A i, j \in D : Precedes(i, j) => place[i] < place[j]
  <2> SUFFICES ASSUME NEW i \in D, NEW j \in D, Precedes(i, j)
               PROVE  place[i] < place[j]
    OBVIOUS
  <2>1. Before(i) \subseteq Before(j) /\ Before(j) \subseteq D
           /\ i \in Before(j) /\ i \notin Before(i)
    BY <1>3, <1>5
  <2>2. IsFiniteSet(Before(j))
    BY <1>6, <2>1, FS_Subset
  <2>3. Cardinality(Before(i)) <= Cardinality(Before(j))
           /\ Cardinality(Before(i)) # Cardinality(Before(j))
           /\ IsFiniteSet(Before(i))
    BY <2>1, <2>2, FS_Subset
  <2>4. Cardinality(Before(i)) \in Nat /\ Cardinality(Before(j)) \in Nat
    BY <2>2, <2>3, FS_CardinalityType
  <2> HIDE DEF Before
  <2>5. QED BY <2>3, <2>4
<1>9. place \in Injection(D, D)
  <2>1. place \in [D -> D]
    BY <1>7
  <2>2. \A i, j \in D : place[i] = place[j] => i = j
    <3> SUFFICES ASSUME NEW i \in D, NEW j \in D, place[i] = place[j], i # j
                 PROVE  FALSE
      OBVIOUS
    <3>1. place[i] < place[j] \/ place[j] < place[i]
      BY <1>4, <1>8
    <3>2. place[i] \in Nat
      BY <1>7
    <3> HIDE DEF place
    <3>3. QED BY <3>1, <3>2
  <2>3. QED BY <2>1, <2>2 DEF Injection, IsInjective
<1>10. place \in Surjection(D, D)
  BY <1>6, <1>9, FS_Injection
<1>11. \A p \in D : \E i \in D : place[i] = p
  BY <1>10 DEF Surjection
<1> DEFINE sorted == [p \in D |-> CHOOSE i \in D : place[i] = p]
<1> HIDE DEF place
<1>12. \A p \in D : sorted[p] \in D /\ place[sorted[p]] = p
  BY <1>11
<1>13. sorted \in [D -> D]
  BY <1>12
<1>14. Sorts(sorted)
  <2> SUFFICES ASSUME NEW i \in D, NEW j \in D, i < j
               PROVE  Precedes(sorted[i], sorted[j])
    BY <1>1
  <2>1. sorted[i] \in D /\ sorted[j] \in D
           /\ place[sorted[i]] = i /\ place[sorted[j]] = j
    BY <1>12
  <2> HIDE DEF sorted
  <2>2. sorted[i] # sorted[j]
    BY <1>1, <2>1
  <2>3. ~ Precedes(sorted[j], sorted[i])
    <3> SUFFICES ASSUME Precedes(sorted[j], sorted[i]) PROVE FALSE
      OBVIOUS
    <3>1. j < i
      BY <1>8, <2>1
    <3>2. QED BY <1>1, <3>1
  <2>4. QED BY <1>4, <2>1, <2>2, <2>3
<1> HIDE DEF sorted, Sorts
<1>15. order \in [D -> D] /\ Sorts(order)
  BY <1>1, <1>13, <1>14
<1>16. MapIteration(bucket, s) = [i \in DOMAIN s |-> s[order[i]]]
  BY DEF MapIteration, Sorts, Precedes, Oldest
<1> HIDE DEF order
<1>17. order \in Injection(D, D)
  <2>1. \A i, j \in D : i < j => order[i] # order[j]
    BY <1>1, <1>3, <1>15 DEF Sorts
  <2>2. \A i, j \in D : order[i] = order[j] => i = j
    BY <1>1, <2>1
  <2>3. QED BY <1>15, <2>2 DEF Injection, IsInjective
<1>18. order \in Surjection(D, D)
  BY <1>6, <1>17, FS_Injection
<1>19. \A p \in D : \E i \in D : order[i] = p
  BY <1>18 DEF Surjection
<1>20. MapIteration(bucket, s) = [i \in 1 .. Len(s) |-> s[order[i]]]
  BY <1>1, <1>16
<1>21. \A i \in 1 .. Len(s) : s[order[i]] \in X
  BY <1>15
<1>22. /\ MapIteration(bucket, s) \in Seq(X)
       /\ Len(MapIteration(bucket, s)) = Len(s)
  BY <1>20, <1>21
<1>23. ToSet(MapIteration(bucket, s)) = ToSet(s)
  <2>1. ToSet(MapIteration(bucket, s)) = {s[order[i]] : i \in D}
    BY <1>20 DEF ToSet
  <2>2. ToSet(s) = {s[i] : i \in D}
    BY <1>1 DEF ToSet
  <2>3. {s[order[i]] : i \in D} = {s[i] : i \in D}
    <3>1. \A i \in D : order[i] \in D
      BY <1>15
    <3> HIDE DEF D
    <3>2. QED BY <1>19, <3>1
  <2>4. QED BY <2>1, <2>2, <2>3
<1>24. QED BY <1>22, <1>23

\* The first entries of a list that has so many.
LEMMA FirstEntries ==
    ASSUME NEW X, NEW s \in Seq(X), NEW c \in Nat, c <= Len(s)
    PROVE  /\ FirstOf(s, c) \in Seq(X) /\ Len(FirstOf(s, c)) = c
           /\ \A i \in 1 .. c : FirstOf(s, c)[i] = s[i]
<1>1. FirstOf(s, c) = SubSeq(s, 1, c)
  BY DEF FirstOf
<1>2. QED BY <1>1

-----------------------------------------------------------------------------
(***************************************************************************)
(* Who resides where, by the digits of its id alone.                       *)
(***************************************************************************)
\* The contact nodes of a district: the first ones.
Contacts == IF NumCnodes[0] < NumNodes[0] THEN NumCnodes[0] ELSE NumNodes[0]

\* The shapes meant: every ring above has as many contact nodes as a district.
SameLimits == \A l \in 1 .. Top : ContactLimit(l) = Contacts

ResidesById(n, l) ==
    l > 0 => n[0] < Contacts /\ \A d \in 1 .. l - 1 : n[d] = 0

RingById(n, l) == {m \in SameRegion(n, l) : ResidesById(m, l)}
ContactsById(n, l) == {m \in SameRegion(n, l) : ResidesById(m, l + 1)}

\* There is a contact node in every district.
LEMMA ContactsType ==
    /\ Contacts \in Nat \ {0} /\ Contacts <= Width(0)
    /\ Width(0) = NumNodes[0] /\ ContactLimit(0) = NumCnodes[0]
    /\ NumCnodes[0] \in Nat \ {0}
<1>1. NumNodes[0] \in Nat \ {0} /\ NumCnodes[0] \in Nat \ {0}
  BY ShapeAssumption
<1>2. QED BY <1>1 DEF Contacts, Width, ContactLimit

\* Regions are what the digits above say.
LEMMA RegionDigits ==
    ASSUME NEW n, NEW l
    PROVE  \A m : m \in SameRegion(n, l) <=>
                    m \in Node /\ \A d \in l + 1 .. Top : m[d] = n[d]
  BY DEF SameRegion, Region

\* The digits of an id.
LEMMA Digits ==
    ASSUME NEW n \in Node
    PROVE  /\ n \in [0 .. Top -> Nat]
           /\ \A l \in 0 .. Top : n[l] \in Nat /\ n[l] < Width(l)
  BY NodeIds

\* A district's list has all its nodes, and its first are the contact nodes.
LEMMA DistrictList ==
    ASSUME NEW n \in Node
    PROVE  /\ DistrictPeers(n) \in Seq(Node) /\ Len(DistrictPeers(n)) = Width(0)
           /\ ToSet(DistrictPeers(n)) = RingById(n, 0)
           /\ \A i \in 1 .. Width(0) : DistrictPeers(n)[i][0] = i - 1
           /\ LET first == FirstOf(DistrictPeers(n), ContactLimit(0))
              IN  /\ first \in Seq(Node) /\ Len(first) = Contacts
                  /\ ToSet(first) = ContactsById(n, 0)
<1> DEFINE s == DistrictPeers(n)
           first == FirstOf(s, ContactLimit(0))
           id(i) == [n EXCEPT ![0] = i - 1]
<1>0. Top \in 0 .. 5 /\ 0 \in 0 .. Top /\ Width(0) \in Nat
  BY TopType, WidthType
<1>1. \A i \in 1 .. Width(0) : id(i) \in Node
  <2> SUFFICES ASSUME NEW i \in 1 .. Width(0) PROVE id(i) \in Node
    OBVIOUS
  <2>1. id(i) \in [0 .. Top -> Nat]
    BY <1>0, Digits
  <2>2. \A l \in 0 .. Top : id(i)[l] < Width(l)
    BY <1>0, Digits
  <2> HIDE DEF id
  <2>3. QED BY <2>1, <2>2, NodeIds
<1>2. s = [i \in 1 .. Width(0) |-> id(i)]
  BY DEF DistrictPeers
<1>3. s \in Seq(Node) /\ Len(s) = Width(0) /\ DOMAIN s = 1 .. Width(0)
  <2> HIDE DEF id, s
  <2> QED BY <1>0, <1>1, <1>2
<1>4. \A i \in 1 .. Width(0) : id(i)[0] = i - 1 /\ id(i) \in SameRegion(n, 0)
  <2> SUFFICES ASSUME NEW i \in 1 .. Width(0)
               PROVE  id(i)[0] = i - 1 /\ id(i) \in SameRegion(n, 0)
    OBVIOUS
  <2>1. id(i)[0] = i - 1 /\ \A d \in 1 .. Top : id(i)[d] = n[d]
    BY <1>0, Digits
  <2>2. id(i) \in Node
    BY <1>1
  <2> HIDE DEF id
  <2>3. QED BY <2>1, <2>2, RegionDigits
<1>5. \A m \in SameRegion(n, 0) : m[0] + 1 \in 1 .. Width(0) /\ m = id(m[0] + 1)
  <2> SUFFICES ASSUME NEW m \in SameRegion(n, 0)
               PROVE  m[0] + 1 \in 1 .. Width(0) /\ m = id(m[0] + 1)
    OBVIOUS
  <2>1. m \in Node /\ \A d \in 1 .. Top : m[d] = n[d]
    BY RegionDigits
  <2>2. m[0] + 1 \in 1 .. Width(0)
    BY <1>0, <2>1, Digits
  <2>3. m \in [0 .. Top -> Nat] /\ n \in [0 .. Top -> Nat]
    BY <2>1, Digits
  <2>4. \A d \in 0 .. Top : m[d] = id(m[0] + 1)[d]
    BY <1>0, <2>1, <2>3
  <2>5. id(m[0] + 1) \in [0 .. Top -> Nat]
    BY <1>0, <2>3
  <2> HIDE DEF id
  <2>6. m = id(m[0] + 1)
    BY <2>3, <2>4, <2>5, SameIds
  <2>7. QED BY <2>2, <2>6
<1>6. \A i \in 1 .. Width(0) : s[i] = id(i)
  BY <1>2
<1> HIDE DEF s, id
<1>7. ToSet(s) = RingById(n, 0)
  <2>1. ToSet(s) = {s[i] : i \in 1 .. Width(0)}
    BY <1>3 DEF ToSet
  <2>2. RingById(n, 0) = SameRegion(n, 0)
    BY DEF RingById, ResidesById
  <2>3. QED BY <1>4, <1>5, <1>6, <2>1, <2>2
<1>8. first = FirstOf(s, Contacts)
  BY <1>3, ContactsType DEF FirstOf, Contacts
<1>9. /\ first \in Seq(Node) /\ Len(first) = Contacts
      /\ \A i \in 1 .. Contacts : first[i] = s[i]
  BY <1>3, <1>8, ContactsType, FirstEntries
<1> HIDE DEF first
<1>10. ToSet(first) = ContactsById(n, 0)
  <2>1. ToSet(first) = {first[i] : i \in 1 .. Contacts}
    BY <1>9 DEF ToSet
  <2>2. ContactsById(n, 0) = {m \in SameRegion(n, 0) : m[0] < Contacts}
    BY DEF ContactsById, ResidesById
  <2>3. ASSUME NEW i \in 1 .. Contacts
        PROVE  first[i] \in SameRegion(n, 0) /\ first[i][0] < Contacts
    <3>1. i \in 1 .. Width(0)
      BY <1>0, ContactsType
    <3>2. first[i] = id(i)
      BY <1>6, <1>9, <3>1
    <3>3. QED BY <1>4, <3>1, <3>2, ContactsType
  <2>4. ASSUME NEW m \in SameRegion(n, 0), m[0] < Contacts
        PROVE  \E i \in 1 .. Contacts : first[i] = m
    <3>1. m[0] + 1 \in 1 .. Width(0) /\ m = id(m[0] + 1)
      BY <1>5
    <3>2. m[0] + 1 \in 1 .. Contacts
      <4>1. m[0] \in Nat
        BY <1>0, RegionDigits, Digits
      <4>2. QED BY <2>4, <4>1, ContactsType
    <3>3. QED BY <1>6, <1>9, <3>1, <3>2
  <2>5. QED BY <2>1, <2>2, <2>3, <2>4
<1>11. \A i \in 1 .. Width(0) : s[i][0] = i - 1
  BY <1>4, <1>6
<1>12. QED BY <1>3, <1>7, <1>9, <1>10, <1>11 DEF s, first

\* A ring above, from the contacts of the region below in whatever order: its
\* list has all who reside in it, and its first entries are the contact nodes.
LEMMA RingList ==
    ASSUME SameLimits, NEW n \in Node, NEW l \in 1 .. Top,
           NEW list \in Seq(Node), Len(list) = Contacts,
           ToSet(list) = ContactsById(n, l - 1)
    PROVE  LET s == RingPeers(n, l, list)
               first == FirstOf(s, ContactLimit(l))
           IN  /\ s \in Seq(Node) /\ Len(s) = Width(l) * Contacts
               /\ ToSet(s) = RingById(n, l)
               /\ \A i \in 1 .. Width(l) * Contacts : s[i][l] = (i - 1) \div Contacts
               /\ first \in Seq(Node) /\ Len(first) = Contacts
               /\ ToSet(first) = ContactsById(n, l)
<1> DEFINE c == Contacts
           s == RingPeers(n, l, list)
           first == FirstOf(s, ContactLimit(l))
           size == Width(l) * c
           source(i) == ((i - 1) % c) + 1
           number(i) == (i - 1) \div c
           id(i) == [d \in 0 .. Top |-> IF d < l THEN list[source(i)][d]
                                        ELSE IF d = l THEN number(i) ELSE n[d]]
<1>0. /\ Top \in 0 .. 5 /\ l \in 0 .. Top /\ 0 \in 0 .. Top /\ Width(l) \in Nat
      /\ c \in Nat \ {0} /\ Width(l) > 0
  <2>1. Top \in 0 .. 5 /\ l \in 0 .. Top /\ 0 \in 0 .. Top /\ c \in Nat \ {0}
    BY TopType, ContactsType
  <2>2. Width(l) \in Nat
    BY <2>1, WidthType
  <2>3. n[l] \in Nat /\ n[l] < Width(l)
    BY <2>1, Digits
  <2>4. QED BY <2>1, <2>2, <2>3
<1>1. size \in Nat /\ c <= size
  <2>1. 1 * c <= Width(l) * c /\ Width(l) * c \in Nat
    BY <1>0, ProductGrows
  <2>2. QED BY <1>0, <2>1
<1>2. \A i \in 1 .. size : source(i) \in 1 .. c /\ number(i) \in 0 .. Width(l) - 1
  <2> SUFFICES ASSUME NEW i \in 1 .. size
               PROVE  source(i) \in 1 .. c /\ number(i) \in 0 .. Width(l) - 1
    OBVIOUS
  <2>1. i - 1 \in Nat /\ i - 1 < size
    BY <1>1
  <2>2. /\ number(i) \in Nat /\ (i - 1) % c \in 0 .. c - 1
        /\ i - 1 = number(i) * c + ((i - 1) % c)
    BY <1>0, <2>1, DivMod
  <2>3. ~ Width(l) <= number(i)
    <3> SUFFICES ASSUME Width(l) <= number(i) PROVE FALSE
      OBVIOUS
    <3> DEFINE q == number(i)
               r == (i - 1) % c
               units == q * c
    <3>1. q \in Nat /\ r \in 0 .. c - 1 /\ i - 1 = units + r /\ Width(l) <= q
      BY <2>2
    <3> HIDE DEF q, r, number, c
    <3>2. size <= units /\ units \in Nat
      BY <1>0, <3>1, ProductGrows DEF c
    <3> HIDE DEF units, size
    <3>3. QED BY <1>0, <1>1, <2>1, <3>1, <3>2
  <2>4. QED BY <1>0, <2>2, <2>3
<1>3. \A i \in 1 .. c :
        /\ list[i] \in Node /\ list[i][0] < c
        /\ \A d \in 1 .. l - 1 : list[i][d] = 0
        /\ \A d \in l .. Top : list[i][d] = n[d]
  <2> SUFFICES ASSUME NEW i \in 1 .. c
               PROVE  /\ list[i] \in Node /\ list[i][0] < c
                      /\ \A d \in 1 .. l - 1 : list[i][d] = 0
                      /\ \A d \in l .. Top : list[i][d] = n[d]
    OBVIOUS
  <2>1. list[i] \in ContactsById(n, l - 1)
    BY Entries
  <2>2. list[i] \in SameRegion(n, l - 1) /\ ResidesById(list[i], l)
    BY <2>1 DEF ContactsById
  <2>3. QED BY <2>2, RegionDigits DEF ResidesById
<1>4. \A i \in 1 .. size : id(i) \in Node
  <2> SUFFICES ASSUME NEW i \in 1 .. size PROVE id(i) \in Node
    OBVIOUS
  <2> DEFINE from == list[source(i)]
             own == number(i)
  <2>1. from \in Node /\ own \in 0 .. Width(l) - 1
    BY <1>2, <1>3
  <2> HIDE DEF from, own
  <2>2. \A d \in 0 .. Top : /\ from[d] \in Nat /\ from[d] < Width(d)
                            /\ n[d] \in Nat /\ n[d] < Width(d)
    BY <2>1, Digits
  <2>3. id(i) = [d \in 0 .. Top |-> IF d < l THEN from[d]
                                    ELSE IF d = l THEN own ELSE n[d]]
    BY DEF from, own
  <2> HIDE DEF id
  <2>4. id(i) \in [0 .. Top -> Nat]
    BY <1>0, <2>1, <2>2, <2>3
  <2>5. \A d \in 0 .. Top : id(i)[d] < Width(d)
    BY <1>0, <2>1, <2>2, <2>3
  <2>6. QED BY <2>4, <2>5, NodeIds
<1>5. \A i \in 1 .. size :
        /\ \A d \in 0 .. l - 1 : id(i)[d] = list[source(i)][d]
        /\ id(i)[l] = number(i)
        /\ \A d \in l + 1 .. Top : id(i)[d] = n[d]
  <2> SUFFICES ASSUME NEW i \in 1 .. size
               PROVE  /\ \A d \in 0 .. l - 1 : id(i)[d] = list[source(i)][d]
                      /\ id(i)[l] = number(i)
                      /\ \A d \in l + 1 .. Top : id(i)[d] = n[d]
    OBVIOUS
  <2> DEFINE from == list[source(i)]
             own == number(i)
  <2>1. id(i) = [d \in 0 .. Top |-> IF d < l THEN from[d]
                                    ELSE IF d = l THEN own ELSE n[d]]
    OBVIOUS
  <2> HIDE DEF id, from, own
  <2>2. /\ \A d \in 0 .. l - 1 : id(i)[d] = from[d]
        /\ id(i)[l] = own
        /\ \A d \in l + 1 .. Top : id(i)[d] = n[d]
    BY <1>0, <2>1
  <2>3. QED BY <2>2 DEF from, own
<1>6. s = [i \in 1 .. size |-> id(i)]
  BY DEF RingPeers
<1> HIDE DEF s, id, number, source
<1>7. s \in Seq(Node) /\ Len(s) = size /\ DOMAIN s = 1 .. size
  <2> HIDE DEF size
  <2> QED BY <1>1, <1>4, <1>6
<1>8. \A i \in 1 .. size : id(i) \in RingById(n, l)
  <2> SUFFICES ASSUME NEW i \in 1 .. size PROVE id(i) \in RingById(n, l)
    OBVIOUS
  <2>1. id(i) \in SameRegion(n, l)
    BY <1>4, <1>5, RegionDigits
  <2>2. id(i)[0] < Contacts /\ \A d \in 1 .. l - 1 : id(i)[d] = 0
    <3>1. /\ source(i) \in 1 .. c
          /\ \A d \in 0 .. l - 1 : id(i)[d] = list[source(i)][d]
      BY <1>2, <1>5
    <3>2. /\ list[source(i)][0] < c
          /\ \A d \in 1 .. l - 1 : list[source(i)][d] = 0
      BY <1>3, <3>1
    <3>3. 0 \in 0 .. l - 1 /\ 1 .. l - 1 \subseteq 0 .. l - 1
      BY <1>0
    <3>4. QED BY <3>1, <3>2, <3>3
  <2>3. QED BY <2>1, <2>2 DEF RingById, ResidesById
<1>9. \A m \in RingById(n, l) :
        \E i \in 1 .. size : id(i) = m /\ number(i) = m[l]
  <2> SUFFICES ASSUME NEW m \in RingById(n, l)
               PROVE  \E i \in 1 .. size : id(i) = m /\ number(i) = m[l]
    OBVIOUS
  <2>1. /\ m \in Node /\ m[0] < c
        /\ \A d \in 1 .. l - 1 : m[d] = 0
        /\ \A d \in l + 1 .. Top : m[d] = n[d]
    BY RegionDigits DEF RingById, ResidesById
  <2>2. /\ m \in [0 .. Top -> Nat] /\ n \in [0 .. Top -> Nat]
        /\ \A d \in 0 .. Top : /\ m[d] \in Nat /\ m[d] < Width(d)
                               /\ n[d] \in Nat /\ n[d] < Width(d)
    BY <2>1, Digits
  <2> DEFINE x == [d \in 0 .. Top |-> IF d < l THEN m[d] ELSE n[d]]
  <2>3. x \in Node
    <3>1. x \in [0 .. Top -> Nat] /\ \A d \in 0 .. Top : x[d] < Width(d)
      BY <2>2
    <3> HIDE DEF x
    <3>2. QED BY <3>1, NodeIds
  <2>4. /\ \A d \in 0 .. l - 1 : x[d] = m[d]
        /\ \A d \in l .. Top : x[d] = n[d]
    BY <1>0
  <2> HIDE DEF x
  <2>5. x \in ContactsById(n, l - 1)
    <3>1. x \in SameRegion(n, l - 1)
      BY <2>3, <2>4, RegionDigits
    <3>2. x[0] < Contacts /\ \A d \in 1 .. l - 1 : x[d] = 0
      BY <1>0, <2>1, <2>4
    <3>3. QED BY <3>1, <3>2 DEF ContactsById, ResidesById
  <2>6. PICK j \in 1 .. c : list[j] = x
    BY <2>5, Entries
  <2> DEFINE i == m[l] * c + (j - 1) + 1
             base == m[l] * c
  <2>7. /\ base \in Nat /\ base + c <= size
    <3> DEFINE q == m[l]
               w == Width(l)
    <3>1. q \in Nat /\ w \in Nat /\ q + 1 <= w
      BY <1>0, <2>2
    <3> HIDE DEF q, w
    <3>2. (q + 1) * c <= w * c /\ (q + 1) * c = q * c + c /\ q * c \in Nat
      BY <1>0, <3>1, ProductGrows
    <3>3. QED BY <3>2 DEF q, w
  <2>8. i \in 1 .. size /\ i - 1 = base + (j - 1)
    <3> HIDE DEF base, size
    <3>1. i = base + (j - 1) + 1
      BY DEF base
    <3> HIDE DEF i
    <3>2. QED BY <1>0, <1>1, <2>7, <3>1
  <2>9. number(i) = m[l] /\ source(i) = j
    <3>1. i - 1 = m[l] * c + (j - 1) /\ i - 1 \in Nat /\ j - 1 \in 0 .. c - 1
      BY <1>0, <2>8
    <3> HIDE DEF i
    <3>2. (i - 1) \div c = m[l] /\ (i - 1) % c = j - 1
      BY <1>0, <2>2, <3>1, DivUnique
    <3>3. QED BY <1>0, <3>2 DEF number, source
  <2> HIDE DEF i
  <2>10. id(i) \in [0 .. Top -> Nat]
    BY <1>4, <2>8, Digits
  <2>11. \A d \in 0 .. Top : id(i)[d] = m[d]
    <3> SUFFICES ASSUME NEW d \in 0 .. Top PROVE id(i)[d] = m[d]
      OBVIOUS
    <3>1. CASE d \in 0 .. l - 1
      BY <1>5, <2>4, <2>6, <2>8, <2>9, <3>1
    <3>2. CASE d = l
      BY <1>5, <2>8, <2>9, <3>2
    <3>3. CASE d \in l + 1 .. Top
      BY <1>5, <2>1, <2>8, <3>3
    <3>4. QED BY <1>0, <3>1, <3>2, <3>3
  <2>12. id(i) = m
    BY <2>2, <2>10, <2>11, SameIds
  <2>13. QED BY <2>8, <2>9, <2>12
<1>10. \A i \in 1 .. size : s[i] = id(i)
  BY <1>6
<1>11. ToSet(s) = RingById(n, l)
  <2>1. ToSet(s) = {s[i] : i \in 1 .. size}
    BY <1>7 DEF ToSet
  <2> HIDE DEF size
  <2>2. QED BY <1>8, <1>9, <1>10, <2>1
<1>12. first = FirstOf(s, c)
  BY DEF SameLimits
<1>13. /\ first \in Seq(Node) /\ Len(first) = c
       /\ \A i \in 1 .. c : first[i] = s[i]
  <2> HIDE DEF first
  <2> QED BY <1>0, <1>1, <1>7, <1>12, FirstEntries
<1> HIDE DEF first, c
<1>14. \A i \in 1 .. size : number(i) = 0 <=> i <= c
  <2> SUFFICES ASSUME NEW i \in 1 .. size PROVE number(i) = 0 <=> i <= c
    OBVIOUS
  <2> DEFINE q == number(i)
             r == (i - 1) % c
  <2>1. q \in Nat /\ r \in 0 .. c - 1 /\ i - 1 = q * c + r
    <3>1. i - 1 \in Nat
      BY <1>1
    <3>2. QED BY <1>0, <3>1, DivMod DEF number
  <2> HIDE DEF q, r
  <2>2. CASE q = 0
    BY <1>0, <2>1, <2>2 DEF q
  <2>3. CASE q # 0
    <3>1. 1 * c <= q * c /\ q * c \in Nat /\ 1 * c = c
      BY <1>0, <2>1, <2>3, ProductGrows
    <3>2. QED BY <1>0, <2>1, <2>3, <3>1 DEF q
  <2>4. QED BY <2>2, <2>3
<1>15. ToSet(first) = ContactsById(n, l)
  <2>1. ToSet(first) = {first[i] : i \in 1 .. c}
    BY <1>13 DEF ToSet
  <2>2. ContactsById(n, l) = {m \in RingById(n, l) : m[l] = 0}
    BY <1>0 DEF ContactsById, RingById, ResidesById
  <2>3. ASSUME NEW i \in 1 .. c
        PROVE  first[i] \in RingById(n, l) /\ first[i][l] = 0
    <3>1. i \in 1 .. size
      BY <1>0, <1>1
    <3>2. QED BY <1>5, <1>8, <1>10, <1>13, <1>14, <3>1
  <2>4. ASSUME NEW m \in RingById(n, l), m[l] = 0
        PROVE  \E i \in 1 .. c : first[i] = m
    <3>1. PICK i \in 1 .. size : id(i) = m /\ number(i) = m[l]
      BY <1>9
    <3>2. i \in 1 .. c
      BY <1>0, <1>14, <2>4, <3>1
    <3>3. QED BY <1>10, <1>13, <3>1, <3>2
  <2> HIDE DEF size
  <2>5. QED BY <2>1, <2>2, <2>3, <2>4
<1>16. \A i \in 1 .. size : s[i][l] = number(i)
  BY <1>5, <1>10
<1>17. QED BY <1>7, <1>11, <1>13, <1>15, <1>16 DEF first, s, c, number

-----------------------------------------------------------------------------
(***************************************************************************)
(* form_structure, level by level.                                         *)
(***************************************************************************)
\* The recursive function of FormStructure, unrolled.
LEMMA LevelsUnrolled ==
    ASSUME NEW n, NEW h
    PROVE  \E f :
              /\ f[0] = [tables |-> <<Ring(DistrictPeers(n), 0)>>,
                         list |-> FirstOf(DistrictPeers(n), ContactLimit(0))]
              /\ \A l \in 1 .. Top : f[l] = NextLevel(n, h, l, f[l - 1])
              /\ FormStructure(n, h) = f[Top].tables
<1> DEFINE f0 == [tables |-> <<Ring(DistrictPeers(n), 0)>>,
                  list |-> FirstOf(DistrictPeers(n), ContactLimit(0))]
           P(f) == f = [l \in 0 .. Top |->
                           IF l = 0 THEN f0 ELSE NextLevel(n, h, l, f[l - 1])]
           F == CHOOSE f : P(f)
           f1 == NextLevel(n, h, 1, f0)
           f2 == NextLevel(n, h, 2, f1)
           f3 == NextLevel(n, h, 3, f2)
           f4 == NextLevel(n, h, 4, f3)
           f5 == NextLevel(n, h, 5, f4)
           g == [l \in 0 .. Top |-> IF l = 0 THEN f0 ELSE IF l = 1 THEN f1
                   ELSE IF l = 2 THEN f2 ELSE IF l = 3 THEN f3
                   ELSE IF l = 4 THEN f4 ELSE f5]
<1>1. Top \in 0 .. 5
  BY TopType
<1>2. FormStructure(n, h) = F[Top].tables
  BY DEF FormStructure
<1> HIDE DEF f0
<1>3. P(g)
  <2> HIDE DEF f1, f2, f3, f4, f5
  <2>1. f1 = NextLevel(n, h, 1, f0) /\ f2 = NextLevel(n, h, 2, f1)
           /\ f3 = NextLevel(n, h, 3, f2) /\ f4 = NextLevel(n, h, 4, f3)
           /\ f5 = NextLevel(n, h, 5, f4)
    BY DEF f1, f2, f3, f4, f5
  <2>2. ASSUME NEW l \in 0 .. Top
        PROVE  g[l] = IF l = 0 THEN f0 ELSE NextLevel(n, h, l, g[l - 1])
    BY <1>1, <2>1
  <2>3. g = [l \in 0 .. Top |-> g[l]]
    OBVIOUS
  <2> HIDE DEF g
  <2>4. QED BY <2>2, <2>3
<1> HIDE DEF g
<1>4. P(F)
  <2> HIDE DEF P
  <2>1. QED BY <1>3
<1> HIDE DEF F
<1>5. F[0] = f0
  BY <1>1, <1>4
<1>6. \A l \in 1 .. Top : F[l] = NextLevel(n, h, l, F[l - 1])
  BY <1>1, <1>4
<1>7. QED BY <1>2, <1>5, <1>6 DEF f0

\* How many members of a ring reside in one of the regions it joins.
PerRegion(l) == IF l = 0 THEN 1 ELSE Contacts

\* A ring as it should be: its list has the regions in order of their digits.
RightRing(n, l, r) ==
    /\ r.peer_list \in Seq(Node)
    /\ Len(r.peer_list) = Width(l) * PerRegion(l)
    /\ ToSet(r.peer_list) = RingById(n, l)
    /\ \A i \in 1 .. Width(l) * PerRegion(l) :
            r.peer_list[i][l] = (i - 1) \div PerRegion(l)
    /\ r.contact_nodes = ContactsById(n, l)

\* What form_structure has after level l: the rings up to the highest level in
\* which n resides, and the contacts in that one.
RightUpTo(n, l, s) ==
    \E high \in 0 .. l :
        /\ ResidesById(n, high) /\ (high = l \/ ~ ResidesById(n, high + 1))
        /\ s.tables \in Seq([peer_list : Seq(Node), contact_nodes : SUBSET Node])
        /\ Len(s.tables) = high + 1
        /\ \A j \in 0 .. high : RightRing(n, j, s.tables[j + 1])
        /\ high < Top => /\ s.list \in Seq(Node) /\ Len(s.list) = Contacts
                         /\ ToSet(s.list) = ContactsById(n, high)

LEMMA FirstLevelRight ==
    ASSUME NEW n \in Node, NEW s,
           s = [tables |-> <<Ring(DistrictPeers(n), 0)>>,
                list |-> FirstOf(DistrictPeers(n), ContactLimit(0))]
    PROVE  RightUpTo(n, 0, s)
<1> DEFINE r == Ring(DistrictPeers(n), 0)
<1>1. /\ r.peer_list = DistrictPeers(n)
      /\ r.contact_nodes = ToSet(FirstOf(DistrictPeers(n), ContactLimit(0)))
      /\ r = [peer_list |-> r.peer_list, contact_nodes |-> r.contact_nodes]
  BY DEF Ring
<1>2. RightRing(n, 0, r)
  <2>1. Width(0) \in Nat /\ PerRegion(0) = 1
    BY WidthType DEF PerRegion
  <2>2. Width(0) * PerRegion(0) = Width(0)
    BY <2>1
  <2>3. \A i \in 1 .. Width(0) : (i - 1) \div PerRegion(0) = i - 1
    BY <2>1
  <2>4. QED BY <1>1, <2>2, <2>3, DistrictList DEF RightRing
<1>3. r \in [peer_list : Seq(Node), contact_nodes : SUBSET Node]
  <2>1. r.peer_list \in Seq(Node) /\ r.contact_nodes \subseteq Node
    BY <1>1, DistrictList, RegionDigits DEF ContactsById
  <2> HIDE DEF r
  <2>2. QED BY <1>1, <2>1
<1> HIDE DEF r
<1>4. s.tables = <<r>> /\ s.list = FirstOf(DistrictPeers(n), ContactLimit(0))
  BY DEF r
<1>5. /\ s.tables \in Seq([peer_list : Seq(Node), contact_nodes : SUBSET Node])
      /\ Len(s.tables) = 1 /\ s.tables[1] = r
  BY <1>3, <1>4
<1>6. ResidesById(n, 0)
  BY DEF ResidesById
<1>7. QED BY <1>2, <1>4, <1>5, <1>6, DistrictList DEF RightUpTo

LEMMA NextLevelRight ==
    ASSUME SameLimits, NEW n \in Node, NEW h, NEW l \in 1 .. Top,
           NEW s, RightUpTo(n, l - 1, s)
    PROVE  RightUpTo(n, l, NextLevel(n, h, l, s))
<1> DEFINE Rings == [peer_list : Seq(Node), contact_nodes : SUBSET Node]
           peers == RingPeers(n, l, s.list)
           first == FirstOf(peers, ContactLimit(l))
           r == Ring(peers, l)
           list == IF l = Top THEN <<>> ELSE MapIteration(h[Region(n, l)], first)
           next == [tables |-> Append(s.tables, r), list |-> list]
<1>0. Top \in 0 .. 5 /\ l \in 1 .. 5
  BY TopType
<1>1. PICK high \in 0 .. l - 1 :
        /\ ResidesById(n, high) /\ (high = l - 1 \/ ~ ResidesById(n, high + 1))
        /\ s.tables \in Seq(Rings) /\ Len(s.tables) = high + 1
        /\ \A j \in 0 .. high : RightRing(n, j, s.tables[j + 1])
        /\ high < Top => /\ s.list \in Seq(Node) /\ Len(s.list) = Contacts
                         /\ ToSet(s.list) = ContactsById(n, high)
  BY DEF RightUpTo
<1>2. /\ high < Top /\ s.list \in Seq(Node) /\ Len(s.list) = Contacts
      /\ ToSet(s.list) = ContactsById(n, high)
  BY <1>0, <1>1
<1>3. n \in ToSet(s.list) <=> ResidesById(n, high + 1)
  BY <1>2, RegionDigits DEF ContactsById
<1>4. NextLevel(n, h, l, s) = IF n \notin ToSet(s.list) THEN s ELSE next
  BY DEF NextLevel
<1>5. CASE ~ ResidesById(n, high + 1)
  <2>1. NextLevel(n, h, l, s) = s
    BY <1>3, <1>4, <1>5
  <2>2. high \in 0 .. l
    BY <1>0
  <2>3. QED BY <1>1, <1>5, <2>1, <2>2 DEF RightUpTo
<1>6. CASE ResidesById(n, high + 1)
  <2>1. high = l - 1 /\ ResidesById(n, l)
    BY <1>0, <1>1, <1>6
  <2>2. NextLevel(n, h, l, s) = next
    BY <1>3, <1>4, <1>6
  <2>3. /\ peers \in Seq(Node) /\ Len(peers) = Width(l) * Contacts
        /\ ToSet(peers) = RingById(n, l)
        /\ \A i \in 1 .. Width(l) * Contacts : peers[i][l] = (i - 1) \div Contacts
        /\ first \in Seq(Node) /\ Len(first) = Contacts
        /\ ToSet(first) = ContactsById(n, l)
    BY <1>2, <2>1, RingList
  <2> HIDE DEF peers, first
  <2>4. /\ r = [peer_list |-> peers, contact_nodes |-> ToSet(first)]
        /\ r.peer_list = peers /\ r.contact_nodes = ToSet(first)
    BY DEF Ring, first
  <2> HIDE DEF r
  <2>5. RightRing(n, l, r) /\ r \in Rings
    <3>1. ContactsById(n, l) \subseteq Node
      BY RegionDigits DEF ContactsById
    <3>2. PerRegion(l) = Contacts
      BY <1>0 DEF PerRegion
    <3>3. QED BY <2>3, <2>4, <3>1, <3>2 DEF RightRing
  <2>6. l < Top => /\ list \in Seq(Node) /\ Len(list) = Contacts
                   /\ ToSet(list) = ContactsById(n, l)
    BY <2>3, IterationPermutes
  <2> HIDE DEF list
  <2>7. /\ next.tables = Append(s.tables, r) /\ next.list = list
    OBVIOUS
  <2> HIDE DEF next
  <2>8. /\ next.tables \in Seq(Rings) /\ Len(next.tables) = l + 1
        /\ next.tables[l + 1] = r
        /\ \A j \in 0 .. l - 1 : next.tables[j + 1] = s.tables[j + 1]
    <3>1. s.tables \in Seq(Rings) /\ Len(s.tables) = l
      BY <1>0, <1>1, <2>1
    <3> HIDE DEF Rings
    <3>2. QED BY <1>0, <2>5, <2>7, <3>1
  <2>9. \A j \in 0 .. l : RightRing(n, j, next.tables[j + 1])
    <3> SUFFICES ASSUME NEW j \in 0 .. l PROVE RightRing(n, j, next.tables[j + 1])
      OBVIOUS
    <3>1. CASE j = l
      BY <2>5, <2>8, <3>1
    <3>2. CASE j \in 0 .. l - 1
      BY <1>1, <2>1, <2>8, <3>2
    <3>3. QED BY <1>0, <3>1, <3>2
  <2>10. QED
    <3>1. l \in 0 .. l
      BY <1>0
    <3>2. QED BY <2>1, <2>2, <2>6, <2>7, <2>8, <2>9, <3>1 DEF RightUpTo
<1>7. QED BY <1>5, <1>6

\* The tables of a node: the rings in which it resides by its digits.
LEMMA TablesRight ==
    ASSUME SameLimits, NEW n \in Node, NEW h
    PROVE  \E high \in 0 .. Top :
              /\ Len(FormStructure(n, h)) = high + 1
              /\ \A l \in 0 .. Top : ResidesById(n, l) <=> l <= high
              /\ \A l \in 0 .. high : RightRing(n, l, FormStructure(n, h)[l + 1])
<1>1. PICK f :
        /\ f[0] = [tables |-> <<Ring(DistrictPeers(n), 0)>>,
                   list |-> FirstOf(DistrictPeers(n), ContactLimit(0))]
        /\ \A l \in 1 .. Top : f[l] = NextLevel(n, h, l, f[l - 1])
        /\ FormStructure(n, h) = f[Top].tables
  BY LevelsUnrolled
<1>2. Top \in 0 .. 5
  BY TopType
<1>3. RightUpTo(n, 0, f[0])
  BY <1>1, FirstLevelRight
<1>4. \A l \in 1 .. Top : RightUpTo(n, l - 1, f[l - 1]) => RightUpTo(n, l, f[l])
  <2> SUFFICES ASSUME NEW l \in 1 .. Top, RightUpTo(n, l - 1, f[l - 1])
               PROVE  RightUpTo(n, l, f[l])
    OBVIOUS
  <2>1. RightUpTo(n, l, NextLevel(n, h, l, f[l - 1]))
    BY NextLevelRight
  <2>2. QED BY <1>1, <2>1
<1>5. 1 <= Top => RightUpTo(n, 1, f[1])
  BY <1>2, <1>3, <1>4
<1>6. 2 <= Top => RightUpTo(n, 2, f[2])
  BY <1>2, <1>4, <1>5
<1>7. 3 <= Top => RightUpTo(n, 3, f[3])
  BY <1>2, <1>4, <1>6
<1>8. 4 <= Top => RightUpTo(n, 4, f[4])
  BY <1>2, <1>4, <1>7
<1>9. 5 <= Top => RightUpTo(n, 5, f[5])
  BY <1>2, <1>4, <1>8
<1>10. RightUpTo(n, Top, f[Top])
  BY <1>2, <1>3, <1>5, <1>6, <1>7, <1>8, <1>9
<1>11. PICK high \in 0 .. Top :
        /\ ResidesById(n, high) /\ (high = Top \/ ~ ResidesById(n, high + 1))
        /\ Len(f[Top].tables) = high + 1
        /\ \A j \in 0 .. high : RightRing(n, j, f[Top].tables[j + 1])
  BY <1>10 DEF RightUpTo
<1>12. \A l \in 0 .. Top : ResidesById(n, l) <=> l <= high
  <2> SUFFICES ASSUME NEW l \in 0 .. Top PROVE ResidesById(n, l) <=> l <= high
    OBVIOUS
  <2>1. CASE l <= high
    BY <1>2, <1>11, <2>1 DEF ResidesById
  <2>2. CASE l > high
    <3>1. ~ ResidesById(n, high + 1) /\ 1 .. high \subseteq 1 .. l - 1
      BY <1>2, <1>11, <2>2
    <3>2. ~ ResidesById(n, l)
      BY <1>2, <2>2, <3>1 DEF ResidesById
    <3>3. QED BY <1>2, <2>2, <3>2
  <2>3. QED BY <1>2, <2>1, <2>2
<1>13. QED BY <1>1, <1>11, <1>12

-----------------------------------------------------------------------------
(***************************************************************************)
(* Nodes that are up, and what their tables answer.                        *)
(***************************************************************************)
StructureInv == hash \in Hashes /\ up \subseteq Node

\* Nothing but up ever changes, and only nodes start.
THEOREM StructureInvariance == StructureSpec => []StructureInv
<1>1. StructureInit => StructureInv
  BY DEF StructureInit, StructureInv
<1>2. StructureInv /\ [StructureNext]_structureVars => StructureInv'
  BY LateAssumption DEF StructureInv, StructureNext, Form, structureVars
<1>3. QED BY <1>1, <1>2, PTL DEF StructureSpec

\* A node's own answers are those its id implies.
LEMMA Answers ==
    ASSUME SameLimits, StructureInv, NEW n \in up
    PROVE  /\ get_top_level(n) \in 0 .. Top
           /\ ~ is_contact_node(n, Top + 1)
           /\ \A l \in 0 .. Top :
                /\ is_contact_node(n, l) <=> ResidesById(n, l)
                /\ l <= get_top_level(n) <=> ResidesById(n, l)
                /\ ResidesById(n, l) => RightRing(n, l, tables(n)[l + 1])
<1>1. n \in Node /\ hash \in Hashes
  BY DEF StructureInv
<1>2. tables(n) = FormStructure(n, hash)
  BY <1>1 DEF tables, FormedTables
<1>3. PICK high \in 0 .. Top :
        /\ Len(tables(n)) = high + 1
        /\ \A l \in 0 .. Top : ResidesById(n, l) <=> l <= high
        /\ \A l \in 0 .. high : RightRing(n, l, tables(n)[l + 1])
  BY <1>1, <1>2, TablesRight
<1>4. Top \in 0 .. 5 /\ get_top_level(n) = high
  BY <1>3, TopType DEF get_top_level
<1>5. ~ is_contact_node(n, Top + 1)
  BY <1>3, <1>4 DEF is_contact_node
<1>6. ASSUME NEW l \in 0 .. Top
      PROVE  /\ is_contact_node(n, l) <=> ResidesById(n, l)
             /\ l <= get_top_level(n) <=> ResidesById(n, l)
             /\ ResidesById(n, l) => RightRing(n, l, tables(n)[l + 1])
  <2>1. is_contact_node(n, l) <=> l <= high
    BY <1>3, <1>4 DEF is_contact_node
  <2>2. QED BY <1>3, <1>4, <2>1
<1>7. QED BY <1>3, <1>4, <1>5, <1>6

\* Peers and contact nodes, by id.
LEMMA PeersById ==
    ASSUME SameLimits, StructureInv, NEW n \in up,
           NEW l \in 0 .. Top, ResidesById(n, l)
    PROVE  Peers(n, l) = RingById(n, l) /\ get_contact_nodes(n, l) = ContactsById(n, l)
  BY Answers DEF RightRing, Peers, peer_list, get_contact_nodes

\* Members of one ring have one ring in mind.
LEMMA SameRing ==
    ASSUME NEW n, NEW l, NEW m \in RingById(n, l)
    PROVE  /\ m \in Node /\ ResidesById(m, l)
           /\ RingById(m, l) = RingById(n, l)
           /\ ContactsById(m, l) = ContactsById(n, l)
  BY DEF RingById, ContactsById, SameRegion

(***************************************************************************)
(* In every shape with equally many contact nodes, nodes that never spoke  *)
(* agree on the rings they share: members, and who of them is a contact    *)
(* node (form_structure, app.cpp:23).                                      *)
(***************************************************************************)
THEOREM TablesAgree ==
    ASSUME SameLimits PROVE StructureSpec => []RingsAgree
<1>1. StructureInv => RingsAgree
  <2> SUFFICES ASSUME StructureInv, NEW n \in up,
                      NEW l \in 0 .. get_top_level(n), NEW m \in Peers(n, l) \cap up
               PROVE  /\ Resides(m, l)
                      /\ Peers(m, l) = Peers(n, l)
                      /\ get_contact_nodes(m, l) = get_contact_nodes(n, l)
    BY DEF RingsAgree
  <2>1. l \in 0 .. Top /\ ResidesById(n, l)
    BY Answers, TopType
  <2>2. m \in RingById(n, l)
    BY <2>1, PeersById
  <2>3. ResidesById(m, l)
    BY <2>2, SameRing
  <2>4. Resides(m, l)
    BY <2>1, <2>3, Answers DEF Resides
  <2>5. QED BY <2>1, <2>2, <2>3, <2>4, PeersById, SameRing
<1>2. QED BY <1>1, StructureInvariance, PTL

(***************************************************************************)
(* A ring's members take exactly those for contact nodes that reside in    *)
(* the ring above by their own account (node_table.cpp:95).                *)
(***************************************************************************)
THEOREM ContactsAbove ==
    ASSUME SameLimits PROVE StructureSpec => []ContactsResideAbove
<1>1. StructureInv => ContactsResideAbove
  <2> SUFFICES ASSUME StructureInv, NEW n \in up,
                      NEW l \in 0 .. get_top_level(n), NEW m \in Peers(n, l) \cap up,
                      l < Top
               PROVE  m \in get_contact_nodes(n, l) <=> Resides(m, l + 1)
    BY DEF ContactsResideAbove
  <2>1. l \in 0 .. Top /\ l + 1 \in 0 .. Top /\ ResidesById(n, l)
    BY Answers, TopType
  <2>2. m \in RingById(n, l) /\ get_contact_nodes(n, l) = ContactsById(n, l)
    BY <2>1, PeersById
  <2>3. m \in ContactsById(n, l) <=> ResidesById(m, l + 1)
    BY <2>2 DEF RingById, ContactsById
  <2>4. Resides(m, l + 1) <=> ResidesById(m, l + 1)
    BY <2>1, Answers DEF Resides
  <2>5. QED BY <2>2, <2>3, <2>4
<1>2. QED BY <1>1, StructureInvariance, PTL

(***************************************************************************)
(* Every region below a ring has one representative in it, which is how    *)
(* broadcast_within_ring finds a way down into each region, and one only.  *)
(***************************************************************************)
THEOREM RegionsRepresented ==
    ASSUME SameLimits PROVE StructureSpec => []OneRepresentative
<1>1. StructureInv => OneRepresentative
  <2> SUFFICES ASSUME StructureInv, NEW n \in up,
                      NEW l \in 1 .. get_top_level(n), NEW i \in 0 .. Width(l) - 1
               PROVE  Cardinality(Representatives(n, l, i)) = 1
    BY DEF OneRepresentative
  <2>1. /\ Top \in 0 .. 5 /\ l \in 1 .. Top /\ l \in 0 .. Top /\ 0 \in 0 .. Top
        /\ ResidesById(n, l) /\ n \in Node
        /\ i \in Nat /\ i < Width(l) /\ Contacts \in Nat \ {0}
    <3>1. Top \in 0 .. 5 /\ get_top_level(n) \in 0 .. Top
      BY TopType, Answers
    <3>2. l \in 1 .. Top /\ l \in 0 .. Top /\ l \in 1 .. 5
      BY <3>1
    <3>3. ResidesById(n, l)
      BY <3>1, <3>2, Answers
    <3>4. Width(l) \in Nat
      BY <3>2, WidthType
    <3>5. QED BY <3>1, <3>2, <3>3, <3>4, ContactsType DEF StructureInv
  <2> DEFINE x == [d \in 0 .. Top |-> IF d < l THEN 0 ELSE IF d = l THEN i ELSE n[d]]
  <2>2. \A d \in 0 .. Top : n[d] \in Nat /\ n[d] < Width(d)
    BY <2>1, Digits
  <2>3. x \in Node
    <3>1. \A d \in 0 .. Top : Width(d) \in Nat /\ Width(d) > 0
      BY <2>1, <2>2, WidthType
    <3>2. x \in [0 .. Top -> Nat] /\ \A d \in 0 .. Top : x[d] < Width(d)
      BY <2>1, <2>2, <3>1
    <3> HIDE DEF x
    <3>3. QED BY <3>2, NodeIds
  <2>4. /\ \A d \in 0 .. l - 1 : x[d] = 0
        /\ x[l] = i
        /\ \A d \in l + 1 .. Top : x[d] = n[d]
    BY <2>1
  <2> HIDE DEF x
  <2>5. Representatives(n, l, i) = {m \in RingById(n, l) : m[l] = i /\ m[0] = 0}
    BY <2>1, PeersById DEF Representatives
  <2>6. x \in Representatives(n, l, i)
    <3>1. x \in SameRegion(n, l)
      BY <2>3, <2>4, RegionDigits
    <3>2. x[0] = 0 /\ \A d \in 1 .. l - 1 : x[d] = 0
      BY <2>1, <2>4
    <3>3. QED BY <2>1, <2>4, <2>5, <3>1, <3>2 DEF RingById, ResidesById
  <2>7. ASSUME NEW m \in Representatives(n, l, i) PROVE m = x
    <3>1. /\ m \in Node /\ m[l] = i /\ m[0] = 0
          /\ \A d \in 1 .. l - 1 : m[d] = 0
          /\ \A d \in l + 1 .. Top : m[d] = n[d]
      BY <2>1, <2>5, RegionDigits DEF RingById, ResidesById
    <3>2. m \in [0 .. Top -> Nat] /\ x \in [0 .. Top -> Nat]
      BY <2>3, <3>1, Digits
    <3>3. ASSUME NEW d \in 0 .. Top PROVE m[d] = x[d]
      <4>1. CASE d = 0
        BY <2>1, <2>4, <3>1, <4>1
      <4>2. CASE d \in 1 .. l - 1
        BY <2>1, <2>4, <3>1, <4>2
      <4>3. CASE d = l
        BY <2>4, <3>1, <4>3
      <4>4. CASE d \in l + 1 .. Top
        BY <2>4, <3>1, <4>4
      <4>5. QED BY <2>1, <4>1, <4>2, <4>3, <4>4
    <3>4. QED BY <3>2, <3>3, SameIds
  <2>8. Representatives(n, l, i) = {x}
    BY <2>6, <2>7
  <2>9. QED BY <2>8, FS_Singleton
<1>2. QED BY <1>1, StructureInvariance, PTL

-----------------------------------------------------------------------------
(***************************************************************************)
(* One or two contact nodes per ring: iterating the map reverses the list, *)
(* whatever the buckets, so that a node's place in its ring is given by its*)
(* id.                                                                     *)
(***************************************************************************)
FewContacts == Contacts <= 2 /\ SameLimits

\* The single digit of the i-th contact in the list after level l, and back.
Turned(l, i) == IF l % 2 = 0 THEN i ELSE Contacts - 1 - i

Size(l) == Width(l) * PerRegion(l)

\* Where the list of the level l ring has n.
Place(n, l) == IF l = 0 THEN n[0] ELSE n[l] * Contacts + Turned(l - 1, n[0])

LEMMA IterationReverses ==
    ASSUME NEW X, NEW s \in Seq(X), Len(s) \in {1, 2}, NEW bucket
    PROVE  \A i \in 1 .. Len(s) : MapIteration(bucket, s)[i] = s[Len(s) + 1 - i]
<1> DEFINE D == 1 .. Len(s)
           Oldest(i) == Min({j \in DOMAIN s : bucket[j] = bucket[i]})
           Precedes(i, j) == \/ Oldest(i) > Oldest(j)
                             \/ Oldest(i) = Oldest(j) /\ i > j
           Sorts(p) == \A i, j \in DOMAIN s : i < j => Precedes(p[i], p[j])
           order == CHOOSE p \in [DOMAIN s -> DOMAIN s] : Sorts(p)
           back == [i \in DOMAIN s |-> Len(s) + 1 - i]
<1>1. Len(s) \in Nat /\ DOMAIN s = D
  OBVIOUS
<1>2. \A i \in D : Oldest(i) \in D /\ Oldest(i) <= i
  <2> SUFFICES ASSUME NEW i \in D PROVE Oldest(i) \in D /\ Oldest(i) <= i
    OBVIOUS
  <2> DEFINE T == {j \in DOMAIN s : bucket[j] = bucket[i]}
  <2>1. T \subseteq D /\ T \subseteq Nat /\ i \in T
    BY <1>1
  <2>2. Min(T) \in T /\ Min(T) <= i
    <3> HIDE DEF T
    <3> QED BY <2>1, LeastNatural
  <2>3. QED BY <2>1, <2>2
<1>3. MapIteration(bucket, s) = [i \in DOMAIN s |-> s[order[i]]]
  BY DEF MapIteration
<1> HIDE DEF Oldest
<1>4. \A i, j \in D : i < j => Precedes(j, i) /\ ~ Precedes(i, j)
  BY <1>1, <1>2
<1>5. \A i \in D : ~ Precedes(i, i)
  BY <1>1, <1>2
<1> HIDE DEF Precedes
<1>6. back \in [DOMAIN s -> DOMAIN s] /\ Sorts(back)
  <2>1. ASSUME NEW i \in D PROVE back[i] \in D
    BY <1>1
  <2>2. ASSUME NEW i \in D, NEW j \in D, i < j PROVE Precedes(back[i], back[j])
    <3>1. back[i] \in D /\ back[j] \in D /\ back[j] < back[i]
      BY <1>1, <2>2
    <3> HIDE DEF back
    <3>2. QED BY <1>4, <3>1
  <2> HIDE DEF back
  <2>3. QED
    <3>1. back \in [DOMAIN s -> DOMAIN s]
      BY <1>1, <2>1 DEF back
    <3>2. QED BY <1>1, <2>2, <3>1
<1>7. order \in [DOMAIN s -> DOMAIN s] /\ Sorts(order)
  <2> HIDE DEF Sorts, back
  <2> QED BY <1>6
<1> HIDE DEF order, back
<1>8. ASSUME NEW i \in D PROVE order[i] = Len(s) + 1 - i
  <2>1. \A j \in D : order[j] \in D
    BY <1>1, <1>7
  <2>2. CASE Len(s) = 1
    BY <2>1, <2>2
  <2>3. CASE Len(s) = 2
    <3>1. 1 \in D /\ 2 \in D /\ \A j \in D : j \in {1, 2}
      BY <2>3
    <3>2. Precedes(order[1], order[2]) /\ order[1] \in {1, 2} /\ order[2] \in {1, 2}
      <4>1. \A j, k \in D : j < k => Precedes(order[j], order[k])
        BY <1>1, <1>7
      <4>2. order[1] \in {1, 2} /\ order[2] \in {1, 2}
        BY <2>1, <3>1
      <4> HIDE DEF D
      <4>3. QED BY <3>1, <4>1, <4>2
    <3>3. ~ Precedes(1, 1) /\ ~ Precedes(2, 2) /\ ~ Precedes(1, 2)
      BY <1>4, <1>5, <3>1
    <3>4. order[1] = 2 /\ order[2] = 1
      BY <3>2, <3>3
    <3>5. QED BY <2>3, <3>1, <3>4
  <2>4. QED BY <2>2, <2>3
<1>9. QED BY <1>1, <1>3, <1>8

LEMMA ResidesDown ==
    ASSUME NEW n, NEW l \in 0 .. 6, NEW j \in 0 .. l, ResidesById(n, l)
    PROVE  ResidesById(n, j)
<1>1. 1 .. j - 1 \subseteq 1 .. l - 1
  OBVIOUS
<1>2. QED BY <1>1 DEF ResidesById

LEMMA TurnedTwice ==
    ASSUME FewContacts, NEW l \in Nat, NEW i \in 0 .. Contacts - 1
    PROVE  /\ Turned(l, i) \in 0 .. Contacts - 1
           /\ Turned(l, Turned(l, i)) = i
           /\ Turned(l + 1, i) = Turned(l, Contacts - 1 - i)
<1>1. Contacts \in Nat \ {0}
  BY ContactsType
<1>2. l % 2 \in {0, 1} /\ ((l + 1) % 2 = 0 <=> l % 2 # 0)
  OBVIOUS
<1>3. QED BY <1>1, <1>2 DEF Turned

\* The tables after level l have the single digits in the order of their level.
InOrder(n, l, s) ==
    /\ \A j \in 1 .. l : ResidesById(n, j) =>
         \A i \in 1 .. Width(j) * Contacts :
            s.tables[j + 1].peer_list[i][0] = Turned(j - 1, (i - 1) % Contacts)
    /\ l < Top /\ ResidesById(n, l) =>
         \A i \in 1 .. Contacts : s.list[i][0] = Turned(l, i - 1)

LEMMA FirstLevelInOrder ==
    ASSUME FewContacts, NEW n \in Node, NEW s,
           s = [tables |-> <<Ring(DistrictPeers(n), 0)>>,
                list |-> FirstOf(DistrictPeers(n), ContactLimit(0))]
    PROVE  InOrder(n, 0, s)
<1> DEFINE all == DistrictPeers(n)
<1>1. /\ all \in Seq(Node) /\ Len(all) = Width(0) /\ Width(0) \in Nat
      /\ \A i \in 1 .. Width(0) : all[i][0] = i - 1
  BY DistrictList, WidthType
<1>2. Contacts \in Nat \ {0} /\ Contacts <= Width(0)
  BY ContactsType
<1>3. FirstOf(all, ContactLimit(0)) = FirstOf(all, Contacts)
  <2> HIDE DEF all
  <2> QED BY <1>1, ContactsType DEF FirstOf, Contacts
<1> HIDE DEF all
<1>4. \A i \in 1 .. Contacts : FirstOf(all, Contacts)[i] = all[i]
  BY <1>1, <1>2, FirstEntries
<1>5. s.list = FirstOf(all, Contacts)
  BY <1>3 DEF all
<1>6. ASSUME NEW i \in 1 .. Contacts PROVE s.list[i][0] = Turned(0, i - 1)
  <2>1. i \in 1 .. Width(0)
    BY <1>1, <1>2
  <2>2. 0 % 2 = 0
    BY DivUnique, 0 = 0 * 2 + 0
  <2>3. QED BY <1>1, <1>4, <1>5, <2>1, <2>2 DEF Turned
<1>7. QED BY <1>6 DEF InOrder

LEMMA NextLevelInOrder ==
    ASSUME FewContacts, NEW n \in Node, NEW h, NEW l \in 1 .. Top,
           NEW s, RightUpTo(n, l - 1, s), InOrder(n, l - 1, s)
    PROVE  InOrder(n, l, NextLevel(n, h, l, s))
<1> DEFINE peers == RingPeers(n, l, s.list)
           first == FirstOf(peers, ContactLimit(l))
           r == Ring(peers, l)
           list == IF l = Top THEN <<>> ELSE MapIteration(h[Region(n, l)], first)
           next == [tables |-> Append(s.tables, r), list |-> list]
<1>0. /\ Top \in 0 .. 5 /\ l \in 1 .. 5 /\ l - 1 \in 0 .. 5 /\ SameLimits
      /\ Contacts \in {1, 2} /\ (l - 1) + 1 = l /\ 0 \in 0 .. Top /\ 0 < l /\ l - 1 < Top
      /\ Width(l) \in Nat /\ Width(l) > 0
  <2>1. Top \in 0 .. 5 /\ Contacts \in {1, 2} /\ SameLimits
    BY TopType, ContactsType DEF FewContacts
  <2>2. l \in 0 .. 5 /\ l \in 0 .. Top
    BY <2>1
  <2>3. Width(l) \in Nat /\ n[l] \in Nat /\ n[l] < Width(l)
    BY <2>2, WidthType, Digits
  <2>4. QED BY <2>1, <2>2, <2>3
<1>1. PICK high \in 0 .. l - 1 :
        /\ ResidesById(n, high) /\ (high = l - 1 \/ ~ ResidesById(n, high + 1))
        /\ s.tables \in Seq([peer_list : Seq(Node), contact_nodes : SUBSET Node])
        /\ Len(s.tables) = high + 1
        /\ high < Top => /\ s.list \in Seq(Node) /\ Len(s.list) = Contacts
                         /\ ToSet(s.list) = ContactsById(n, high)
  BY DEF RightUpTo
<1>2. /\ high < Top /\ s.list \in Seq(Node) /\ Len(s.list) = Contacts
      /\ ToSet(s.list) = ContactsById(n, high)
  BY <1>0, <1>1
<1>3. n \in ToSet(s.list) <=> ResidesById(n, high + 1)
  BY <1>2, RegionDigits DEF ContactsById
<1>4. NextLevel(n, h, l, s) = IF n \notin ToSet(s.list) THEN s ELSE next
  BY DEF NextLevel
<1>5. CASE ~ ResidesById(n, l)
  <2>1. ~ ResidesById(n, high + 1)
    BY <1>0, <1>1, <1>5
  <2>2. NextLevel(n, h, l, s) = s
    BY <1>3, <1>4, <2>1
  <2>3. ASSUME NEW j \in 1 .. l, ResidesById(n, j) PROVE j \in 1 .. l - 1
    BY <1>0, <1>5, <2>3
  <2>4. QED BY <1>5, <2>2, <2>3 DEF InOrder
<1>6. CASE ResidesById(n, l)
  <2>1. high = l - 1 /\ ResidesById(n, l - 1)
    <3>1. high + 1 \in 0 .. l /\ l \in 0 .. 6 /\ l - 1 \in 0 .. l
      BY <1>0
    <3>2. ResidesById(n, high + 1) /\ ResidesById(n, l - 1)
      BY <1>6, <3>1, ResidesDown
    <3>3. QED BY <1>1, <3>2
  <2>2. NextLevel(n, h, l, s) = next
    BY <1>0, <1>3, <1>4, <1>6, <2>1
  <2>3. /\ peers \in Seq(Node) /\ Len(peers) = Width(l) * Contacts
        /\ first \in Seq(Node) /\ Len(first) = Contacts
    BY <1>0, <1>2, <2>1, RingList
  <2>4. \A i \in 1 .. Contacts : s.list[i][0] = Turned(l - 1, i - 1)
    BY <1>0, <2>1 DEF InOrder
  <2>5. ASSUME NEW i \in 1 .. Width(l) * Contacts
        PROVE  peers[i][0] = Turned(l - 1, (i - 1) % Contacts)
    <3>1. peers[i][0] = s.list[((i - 1) % Contacts) + 1][0]
      BY <1>0, <1>2 DEF RingPeers
    <3>2. (i - 1) % Contacts \in 0 .. Contacts - 1
      <4>1. i - 1 \in Nat /\ Contacts \in Nat \ {0}
        BY <1>0
      <4>2. QED BY <4>1, DivMod
    <3> DEFINE m == (i - 1) % Contacts
    <3> HIDE DEF m
    <3>3. m + 1 \in 1 .. Contacts /\ (m + 1) - 1 = m
      BY <1>0, <3>2 DEF m
    <3>4. QED BY <2>4, <3>1, <3>3 DEF m
  <2> HIDE DEF peers
  <2>6. \A i \in 1 .. Contacts : first[i][0] = Turned(l - 1, i - 1)
    <3>1. Contacts <= Len(peers) /\ Contacts \in Nat \ {0}
      <4>1. 1 * Contacts <= Width(l) * Contacts /\ 1 * Contacts = Contacts
        BY <1>0, ProductGrows
      <4>2. QED BY <1>0, <2>3, <4>1
    <3>2. first = FirstOf(peers, Contacts)
      BY <1>0 DEF SameLimits
    <3>3. \A i \in 1 .. Contacts : first[i] = peers[i]
      <4>1. \A i \in 1 .. Contacts : FirstOf(peers, Contacts)[i] = peers[i]
        BY <2>3, <3>1, FirstEntries
      <4> HIDE DEF first
      <4>2. QED BY <3>2, <4>1
    <3>4. ASSUME NEW i \in 1 .. Contacts PROVE first[i][0] = Turned(l - 1, i - 1)
      <4>1. i \in 1 .. Width(l) * Contacts /\ (i - 1) % Contacts = i - 1
        <5>1. i \in 1 .. Width(l) * Contacts
          <6> DEFINE c == Contacts
                     z == Width(l) * Contacts
          <6>1. c \in Nat /\ z \in Nat /\ c <= z /\ i \in 1 .. c
            BY <1>0, <2>3, <3>1
          <6> HIDE DEF c, z
          <6>2. i \in 1 .. z
            BY <6>1
          <6>3. QED BY <6>2 DEF z
        <5>2. i - 1 \in 0 .. Contacts - 1 /\ i - 1 = 0 * Contacts + (i - 1)
          BY <1>0
        <5>3. i - 1 \in Nat /\ 0 \in Nat /\ Contacts \in Nat \ {0}
          BY <1>0
        <5> DEFINE a == i - 1
        <5> HIDE DEF a
        <5>4. a % Contacts = a
          BY <5>2, <5>3, DivUnique DEF a
        <5>5. QED BY <5>1, <5>4 DEF a
      <4>2. QED BY <2>5, <3>3, <4>1
    <3>5. QED BY <3>4
  <2> HIDE DEF first
  <2>7. ASSUME l < Top, NEW i \in 1 .. Contacts PROVE list[i][0] = Turned(l, i - 1)
    <3>1. list = MapIteration(h[Region(n, l)], first)
      BY <1>0, <2>7
    <3>2. list[i] = first[Contacts + 1 - i]
      <4>1. /\ first \in Seq(Node) /\ Len(first) = Contacts /\ Contacts \in {1, 2}
            /\ i \in 1 .. Contacts
        BY <1>0, <2>3
      <4> HIDE DEF list
      <4>2. \A k \in 1 .. Len(first) :
              MapIteration(h[Region(n, l)], first)[k] = first[Len(first) + 1 - k]
        BY <4>1, IterationReverses
      <4>3. QED BY <3>1, <4>1, <4>2
    <3>3. Contacts + 1 - i \in 1 .. Contacts /\ (Contacts + 1 - i) - 1 = Contacts - 1 - (i - 1)
          /\ i - 1 \in 0 .. Contacts - 1 /\ l - 1 \in Nat
      BY <1>0
    <3>4. list[i][0] = Turned(l - 1, Contacts - 1 - (i - 1))
      BY <2>6, <3>2, <3>3
    <3>5. Turned(l, i - 1) = Turned(l - 1, Contacts - 1 - (i - 1))
      BY <1>0, <3>3, TurnedTwice
    <3>6. QED BY <3>4, <3>5
  <2> HIDE DEF list
  <2>8. r.peer_list = peers
    BY DEF Ring
  <2>9. r \in [peer_list : Seq(Node), contact_nodes : SUBSET Node]
    <3>1. ToSet(first) \subseteq Node
      BY <2>3, Entries
    <3>2. r = [peer_list |-> peers, contact_nodes |-> ToSet(first)]
      BY DEF Ring, first
    <3>3. QED BY <2>3, <3>1, <3>2
  <2> HIDE DEF r
  <2>10. /\ next.list = list /\ next.tables[l + 1] = r
         /\ \A j \in 0 .. l - 1 : next.tables[j + 1] = s.tables[j + 1]
    <3> DEFINE Rings == [peer_list : Seq(Node), contact_nodes : SUBSET Node]
    <3>1. /\ s.tables \in Seq(Rings) /\ Len(s.tables) = l /\ r \in Rings
          /\ next.tables = Append(s.tables, r) /\ next.list = list
      BY <1>0, <1>1, <2>1, <2>9
    <3> HIDE DEF Rings, next
    <3>2. QED BY <1>0, <3>1
  <2> HIDE DEF next
  <2>11. ASSUME NEW j \in 1 .. l, ResidesById(n, j), NEW i \in 1 .. Width(j) * Contacts
         PROVE  next.tables[j + 1].peer_list[i][0] = Turned(j - 1, (i - 1) % Contacts)
    <3>1. CASE j = l
      BY <2>5, <2>8, <2>10, <2>11, <3>1
    <3>2. CASE j # l
      <4>1. j \in 1 .. l - 1 /\ j \in 0 .. l - 1
        BY <1>0, <3>2
      <4>2. QED BY <2>10, <2>11, <4>1 DEF InOrder
    <3>3. QED BY <3>1, <3>2
  <2>12. QED BY <2>2, <2>7, <2>10, <2>11 DEF InOrder
<1>7. QED BY <1>5, <1>6

\* The single digits in a ring's list alternate, in an order given by the level.
LEMMA TablesInOrder ==
    ASSUME FewContacts, NEW n \in Node, NEW h, NEW l \in 1 .. Top, ResidesById(n, l),
           NEW i \in 1 .. Width(l) * Contacts
    PROVE  FormStructure(n, h)[l + 1].peer_list[i][0] = Turned(l - 1, (i - 1) % Contacts)
<1>1. PICK f :
        /\ f[0] = [tables |-> <<Ring(DistrictPeers(n), 0)>>,
                   list |-> FirstOf(DistrictPeers(n), ContactLimit(0))]
        /\ \A j \in 1 .. Top : f[j] = NextLevel(n, h, j, f[j - 1])
        /\ FormStructure(n, h) = f[Top].tables
  BY LevelsUnrolled
<1> DEFINE P(j) == RightUpTo(n, j, f[j]) /\ InOrder(n, j, f[j])
<1>2. Top \in 0 .. 5
  BY TopType
<1>3. P(0)
  BY <1>1, FirstLevelRight, FirstLevelInOrder
<1>4. \A j \in 1 .. Top : P(j - 1) => P(j)
  <2> SUFFICES ASSUME NEW j \in 1 .. Top, P(j - 1) PROVE P(j)
    OBVIOUS
  <2>1. SameLimits
    BY DEF FewContacts
  <2>2. /\ RightUpTo(n, j, NextLevel(n, h, j, f[j - 1]))
        /\ InOrder(n, j, NextLevel(n, h, j, f[j - 1]))
    BY <2>1, NextLevelRight, NextLevelInOrder
  <2>3. QED BY <1>1, <2>2
<1> HIDE DEF P
<1>5. 1 <= Top => P(1)
  BY <1>2, <1>3, <1>4
<1>6. 2 <= Top => P(2)
  BY <1>2, <1>4, <1>5
<1>7. 3 <= Top => P(3)
  BY <1>2, <1>4, <1>6
<1>8. 4 <= Top => P(4)
  BY <1>2, <1>4, <1>7
<1>9. 5 <= Top => P(5)
  BY <1>2, <1>4, <1>8
<1>10. P(Top)
  BY <1>2, <1>3, <1>5, <1>6, <1>7, <1>8, <1>9
<1>11. QED BY <1>1, <1>10 DEF P, InOrder

\* A list has the node with place i - 1 at its i-th entry.
LEMMA ListPlaces ==
    ASSUME FewContacts, NEW n \in Node, NEW h, NEW l \in 0 .. Top, ResidesById(n, l)
    PROVE  LET list == FormStructure(n, h)[l + 1].peer_list
           IN  /\ list \in Seq(Node) /\ Len(list) = Size(l) /\ ToSet(list) = RingById(n, l)
               /\ \A i \in 1 .. Size(l) :
                    list[i] \in RingById(n, l) /\ Place(list[i], l) = i - 1
<1> DEFINE list == FormStructure(n, h)[l + 1].peer_list
<1>1. RightRing(n, l, FormStructure(n, h)[l + 1])
  <2>1. SameLimits /\ Top \in 0 .. 5
    BY TopType DEF FewContacts
  <2>2. PICK high \in 0 .. Top :
          /\ \A j \in 0 .. Top : ResidesById(n, j) <=> j <= high
          /\ \A j \in 0 .. high : RightRing(n, j, FormStructure(n, h)[j + 1])
    BY <2>1, TablesRight
  <2>3. l \in 0 .. high
    BY <2>1, <2>2
  <2>4. QED BY <2>2, <2>3
<1>2. /\ list \in Seq(Node) /\ Len(list) = Size(l) /\ ToSet(list) = RingById(n, l)
      /\ \A i \in 1 .. Size(l) : list[i][l] = (i - 1) \div PerRegion(l)
  BY <1>1 DEF RightRing, Size
<1>3. l > 0 => \A i \in 1 .. Width(l) * Contacts :
                    list[i][0] = Turned(l - 1, (i - 1) % Contacts)
  <2> SUFFICES ASSUME l > 0, NEW i \in 1 .. Width(l) * Contacts
               PROVE  list[i][0] = Turned(l - 1, (i - 1) % Contacts)
    OBVIOUS
  <2>1. l \in 1 .. Top
    BY TopType
  <2>2. QED BY <2>1, TablesInOrder
<1> HIDE DEF list
<1>4. ASSUME NEW i \in 1 .. Size(l)
      PROVE  list[i] \in RingById(n, l) /\ Place(list[i], l) = i - 1
  <2>0. l \in Nat /\ Contacts \in Nat \ {0} /\ i - 1 \in Nat
    <3>1. Size(l) \in Nat
      BY <1>2
    <3>2. QED BY <3>1, TopType, ContactsType
  <2>1. list[i] \in RingById(n, l)
    BY <1>2, Entries
  <2>2. CASE l = 0
    <3>1. PerRegion(l) = 1 /\ Place(list[i], l) = list[i][0]
      BY <2>2 DEF Place, PerRegion
    <3>2. (i - 1) \div 1 = i - 1
      BY <2>0
    <3>3. list[i][0] = i - 1
      BY <1>2, <2>2, <3>1, <3>2
    <3>4. QED BY <2>1, <3>1, <3>3
  <2>3. CASE l # 0
    <3>1. PerRegion(l) = Contacts /\ Size(l) = Width(l) * Contacts
      BY <2>3 DEF PerRegion, Size
    <3>2. list[i][l] = (i - 1) \div Contacts /\ list[i][0] = Turned(l - 1, (i - 1) % Contacts)
      BY <1>2, <1>3, <2>0, <2>3, <3>1
    <3>3. /\ (i - 1) % Contacts \in 0 .. Contacts - 1
          /\ i - 1 = ((i - 1) \div Contacts) * Contacts + ((i - 1) % Contacts)
      BY <2>0, DivMod
    <3>4. Turned(l - 1, list[i][0]) = (i - 1) % Contacts
      <4>1. l - 1 \in Nat
        BY <2>0, <2>3
      <4> DEFINE m == (i - 1) % Contacts
      <4> HIDE DEF m
      <4>2. m \in 0 .. Contacts - 1 /\ list[i][0] = Turned(l - 1, m)
        BY <3>2, <3>3 DEF m
      <4>3. Turned(l - 1, Turned(l - 1, m)) = m
        BY <4>1, <4>2, TurnedTwice
      <4>4. QED BY <4>2, <4>3 DEF m
    <3>5. Place(list[i], l) = list[i][l] * Contacts + Turned(l - 1, list[i][0])
      BY <2>3 DEF Place
    <3>6. QED BY <2>1, <3>2, <3>3, <3>4, <3>5
  <2>4. QED BY <2>2, <2>3
<1>5. QED BY <1>2, <1>4 DEF list

\* Each place of a ring is one node's.
LEMMA PlacesDiffer ==
    ASSUME FewContacts, NEW n \in Node, NEW l \in 0 .. Top, ResidesById(n, l)
    PROVE  /\ Size(l) \in Nat
           /\ \A x \in RingById(n, l) : Place(x, l) \in 0 .. Size(l) - 1
           /\ \A x, y \in RingById(n, l) : Place(x, l) = Place(y, l) => x = y
           /\ \A i \in 0 .. Size(l) - 1 : \E x \in RingById(n, l) : Place(x, l) = i
<1> DEFINE list == FormStructure(n, 0)[l + 1].peer_list
<1>1. /\ list \in Seq(Node) /\ Len(list) = Size(l) /\ ToSet(list) = RingById(n, l)
      /\ \A i \in 1 .. Size(l) : list[i] \in RingById(n, l) /\ Place(list[i], l) = i - 1
  BY ListPlaces
<1> HIDE DEF list
<1>2. Size(l) \in Nat
  BY <1>1
<1>3. \A x \in RingById(n, l) : \E i \in 1 .. Size(l) : list[i] = x
  BY <1>1, Entries
<1>4. ASSUME NEW x \in RingById(n, l) PROVE Place(x, l) \in 0 .. Size(l) - 1
  <2>1. PICK i \in 1 .. Size(l) : list[i] = x
    BY <1>3
  <2>2. QED BY <1>1, <1>2, <2>1
<1>5. ASSUME NEW x \in RingById(n, l), NEW y \in RingById(n, l), Place(x, l) = Place(y, l)
      PROVE  x = y
  <2>1. PICK i \in 1 .. Size(l) : list[i] = x
    BY <1>3
  <2>2. PICK j \in 1 .. Size(l) : list[j] = y
    BY <1>3
  <2>3. i - 1 = j - 1
    BY <1>1, <1>5, <2>1, <2>2
  <2>4. i = j
    BY <1>2, <2>3
  <2>5. QED BY <2>1, <2>2, <2>4
<1>6. ASSUME NEW i \in 0 .. Size(l) - 1 PROVE \E x \in RingById(n, l) : Place(x, l) = i
  <2>1. i + 1 \in 1 .. Size(l) /\ (i + 1) - 1 = i
    BY <1>2
  <2>2. QED BY <1>1, <2>1
<1>7. QED BY <1>2, <1>4, <1>5, <1>6

(***************************************************************************)
(* The members of a ring have it in one order, which is what makes the     *)
(* casts of peer_manager.cpp:183 follow a single tree: a sender counts the *)
(* places in its own list.                                                 *)
(***************************************************************************)
ListsAlike ==
    \A n \in up : \A l \in 0 .. get_top_level(n) : \A m \in Peers(n, l) \cap up :
        peer_list(m, l) = peer_list(n, l)

(***************************************************************************)
(* With one or two contact nodes per ring, two nodes that list each other  *)
(* in a ring list it in the same order, though each formed the list by     *)
(* iterating hash maps of its own (app.cpp:163).                           *)
(***************************************************************************)
THEOREM OrdersAgree ==
    ASSUME FewContacts PROVE StructureSpec => []ListsAlike
<1>1. StructureInv => ListsAlike
  <2> SUFFICES ASSUME StructureInv, NEW n \in up,
                      NEW l \in 0 .. get_top_level(n), NEW m \in Peers(n, l) \cap up
               PROVE  peer_list(m, l) = peer_list(n, l)
    BY DEF ListsAlike
  <2>0. SameLimits
    BY DEF FewContacts
  <2>1. l \in 0 .. Top /\ ResidesById(n, l) /\ n \in Node
    BY <2>0, Answers, TopType DEF StructureInv
  <2>2. m \in Node /\ ResidesById(m, l) /\ RingById(m, l) = RingById(n, l)
    <3>1. m \in RingById(n, l)
      BY <2>0, <2>1, PeersById
    <3>2. QED BY <3>1, SameRing
  <2>3. /\ peer_list(n, l) = FormStructure(n, hash)[l + 1].peer_list
        /\ peer_list(m, l) = FormStructure(m, hash)[l + 1].peer_list
    BY <2>1, <2>2 DEF peer_list, tables, FormedTables, StructureInv
  <2>4. /\ peer_list(n, l) \in Seq(Node) /\ Len(peer_list(n, l)) = Size(l)
        /\ \A i \in 1 .. Size(l) : /\ peer_list(n, l)[i] \in RingById(n, l)
                                   /\ Place(peer_list(n, l)[i], l) = i - 1
    BY <2>1, <2>3, ListPlaces
  <2>5. /\ peer_list(m, l) \in Seq(Node) /\ Len(peer_list(m, l)) = Size(l)
        /\ \A i \in 1 .. Size(l) : /\ peer_list(m, l)[i] \in RingById(n, l)
                                   /\ Place(peer_list(m, l)[i], l) = i - 1
    BY <2>1, <2>2, <2>3, ListPlaces
  <2>6. \A i \in 1 .. Size(l) : peer_list(m, l)[i] = peer_list(n, l)[i]
    BY <2>1, <2>4, <2>5, PlacesDiffer
  <2>7. QED BY <2>4, <2>5, <2>6
<1>2. QED BY <1>1, StructureInvariance, PTL

=============================================================================
