------------------------- MODULE EvalTables_proofs --------------------------
(***************************************************************************)
(* What create_hgfr_table makes of a whole node list, next to what         *)
(* form_structure makes of the command line, for every shape whose rings   *)
(* have equally many contact nodes, and every hash order: the same rings up*)
(* to the city's, another one above it, and country rings that their       *)
(* members do not agree about; and what becomes of the rings when nodes are*)
(* missing in the list.                                                    *)
(***************************************************************************)
EXTENDS EvalTables, RingStructure_proofs

-----------------------------------------------------------------------------
(***************************************************************************)
(* A whole list keeps everything.                                          *)
(***************************************************************************)
\* Counting reaches every number.
LEMMA Counting ==
    ASSUME NEW S, 0 \in S, \A k \in Nat : k \in S => k + 1 \in S
    PROVE  Nat \subseteq S
<1> DEFINE B == Nat \ S
<1> SUFFICES ASSUME B # {} PROVE FALSE
  OBVIOUS
<1>1. B \subseteq Nat
  OBVIOUS
<1>2. Min(B) \in B /\ \A y \in B : Min(B) <= y
  <2> HIDE DEF B
  <2> QED BY <1>1, LeastNatural
<1>3. PICK m \in B : \A y \in B : m <= y
  <2> HIDE DEF B
  <2> QED BY <1>2
<1>4. m \in Nat \ {0} /\ m - 1 \in Nat /\ (m - 1) + 1 = m
  BY <1>3
<1>5. m - 1 \in B
  BY <1>3, <1>4
<1>6. QED BY <1>3, <1>4, <1>5

\* Where everything is kept, what was looked at is what is kept.
LEMMA AllKept ==
    ASSUME NEW X, NEW s \in Seq(X), NEW S, X \subseteq S
    PROVE  Among(s, S) = s
<1> DEFINE Keep(t, a) == IF a \in S THEN Append(t, a) ELSE t
           P(f) == f = [i \in 0 .. Len(s) |->
                           IF i = 0 THEN <<>>
                           ELSE IF s[i] \in S THEN Append(f[i - 1], s[i]) ELSE f[i - 1]]
           F == CHOOSE f : P(f)
           g == [i \in 0 .. Len(s) |-> SubSeq(s, 1, i)]
           T == {k \in Nat : k <= Len(s) => F[k] = SubSeq(s, 1, k)}
<1>1. Among(s, S) = F[Len(s)]
  BY DEF Among
<1>2. /\ Len(s) \in Nat /\ SubSeq(s, 1, 0) = <<>> /\ SubSeq(s, 1, Len(s)) = s
      /\ \A i \in 1 .. Len(s) : s[i] \in S
  OBVIOUS
<1>3. \A k \in 1 .. Len(s) : SubSeq(s, 1, k) = Append(SubSeq(s, 1, k - 1), s[k])
  <2> SUFFICES ASSUME NEW k \in 1 .. Len(s)
               PROVE  SubSeq(s, 1, k) = Append(SubSeq(s, 1, k - 1), s[k])
    OBVIOUS
  <2> QED OBVIOUS
<1>4. P(g)
  <2>1. ASSUME NEW i \in 0 .. Len(s)
        PROVE  g[i] = IF i = 0 THEN <<>>
                      ELSE IF s[i] \in S THEN Append(g[i - 1], s[i]) ELSE g[i - 1]
    <3>1. CASE i = 0
      BY <1>2, <3>1
    <3>2. CASE i # 0
      <4>1. i \in 1 .. Len(s) /\ i - 1 \in 0 .. Len(s)
        BY <1>2, <3>2
      <4>2. g[i] = SubSeq(s, 1, i) /\ g[i - 1] = SubSeq(s, 1, i - 1)
        BY <4>1
      <4> HIDE DEF g
      <4>3. QED BY <1>2, <1>3, <3>2, <4>1, <4>2
    <3>3. QED BY <3>1, <3>2
  <2>2. g = [i \in 0 .. Len(s) |-> g[i]]
    OBVIOUS
  <2> HIDE DEF g
  <2>3. QED BY <2>1, <2>2
<1>5. P(F)
  <2> HIDE DEF g, P
  <2> QED BY <1>4
<1> HIDE DEF F
<1>6. 0 \in T
  BY <1>2, <1>5
<1>7. ASSUME NEW k \in Nat, k \in T PROVE k + 1 \in T
  <2> SUFFICES ASSUME k + 1 <= Len(s) PROVE F[k + 1] = SubSeq(s, 1, k + 1)
    <3> HIDE DEF P
    <3> QED OBVIOUS
  <2>1. k + 1 \in 1 .. Len(s) /\ (k + 1) - 1 = k /\ F[k] = SubSeq(s, 1, k)
    BY <1>2, <1>7
  <2>2. F[k + 1] = Append(F[k], s[k + 1])
    BY <1>2, <1>5, <2>1
  <2>3. QED BY <1>3, <2>1, <2>2
<1>8. Nat \subseteq T
  <2> HIDE DEF T
  <2> QED BY <1>6, <1>7, Counting
<1>9. QED BY <1>1, <1>2, <1>8

\* One entry more at the end.
LEMMA OneMore ==
    ASSUME NEW X, NEW t \in Seq(X), NEW a \in X
    PROVE  Append(t, a) \in Seq(X) /\ ToSet(Append(t, a)) = ToSet(t) \cup {a}
<1>1. /\ Len(t) \in Nat /\ DOMAIN t = 1 .. Len(t)
      /\ Append(t, a) \in Seq(X) /\ DOMAIN Append(t, a) = 1 .. Len(t) + 1
      /\ \A i \in 1 .. Len(t) : Append(t, a)[i] = t[i]
      /\ Append(t, a)[Len(t) + 1] = a
  OBVIOUS
<1>2. 1 .. Len(t) + 1 = (1 .. Len(t)) \cup {Len(t) + 1}
  BY <1>1
<1>3. QED BY <1>1, <1>2 DEF ToSet

\* f[i] is what is kept of the first i entries, as far as k.
Keeps(f, k, s, S) ==
    f = [i \in 0 .. k |->
            IF i = 0 THEN <<>>
            ELSE IF s[i] \in S THEN Append(f[i - 1], s[i])
            ELSE f[i - 1]]

LEMMA KeepsExist ==
    ASSUME NEW s, NEW S, NEW k \in Nat
    PROVE  \E f : Keeps(f, k, s, S)
<1> DEFINE Next(t, a) == IF a \in S THEN Append(t, a) ELSE t
           P(f, j) == f = [i \in 0 .. j |-> IF i = 0 THEN <<>> ELSE Next(f[i - 1], s[i])]
           T == {j \in Nat : \E f : P(f, j)}
<1>1. \A f, j : Keeps(f, j, s, S) <=> P(f, j)
  BY DEF Keeps
<1> HIDE DEF Next
<1>2. 0 \in T
  <2>1. P([i \in 0 .. 0 |-> <<>>], 0)
    OBVIOUS
  <2>2. QED BY <2>1
<1>3. ASSUME NEW j \in Nat, j \in T PROVE j + 1 \in T
  <2>1. PICK f : P(f, j)
    BY <1>3
  <2>2. \A i \in 0 .. j : f[i] = IF i = 0 THEN <<>> ELSE Next(f[i - 1], s[i])
    BY <2>1
  <2> DEFINE g == [i \in 0 .. j + 1 |-> IF i = j + 1 THEN Next(f[j], s[j + 1]) ELSE f[i]]
  <2>3. ASSUME NEW i \in 0 .. j + 1
        PROVE  g[i] = IF i = 0 THEN <<>> ELSE Next(g[i - 1], s[i])
    <3>1. CASE i = j + 1
      <4>1. i # 0 /\ i - 1 = j /\ j \in 0 .. j + 1 /\ j # j + 1
        BY <3>1
      <4>2. g[i] = Next(f[j], s[j + 1]) /\ g[j] = f[j]
        BY <3>1, <4>1
      <4> HIDE DEF g
      <4>3. QED BY <3>1, <4>1, <4>2
    <3>2. CASE i # j + 1
      <4>1. i \in 0 .. j /\ g[i] = f[i]
        BY <3>2
      <4>2. i # 0 => i - 1 \in 0 .. j + 1 /\ i - 1 # j + 1
        BY <4>1
      <4>3. i # 0 => g[i - 1] = f[i - 1]
        BY <4>2
      <4> HIDE DEF g
      <4>4. QED BY <2>2, <4>1, <4>3
    <3>3. QED BY <3>1, <3>2
  <2>4. P(g, j + 1)
    <3>1. g = [i \in 0 .. j + 1 |-> g[i]]
      OBVIOUS
    <3> HIDE DEF g
    <3>2. QED BY <2>3, <3>1
  <2> HIDE DEF g, P
  <2>5. QED BY <2>4
<1>4. Nat \subseteq T
  <2> HIDE DEF T
  <2> QED BY <1>2, <1>3, Counting
<1>5. QED BY <1>1, <1>4

\* What is kept are the members.
LEMMA MembersKept ==
    ASSUME NEW X, NEW s \in Seq(X), NEW S
    PROVE  Among(s, S) \in Seq(X) /\ ToSet(Among(s, S)) = ToSet(s) \cap S
<1> DEFINE P(f) == f = [i \in 0 .. Len(s) |->
                           IF i = 0 THEN <<>>
                           ELSE IF s[i] \in S THEN Append(f[i - 1], s[i]) ELSE f[i - 1]]
           F == CHOOSE f : P(f)
           First(k) == {s[i] : i \in 1 .. k}
           Right(k) == F[k] \in Seq(X) /\ ToSet(F[k]) = First(k) \cap S
           T == {k \in Nat : k <= Len(s) => Right(k)}
<1>1. Among(s, S) = F[Len(s)]
  BY DEF Among
<1>2. Len(s) \in Nat /\ (\A i \in 1 .. Len(s) : s[i] \in X) /\ ToSet(s) = First(Len(s))
  BY DEF ToSet
<1>3. P(F)
  <2>1. \E f : Keeps(f, Len(s), s, S)
    BY <1>2, KeepsExist
  <2>2. \A f : Keeps(f, Len(s), s, S) <=> P(f)
    BY DEF Keeps
  <2> HIDE DEF P
  <2>3. QED BY <2>1, <2>2
<1> HIDE DEF F
<1>4. \A i \in 0 .. Len(s) :
        F[i] = IF i = 0 THEN <<>>
               ELSE IF s[i] \in S THEN Append(F[i - 1], s[i]) ELSE F[i - 1]
  BY <1>3
<1>5. 0 \in T
  <2>1. F[0] = <<>> /\ First(0) = {}
    BY <1>2, <1>4
  <2>2. ToSet(<<>>) = {}
    BY DEF ToSet
  <2> HIDE DEF First, P
  <2>3. Right(0)
    BY <2>1, <2>2
  <2> HIDE DEF Right
  <2>4. QED BY <2>3
<1>6. ASSUME NEW k \in Nat, k \in T PROVE k + 1 \in T
  <2> SUFFICES ASSUME k + 1 <= Len(s) PROVE Right(k + 1)
    <3> HIDE DEF Right
    <3> QED OBVIOUS
  <2>1. k + 1 \in 1 .. Len(s) /\ (k + 1) - 1 = k /\ Right(k)
    <3> HIDE DEF Right
    <3>1. k + 1 \in 1 .. Len(s) /\ (k + 1) - 1 = k /\ k <= Len(s)
      BY <1>2
    <3>2. QED BY <1>6, <3>1
  <2>2. F[k + 1] = IF s[k + 1] \in S THEN Append(F[k], s[k + 1]) ELSE F[k]
    <3>1. k + 1 \in 0 .. Len(s) /\ k + 1 # 0
      BY <1>2, <2>1
    <3>2. QED BY <1>4, <2>1, <3>1
  <2>3. First(k + 1) = First(k) \cup {s[k + 1]}
    <3>1. 1 .. k + 1 = (1 .. k) \cup {k + 1}
      OBVIOUS
    <3>2. QED BY <3>1
  <2>4. s[k + 1] \in X
    BY <1>2, <2>1
  <2> HIDE DEF First, P
  <2>5. CASE s[k + 1] \in S
    <3>1. /\ Append(F[k], s[k + 1]) \in Seq(X)
          /\ ToSet(Append(F[k], s[k + 1])) = ToSet(F[k]) \cup {s[k + 1]}
      BY <2>1, <2>4, OneMore
    <3>2. QED BY <2>1, <2>2, <2>3, <2>5, <3>1
  <2>6. CASE s[k + 1] \notin S
    BY <2>1, <2>2, <2>3, <2>6
  <2>7. QED BY <2>5, <2>6
<1>7. Nat \subseteq T
  <2> HIDE DEF T
  <2> QED BY <1>5, <1>6, Counting
<1>8. Right(Len(s))
  <2> HIDE DEF Right
  <2> QED BY <1>2, <1>7
<1>9. QED BY <1>1, <1>2, <1>8

\* A list from which nobody is missing, and a map that is empty yet.
LEMMA WholeList ==
    ASSUME NEW s \in Seq(Node)
    PROVE  Listed(s, Node) = s /\ Among(s, Node \ ToSet(<<>>)) = s
<1>1. ToSet(<<>>) = {}
  BY DEF ToSet
<1>2. Node \subseteq Node \ ToSet(<<>>)
  BY <1>1
<1>3. QED BY <1>2, AllKept DEF Listed

\* Whom a ring gets when a list's nodes are transplanted into all its regions.
LEMMA Transplanted ==
    ASSUME NEW n \in Node, NEW l \in 1 .. Top, NEW list \in Seq(Node), list # <<>>
    PROVE  /\ RingPeers(n, l, list) \in Seq(Node)
           /\ ToSet(RingPeers(n, l, list)) =
                {m \in Node : \E x \in ToSet(list) :
                    /\ \A d \in 0 .. l - 1 : m[d] = x[d]
                    /\ \A d \in l + 1 .. Top : m[d] = n[d]}
           /\ FirstOf(RingPeers(n, l, list), Len(list)) \in Seq(Node)
           /\ ToSet(FirstOf(RingPeers(n, l, list), Len(list))) =
                {m \in ToSet(RingPeers(n, l, list)) : m[l] = 0}
<1> DEFINE c == Len(list)
           s == RingPeers(n, l, list)
           size == Width(l) * c
           source(i) == ((i - 1) % c) + 1
           number(i) == (i - 1) \div c
           id(i) == [d \in 0 .. Top |-> IF d < l THEN list[source(i)][d]
                                        ELSE IF d = l THEN number(i) ELSE n[d]]
<1>0. /\ Top \in 0 .. 5 /\ l \in 0 .. Top /\ Width(l) \in Nat /\ c \in Nat \ {0}
      /\ \A i \in 1 .. c : list[i] \in Node
  <2>1. Top \in 0 .. 5 /\ l \in 0 .. Top
    BY TopType
  <2>2. Width(l) \in Nat
    BY <2>1, WidthType
  <2>3. QED BY <2>1, <2>2
<1> HIDE DEF c
<1>1. size \in Nat
  BY <1>0, ProductGrows
<1>2. \A i \in 1 .. size : source(i) \in 1 .. c /\ number(i) \in 0 .. Width(l) - 1
  <2> SUFFICES ASSUME NEW i \in 1 .. size
               PROVE  source(i) \in 1 .. c /\ number(i) \in 0 .. Width(l) - 1
    OBVIOUS
  <2>1. i - 1 \in Nat /\ i - 1 < size
    BY <1>1
  <2>2. /\ number(i) \in Nat /\ (i - 1) % c \in 0 .. c - 1
        /\ i - 1 = number(i) * c + ((i - 1) % c)
    BY <1>0, <2>1, DivMod
  <2>3. ~ Width(l) <= number(i)
    <3> SUFFICES ASSUME Width(l) <= number(i) PROVE FALSE
      OBVIOUS
    <3> DEFINE q == number(i)
               r == (i - 1) % c
               units == q * c
    <3>1. q \in Nat /\ r \in 0 .. c - 1 /\ i - 1 = units + r /\ Width(l) <= q
      BY <2>2
    <3> HIDE DEF q, r, number
    <3>2. size <= units /\ units \in Nat
      BY <1>0, <3>1, ProductGrows
    <3> HIDE DEF units, size
    <3>3. QED BY <1>0, <1>1, <2>1, <3>1, <3>2
  <2>4. QED BY <1>0, <2>2, <2>3
<1>3. \A i \in 1 .. size :
        /\ id(i) \in Node /\ id(i)[l] = number(i)
        /\ \A d \in 0 .. l - 1 : id(i)[d] = list[source(i)][d]
        /\ \A d \in l + 1 .. Top : id(i)[d] = n[d]
  <2> SUFFICES ASSUME NEW i \in 1 .. size
               PROVE  /\ id(i) \in Node /\ id(i)[l] = number(i)
                      /\ \A d \in 0 .. l - 1 : id(i)[d] = list[source(i)][d]
                      /\ \A d \in l + 1 .. Top : id(i)[d] = n[d]
    OBVIOUS
  <2> DEFINE from == list[source(i)]
             own == number(i)
  <2>1. from \in Node /\ own \in 0 .. Width(l) - 1
    BY <1>0, <1>2
  <2>2. id(i) = [d \in 0 .. Top |-> IF d < l THEN from[d]
                                    ELSE IF d = l THEN own ELSE n[d]]
    OBVIOUS
  <2> HIDE DEF from, own, id
  <2>3. \A d \in 0 .. Top : /\ from[d] \in Nat /\ from[d] < Width(d)
                            /\ n[d] \in Nat /\ n[d] < Width(d)
    BY <2>1, Digits
  <2>4. id(i) \in [0 .. Top -> Nat] /\ \A d \in 0 .. Top : id(i)[d] < Width(d)
    BY <1>0, <2>1, <2>2, <2>3
  <2>5. id(i) \in Node
    BY <2>4, NodeIds
  <2>6. /\ \A d \in 0 .. l - 1 : id(i)[d] = from[d]
        /\ id(i)[l] = own
        /\ \A d \in l + 1 .. Top : id(i)[d] = n[d]
    BY <1>0, <2>2
  <2>7. QED BY <2>5, <2>6 DEF from, own
<1>4. s = [i \in 1 .. size |-> id(i)]
  BY DEF RingPeers, c
<1> HIDE DEF s, id, number, source
<1>5. s \in Seq(Node) /\ DOMAIN s = 1 .. size
  <2> HIDE DEF size
  <2> QED BY <1>1, <1>3, <1>4
<1>6. ToSet(s) = {id(i) : i \in 1 .. size}
  <2> HIDE DEF size
  <2> QED BY <1>4, <1>5 DEF ToSet
<1>7. ASSUME NEW i \in 1 .. size
      PROVE  \E x \in ToSet(list) : /\ \A d \in 0 .. l - 1 : id(i)[d] = x[d]
                                    /\ \A d \in l + 1 .. Top : id(i)[d] = n[d]
  <2>1. source(i) \in 1 .. Len(list)
    BY <1>2 DEF c
  <2>2. list[source(i)] \in ToSet(list)
    BY <2>1, Entries
  <2>3. QED BY <1>3, <2>2
<1>8. ASSUME NEW m \in Node, NEW x \in ToSet(list),
             \A d \in 0 .. l - 1 : m[d] = x[d],
             \A d \in l + 1 .. Top : m[d] = n[d]
      PROVE  \E i \in 1 .. size : id(i) = m /\ number(i) = m[l]
  <2>1. PICK j \in 1 .. c : list[j] = x
    BY Entries DEF c
  <2>2. m[l] \in Nat /\ m[l] < Width(l) /\ m \in [0 .. Top -> Nat]
    BY <1>0, Digits
  <2> DEFINE base == m[l] * c
             i == base + (j - 1) + 1
  <2>3. base \in Nat /\ base + c <= size
    <3> DEFINE q == m[l]
               w == Width(l)
    <3>1. q \in Nat /\ w \in Nat /\ q + 1 <= w
      BY <1>0, <2>2
    <3> HIDE DEF q, w
    <3>2. (q + 1) * c <= w * c /\ (q + 1) * c = q * c + c /\ q * c \in Nat
      BY <1>0, <3>1, ProductGrows
    <3>3. QED BY <3>2 DEF q, w
  <2>4. i \in 1 .. size /\ i - 1 = base + (j - 1)
    <3> HIDE DEF base, size
    <3> QED BY <1>0, <1>1, <2>3
  <2>5. number(i) = m[l] /\ source(i) = j
    <3>1. i - 1 = m[l] * c + (j - 1) /\ i - 1 \in Nat /\ j - 1 \in 0 .. c - 1
      BY <1>0, <2>3, <2>4
    <3> HIDE DEF i
    <3>2. (i - 1) \div c = m[l] /\ (i - 1) % c = j - 1
      BY <1>0, <2>2, <3>1, DivUnique
    <3>3. QED BY <1>0, <3>2 DEF number, source
  <2> HIDE DEF i
  <2>6. id(i) \in [0 .. Top -> Nat]
    BY <1>3, <2>4, Digits
  <2>7. /\ id(i)[l] = m[l]
        /\ \A d \in 0 .. l - 1 : id(i)[d] = m[d]
        /\ \A d \in l + 1 .. Top : id(i)[d] = m[d]
    BY <1>3, <1>8, <2>1, <2>4, <2>5
  <2>8. \A d \in 0 .. Top : id(i)[d] = m[d]
    <3>1. \A d \in 0 .. Top : d = l \/ d \in 0 .. l - 1 \/ d \in l + 1 .. Top
      BY <1>0
    <3>2. QED BY <2>7, <3>1
  <2>9. id(i) = m
    BY <2>2, <2>6, <2>8, SameIds
  <2>10. QED BY <2>4, <2>5, <2>9
<1>9. ToSet(s) = {m \in Node : \E x \in ToSet(list) :
                    /\ \A d \in 0 .. l - 1 : m[d] = x[d]
                    /\ \A d \in l + 1 .. Top : m[d] = n[d]}
  <2>1. ToSet(s) \subseteq {m \in Node : \E x \in ToSet(list) :
                    /\ \A d \in 0 .. l - 1 : m[d] = x[d]
                    /\ \A d \in l + 1 .. Top : m[d] = n[d]}
    <3> HIDE DEF size
    <3> QED BY <1>3, <1>6, <1>7
  <2>2. ASSUME NEW m \in Node, \E x \in ToSet(list) :
                    /\ \A d \in 0 .. l - 1 : m[d] = x[d]
                    /\ \A d \in l + 1 .. Top : m[d] = n[d]
        PROVE  m \in ToSet(s)
    BY <1>6, <1>8, <2>2
  <2>3. QED BY <2>1, <2>2
<1>10. c <= size
  <2> DEFINE w == Width(l)
  <2>1. w \in Nat /\ 1 <= w
    <3>1. n[l] \in Nat /\ n[l] < w
      BY <1>0, Digits
    <3>2. QED BY <1>0, <3>1
  <2> HIDE DEF w
  <2>2. 1 * c <= w * c
    BY <1>0, <2>1, ProductGrows
  <2>3. QED BY <1>0, <2>2 DEF w
<1> DEFINE first == FirstOf(s, c)
<1>11. /\ first \in Seq(Node) /\ Len(first) = c
       /\ \A i \in 1 .. c : first[i] = s[i]
  <2>1. Len(s) = size
    <3> HIDE DEF size
    <3> QED BY <1>1, <1>5
  <2> HIDE DEF first, size
  <2>2. QED BY <1>0, <1>5, <1>10, <2>1, FirstEntries DEF first
<1>12. \A i \in 1 .. size : number(i) = 0 <=> i <= c
  <2> SUFFICES ASSUME NEW i \in 1 .. size PROVE number(i) = 0 <=> i <= c
    OBVIOUS
  <2>1. i - 1 \in Nat
    BY <1>1
  <2>2. CASE i <= c
    <3>1. i - 1 = 0 * c + (i - 1) /\ i - 1 \in 0 .. c - 1 /\ 0 \in Nat
      BY <1>0, <2>1, <2>2
    <3>2. (i - 1) \div c = 0
      BY <1>0, <2>1, <3>1, DivUnique
    <3>3. QED BY <2>2, <3>2 DEF number
  <2>3. CASE ~ i <= c
    <3>1. i - 1 = ((i - 1) \div c) * c + ((i - 1) % c) /\ (i - 1) % c \in 0 .. c - 1
      BY <1>0, <2>1, DivMod
    <3>2. (i - 1) \div c # 0
      BY <1>0, <2>1, <2>3, <3>1
    <3>3. QED BY <2>3, <3>2 DEF number
  <2>4. QED BY <2>2, <2>3
<1>13. ToSet(first) = {m \in ToSet(s) : m[l] = 0}
  <2>1. ToSet(first) = {first[i] : i \in 1 .. c}
    <3> HIDE DEF first
    <3> QED BY <1>11 DEF ToSet
  <2>2. \A i \in 1 .. size : s[i] = id(i)
    BY <1>4
  <2>3. 1 .. c \subseteq 1 .. size
    BY <1>0, <1>1, <1>10
  <2> HIDE DEF first, size
  <2>4. ASSUME NEW i \in 1 .. c PROVE first[i] \in ToSet(s) /\ first[i][l] = 0
    <3>1. i \in 1 .. size /\ i <= c
      BY <2>3
    <3>2. first[i] = id(i) /\ id(i)[l] = 0
      BY <1>3, <1>11, <1>12, <2>2, <3>1
    <3>3. QED BY <1>6, <3>1, <3>2
  <2>5. ASSUME NEW m \in ToSet(s), m[l] = 0 PROVE \E i \in 1 .. c : first[i] = m
    <3>1. PICK i \in 1 .. size : id(i) = m
      BY <1>6
    <3>2. number(i) = 0 /\ i \in Nat /\ 1 <= i
      BY <1>1, <1>3, <2>5, <3>1
    <3>3. i \in 1 .. c
      BY <1>0, <1>12, <3>1, <3>2
    <3>4. QED BY <1>11, <2>2, <3>1, <3>3
  <2>6. QED BY <2>1, <2>4, <2>5
<1>14. QED BY <1>5, <1>9, <1>11, <1>13 DEF s, c

LEMMA RingMembers ==
    ASSUME NEW n \in Node, NEW l \in 1 .. Top, NEW list \in Seq(Node), list # <<>>
    PROVE  ToSet(RingPeers(n, l, list)) =
                {m \in Node : \E x \in ToSet(list) :
                    /\ \A d \in 0 .. l - 1 : m[d] = x[d]
                    /\ \A d \in l + 1 .. Top : m[d] = n[d]}
BY Transplanted, ZenonT(30)

-----------------------------------------------------------------------------
(***************************************************************************)
(* create_hgfr_table, level by level.                                      *)
(***************************************************************************)
\* Both return at the same level.
LEMMA LastIsTop == LastLevel = Top /\ Top \in {2, 3, 5}
<1> DEFINE absent == {l \in 1 .. 4 : NumNodes[l] = 0}
<1>1. Top \in 0 .. 5 /\ Top >= 2
  BY TopType, TablesAssumption
<1>2. CASE absent = {}
  BY <1>2 DEF Top, LastLevel
<1>3. CASE absent # {}
  <2>1. Min(absent) \in absent /\ \A y \in absent : Min(absent) <= y
    <3>1. absent \subseteq Nat
      OBVIOUS
    <3> HIDE DEF absent
    <3>2. QED BY <1>3, <3>1, LeastNatural
  <2>2. Top = Min(absent) - 1
    BY <1>3 DEF Top
  <2>3. PICK k \in absent : Top = k - 1 /\ \A y \in absent : k <= y
    <3> HIDE DEF absent
    <3> QED BY <2>1, <2>2
  <2>4. k \in {3, 4} /\ (NumNodes[3] = 0 => k = 3) /\ NumNodes[k] = 0
    BY <1>1, <2>3
  <2>5. QED BY <2>3, <2>4 DEF LastLevel
<1>4. QED BY <1>2, <1>3

\* The recursive function of create_hgfr_table, unrolled.
LEMMA CreatedUnrolled ==
    ASSUME NEW n, NEW h, NEW list
    PROVE  \E g :
              /\ g[0] = FirstListed(n, list)
              /\ \A l \in 1 .. Top : g[l] = NextListed(n, h, l, g[l - 1], list)
              /\ create_hgfr_table(n, h, list) = g[Top].tables
<1> DEFINE f0 == FirstListed(n, list)
           P(f) == f = [l \in 0 .. LastLevel |->
                           IF l = 0 THEN f0 ELSE NextListed(n, h, l, f[l - 1], list)]
           F == CHOOSE f : P(f)
           f1 == NextListed(n, h, 1, f0, list)
           f2 == NextListed(n, h, 2, f1, list)
           f3 == NextListed(n, h, 3, f2, list)
           f4 == NextListed(n, h, 4, f3, list)
           f5 == NextListed(n, h, 5, f4, list)
           g == [l \in 0 .. Top |-> IF l = 0 THEN f0 ELSE IF l = 1 THEN f1
                   ELSE IF l = 2 THEN f2 ELSE IF l = 3 THEN f3
                   ELSE IF l = 4 THEN f4 ELSE f5]
<1>1. Top \in 0 .. 5 /\ LastLevel = Top
  BY TopType, LastIsTop
<1>2. create_hgfr_table(n, h, list) = F[LastLevel].tables
  BY DEF create_hgfr_table
<1> HIDE DEF f0
<1>3. P(g)
  <2> HIDE DEF f1, f2, f3, f4, f5
  <2>1. /\ f1 = NextListed(n, h, 1, f0, list) /\ f2 = NextListed(n, h, 2, f1, list)
        /\ f3 = NextListed(n, h, 3, f2, list) /\ f4 = NextListed(n, h, 4, f3, list)
        /\ f5 = NextListed(n, h, 5, f4, list)
    BY DEF f1, f2, f3, f4, f5
  <2>2. ASSUME NEW l \in 0 .. Top
        PROVE  g[l] = IF l = 0 THEN f0 ELSE NextListed(n, h, l, g[l - 1], list)
    BY <1>1, <2>1
  <2>3. g = [l \in 0 .. Top |-> g[l]]
    OBVIOUS
  <2> HIDE DEF g
  <2>4. QED BY <1>1, <2>2, <2>3
<1> HIDE DEF g
<1>4. P(F)
  <2> HIDE DEF P
  <2>1. QED BY <1>3
<1> HIDE DEF F
<1>5. F[0] = f0
  BY <1>1, <1>4
<1>6. \A l \in 1 .. Top : F[l] = NextListed(n, h, l, F[l - 1], list)
  BY <1>1, <1>4
<1>7. QED BY <1>1, <1>2, <1>5, <1>6 DEF f0

\* The regions counted otherwise are as many where dist and city have as many
\* contacts.
LEMMA PeersAlike ==
    ASSUME NumCnodes[0] = NumCnodes[1], NEW n \in Node, NEW l \in 1 .. Top,
           NEW list \in Seq(Node), list # <<>>
    PROVE  ListedPeers(n, l, list, Node) = RingPeers(n, l, list)
<1>1. ListedWidth(l) = Width(l)
  BY TopType DEF ListedWidth, Width
<1>2. ListedPeers(n, l, list, Node) = Listed(RingPeers(n, l, list), Node)
  BY <1>1 DEF ListedPeers, RingPeers
<1>3. QED BY <1>2, Transplanted, WholeList

\* Who is not in the contacts' list gets no further rings.
LEMMA StopsAlike ==
    ASSUME NEW n, NEW h, NEW l, NEW list
    PROVE  /\ \A s : n \notin ToSet(s.list) => NextLevel(n, h, l, s) = s
           /\ \A b : n \notin ToSet(b.contact_nodes_list) => NextListed(n, h, l, b, list) = b
  BY DEF NextLevel, NextListed

\* What a level adds for a node in the contacts' list.
Adds(n, h, l, b, s) ==
    LET peers == RingPeers(n, l, b.contact_nodes_list)
    IN  /\ \E c : s.tables = Append(b.tables, [peer_list |-> peers, contact_nodes |-> c])
        /\ b.next = <<>> => s.tables = Append(b.tables, Ring(peers, l))
        /\ l = 2 /\ b.next = <<>> =>
            /\ s.contact_nodes_list = b.contact_nodes_list
            /\ s.next = FirstOf(peers, ContactLimit(l))
        /\ l # 2 /\ l # Top =>
            s.contact_nodes_list =
                MapIteration(h[Region(n, l)],
                    b.next \o Among(FirstOf(peers, ContactLimit(l)), Node \ ToSet(b.next)))
        /\ l # 2 /\ b.next = <<>> =>
            /\ s.contact_nodes_list =
                    IF l = Top THEN <<>>
                    ELSE MapIteration(h[Region(n, l)], FirstOf(peers, ContactLimit(l)))
            /\ s.next = <<>>

LEMMA ListedLevel ==
    ASSUME NumCnodes[0] = NumCnodes[1], NEW n \in Node, NEW h, NEW l \in 1 .. Top,
           NEW b, b.contact_nodes_list \in Seq(Node), n \in ToSet(b.contact_nodes_list)
    PROVE  Adds(n, h, l, b, NextListed(n, h, l, b, Node))
<1> DEFINE list == b.contact_nodes_list
           peers == RingPeers(n, l, list)
           first == FirstOf(peers, ContactLimit(l))
           next == b.next \o Among(first, Node \ ToSet(b.next))
           s == NextListed(n, h, l, b, Node)
           r == [peer_list |-> peers, contact_nodes |-> ToSet(next)]
<1>1. list # <<>>
  BY DEF ToSet
<1>2. peers \in Seq(Node) /\ ListedPeers(n, l, list, Node) = peers
  BY <1>1, PeersAlike, Transplanted
<1>3. first \in Seq(Node)
  <2>1. ContactLimit(l) \in Nat
    BY TopType, ShapeAssumption DEF ContactLimit
  <2> HIDE DEF peers
  <2>2. QED BY <1>2, <2>1 DEF FirstOf
<1>4. s = IF Carries(l)
          THEN [tables |-> Append(b.tables, r),
                contact_nodes_list |-> IF l = Top THEN <<>>
                                       ELSE MapIteration(h[Region(n, l)], next),
                next |-> <<>>]
          ELSE [tables |-> Append(b.tables, r), contact_nodes_list |-> list, next |-> next]
  <2>1. LastLevel = Top
    BY LastIsTop
  <2> HIDE DEF peers
  <2>2. QED BY <1>2, <2>1 DEF NextListed
<1> HIDE DEF s
<1>5. b.next = <<>> => next = first
  <2> HIDE DEF first
  <2>1. Among(first, Node \ ToSet(<<>>)) = first
    BY <1>3, WholeList
  <2>2. <<>> \o first = first
    BY <1>3
  <2>3. QED BY <2>1, <2>2
<1>6. b.next = <<>> => r = Ring(peers, l)
  BY <1>5 DEF Ring
<1> HIDE DEF peers, first, next
<1>7. s.tables = Append(b.tables, r)
  BY <1>4
<1>8. l = 2 => s.contact_nodes_list = list /\ s.next = next
  BY <1>4 DEF Carries
<1>9. l # 2 => /\ s.contact_nodes_list = IF l = Top THEN <<>>
                                         ELSE MapIteration(h[Region(n, l)], next)
               /\ s.next = <<>>
  BY <1>4 DEF Carries
<1>10. l # 2 /\ l # Top =>
            s.contact_nodes_list =
                MapIteration(h[Region(n, l)], b.next \o Among(first, Node \ ToSet(b.next)))
  BY <1>9 DEF next
<1>11. QED BY <1>5, <1>6, <1>7, <1>8, <1>9, <1>10 DEF Adds, s, peers, first, r, list

\* u begins with t.
Extends(t, u) ==
    \E X : /\ t \in Seq(X) /\ u \in Seq(X)
           /\ Len(t) <= Len(u) /\ \A i \in 1 .. Len(t) : u[i] = t[i]

LEMMA AppendExtends ==
    ASSUME NEW X, NEW t \in Seq(X), NEW x
    PROVE  /\ Extends(t, Append(t, x))
           /\ Len(Append(t, x)) = Len(t) + 1 /\ Append(t, x)[Len(t) + 1] = x
<1> DEFINE Y == X \cup {x}
<1>1. t \in Seq(Y) /\ x \in Y
  OBVIOUS
<1> HIDE DEF Y
<1>2. /\ Append(t, x) \in Seq(Y) /\ Len(Append(t, x)) = Len(t) + 1
      /\ \A i \in 1 .. Len(t) : Append(t, x)[i] = t[i]
      /\ Append(t, x)[Len(t) + 1] = x
  BY <1>1
<1>3. QED BY <1>1, <1>2 DEF Extends

LEMMA ExtendsItself ==
    ASSUME NEW t, NEW u, Extends(t, u)
    PROVE  Extends(t, t) /\ Extends(u, u)
<1>1. PICK X : t \in Seq(X) /\ u \in Seq(X)
  BY DEF Extends
<1>2. Len(t) <= Len(t) /\ Len(u) <= Len(u)
  BY <1>1
<1>3. QED BY <1>1, <1>2 DEF Extends

LEMMA ExtendsTwice ==
    ASSUME NEW t, NEW u, NEW v, Extends(t, u), Extends(u, v)
    PROVE  Extends(t, v)
<1>1. PICK X : /\ t \in Seq(X) /\ u \in Seq(X)
               /\ Len(t) <= Len(u) /\ \A i \in 1 .. Len(t) : u[i] = t[i]
  BY DEF Extends
<1>2. PICK Y : /\ u \in Seq(Y) /\ v \in Seq(Y)
               /\ Len(u) <= Len(v) /\ \A i \in 1 .. Len(u) : v[i] = u[i]
  BY DEF Extends
<1> DEFINE Z == X \cup Y
<1>3. t \in Seq(Z) /\ v \in Seq(Z)
  BY <1>1, <1>2
<1> HIDE DEF Z
<1>4. Len(t) \in Nat /\ Len(u) \in Nat /\ Len(v) \in Nat
  BY <1>1, <1>2
<1>5. Len(t) <= Len(v) /\ \A i \in 1 .. Len(t) : v[i] = t[i]
  BY <1>1, <1>2, <1>4
<1>6. QED BY <1>3, <1>5 DEF Extends

\* No level takes away the rings of those below.
LEMMA LevelsExtend ==
    ASSUME NEW n, NEW h, NEW l, NEW list
    PROVE  /\ \A s : Extends(s.tables, s.tables) =>
                        Extends(s.tables, NextLevel(n, h, l, s).tables)
           /\ \A b : Extends(b.tables, b.tables) =>
                        Extends(b.tables, NextListed(n, h, l, b, list).tables)
<1>1. ASSUME NEW s, Extends(s.tables, s.tables)
      PROVE  Extends(s.tables, NextLevel(n, h, l, s).tables)
  <2>1. \/ NextLevel(n, h, l, s) = s
        \/ \E x : NextLevel(n, h, l, s).tables = Append(s.tables, x)
    BY DEF NextLevel
  <2>2. \A x : Extends(s.tables, Append(s.tables, x))
    <3>1. PICK X : s.tables \in Seq(X)
      BY <1>1 DEF Extends
    <3>2. QED BY <3>1, AppendExtends
  <2>3. QED BY <1>1, <2>1, <2>2
<1>2. ASSUME NEW b, Extends(b.tables, b.tables)
      PROVE  Extends(b.tables, NextListed(n, h, l, b, list).tables)
  <2>1. \/ NextListed(n, h, l, b, list) = b
        \/ \E x : NextListed(n, h, l, b, list).tables = Append(b.tables, x)
    BY DEF NextListed
  <2>2. \A x : Extends(b.tables, Append(b.tables, x))
    <3>1. PICK X : b.tables \in Seq(X)
      BY <1>2 DEF Extends
    <3>2. QED BY <3>1, AppendExtends
  <2>3. QED BY <1>2, <2>1, <2>2
<1>3. QED BY <1>1, <1>2

\* A level's ring is put behind those there are.
LEMMA OneRingMore ==
    ASSUME NEW n, NEW h, NEW l, NEW b, NEW s, Adds(n, h, l, b, s),
           Extends(b.tables, b.tables)
    PROVE  /\ Extends(b.tables, s.tables) /\ Extends(s.tables, s.tables)
           /\ Len(s.tables) = Len(b.tables) + 1
           /\ s.tables[Len(b.tables) + 1].peer_list = RingPeers(n, l, b.contact_nodes_list)
<1> DEFINE peers == RingPeers(n, l, b.contact_nodes_list)
<1>1. PICK c : s.tables = Append(b.tables, [peer_list |-> peers, contact_nodes |-> c])
  BY DEF Adds
<1>2. PICK X : b.tables \in Seq(X)
  BY DEF Extends
<1> DEFINE x == [peer_list |-> peers, contact_nodes |-> c]
           w == b.tables
<1>3. x.peer_list = peers /\ w \in Seq(X) /\ s.tables = Append(w, x)
  BY <1>1, <1>2
<1> HIDE DEF x, w, peers
<1>4. /\ Extends(w, Append(w, x))
      /\ Len(Append(w, x)) = Len(w) + 1 /\ Append(w, x)[Len(w) + 1] = x
  BY <1>3, AppendExtends
<1>5. Extends(Append(w, x), Append(w, x))
  BY <1>4, ExtendsItself
<1>6. QED BY <1>3, <1>4, <1>5 DEF w, peers

\* Up to the districts' ring a whole list makes no difference.
Alike(s, b) == b.tables = s.tables /\ b.contact_nodes_list = s.list /\ b.next = <<>>

LEMMA FirstAlike ==
    ASSUME NEW n \in Node, NEW s,
           s = [tables |-> <<Ring(DistrictPeers(n), 0)>>,
                list |-> FirstOf(DistrictPeers(n), ContactLimit(0))]
    PROVE  Alike(s, FirstListed(n, Node))
<1> DEFINE district == DistrictPeers(n)
           first == FirstOf(district, ContactLimit(0))
<1>1. district \in Seq(Node) /\ first \in Seq(Node)
  BY DistrictList
<1> HIDE DEF district, first
<1>2. Listed(district, Node) = district /\ Listed(first, Node) = first
  BY <1>1, WholeList
<1>3. first = FirstOf(district, NumCnodes[0])
  BY DEF first, ContactLimit
<1>4. s = [tables |-> <<[peer_list |-> district, contact_nodes |-> ToSet(first)]>>,
           list |-> first]
  BY DEF Ring, district, first
<1>5. FirstListed(n, Node) =
        [tables |-> <<[peer_list |-> district, contact_nodes |-> ToSet(first)]>>,
         contact_nodes_list |-> first, next |-> <<>>]
  BY <1>2, <1>3 DEF FirstListed, district
<1>6. QED BY <1>4, <1>5 DEF Alike

LEMMA ListOfLevel ==
    ASSUME NEW n \in Node, NEW l \in 0 .. Top - 1, NEW s, RightUpTo(n, l, s)
    PROVE  /\ s.list \in Seq(Node)
           /\ n \in ToSet(s.list) <=> ResidesById(n, l + 1)
           /\ n \in ToSet(s.list) => /\ ToSet(s.list) = ContactsById(n, l)
                                    /\ Len(s.list) = Contacts
           /\ Extends(s.tables, s.tables)
           /\ ResidesById(n, l) => Len(s.tables) = l + 1
           /\ Len(s.tables) <= l + 1
<1>0. Top \in 0 .. 5
  BY TopType
<1>1. PICK high \in 0 .. l :
        /\ ResidesById(n, high) /\ (high = l \/ ~ ResidesById(n, high + 1))
        /\ s.tables \in Seq([peer_list : Seq(Node), contact_nodes : SUBSET Node])
        /\ Len(s.tables) = high + 1
        /\ high < Top => /\ s.list \in Seq(Node) /\ Len(s.list) = Contacts
                         /\ ToSet(s.list) = ContactsById(n, high)
  BY DEF RightUpTo
<1>2. /\ high < Top /\ s.list \in Seq(Node) /\ ToSet(s.list) = ContactsById(n, high)
      /\ Len(s.list) = Contacts
  BY <1>0, <1>1
<1>3. n \in ToSet(s.list) <=> ResidesById(n, high + 1)
  BY <1>2, RegionDigits DEF ContactsById
<1>4. ResidesById(n, l + 1) => ResidesById(n, high + 1)
  <2>1. l + 1 \in 0 .. 6 /\ high + 1 \in 0 .. l + 1
    BY <1>0
  <2>2. QED BY <2>1, ResidesDown
<1>5. ResidesById(n, l) => high = l \/ ResidesById(n, high + 1)
  <2>1. CASE high = l
    BY <2>1
  <2>2. CASE high # l
    <3>1. l \in 0 .. 6 /\ high + 1 \in 0 .. l
      BY <1>0, <2>2
    <3>2. QED BY <3>1, ResidesDown
  <2>3. QED BY <2>1, <2>2
<1>6. Extends(s.tables, s.tables)
  BY <1>1 DEF Extends
<1>7. n \in ToSet(s.list) => high = l
  BY <1>1, <1>3
<1>8. n \in ToSet(s.list) <=> ResidesById(n, l + 1)
  BY <1>3, <1>4, <1>7
<1>9. ResidesById(n, l) => Len(s.tables) = l + 1
  BY <1>1, <1>5
<1>10. Len(s.tables) <= l + 1
  BY <1>0, <1>1
<1>11. QED BY <1>2, <1>6, <1>7, <1>8, <1>9, <1>10

LEMMA NextAlike ==
    ASSUME SameLimits, NumCnodes[0] = NumCnodes[1], NEW n \in Node, NEW h,
           NEW l \in {1, 2}, l <= Top,
           NEW s, NEW b, RightUpTo(n, l - 1, s), Alike(s, b)
    PROVE  /\ NextListed(n, h, l, b, Node).tables = NextLevel(n, h, l, s).tables
           /\ l = 1 => Alike(NextLevel(n, h, l, s), NextListed(n, h, l, b, Node))
           /\ l = 2 => NextListed(n, h, l, b, Node).contact_nodes_list = s.list
           /\ l = 2 /\ n \in ToSet(s.list) =>
                NextListed(n, h, l, b, Node).next =
                    FirstOf(RingPeers(n, l, s.list), ContactLimit(l))
<1>0. l \in 1 .. Top /\ l - 1 \in 0 .. Top - 1
  BY TopType
<1>1. b.tables = s.tables /\ b.contact_nodes_list = s.list /\ b.next = <<>>
      /\ s.list \in Seq(Node)
  BY <1>0, ListOfLevel DEF Alike
<1>2. CASE n \notin ToSet(s.list)
  <2>1. NextLevel(n, h, l, s) = s /\ NextListed(n, h, l, b, Node) = b
    BY <1>1, <1>2, StopsAlike
  <2>2. QED BY <1>1, <1>2, <2>1 DEF Alike
<1>3. CASE n \in ToSet(s.list)
  <2> DEFINE peers == RingPeers(n, l, s.list)
             first == FirstOf(peers, ContactLimit(l))
             list == IF l = Top THEN <<>> ELSE MapIteration(h[Region(n, l)], first)
             u == NextListed(n, h, l, b, Node)
  <2>1. NextLevel(n, h, l, s) = [tables |-> Append(s.tables, Ring(peers, l)), list |-> list]
    BY <1>3 DEF NextLevel
  <2>2. /\ u.tables = Append(b.tables, Ring(peers, l))
        /\ l = 2 => u.contact_nodes_list = b.contact_nodes_list /\ u.next = first
        /\ l # 2 => u.contact_nodes_list = list /\ u.next = <<>>
    <3>1. b.contact_nodes_list \in Seq(Node) /\ n \in ToSet(b.contact_nodes_list)
      BY <1>1, <1>3
    <3>2. RingPeers(n, l, b.contact_nodes_list) = peers
      BY <1>1
    <3>3. Adds(n, h, l, b, u)
      BY <1>0, <3>1, ListedLevel
    <3> HIDE DEF u, peers
    <3>4. QED BY <1>1, <3>2, <3>3 DEF Adds
  <2> HIDE DEF u, list
  <2>3. QED BY <1>1, <2>1, <2>2 DEF Alike, u
<1>4. QED BY <1>2, <1>3 DEF Alike

\* The ring above the city ring: the contacts of n's own city, transplanted.
LEMMA CitysRing ==
    ASSUME NEW n \in Node, 3 <= Top, NEW list \in Seq(Node), list # <<>>,
           ToSet(list) = ContactsById(n, 1)
    PROVE  ToSet(RingPeers(n, 3, list)) =
                {m \in Node : ResidesById(m, 2) /\ \A d \in {2} \cup (4 .. Top) : m[d] = n[d]}
<1>0. Top \in 3 .. 5 /\ 3 \in 1 .. Top
  BY TopType
<1>1. \A x : x \in ContactsById(n, 1) <=>
            x \in Node /\ (\A d \in 2 .. Top : x[d] = n[d]) /\ x[0] < Contacts /\ x[1] = 0
  <2>1. \A x : ResidesById(x, 2) <=> x[0] < Contacts /\ x[1] = 0
    BY DEF ResidesById
  <2>2. QED BY <2>1, RegionDigits DEF ContactsById
<1>2. ToSet(RingPeers(n, 3, list)) =
        {m \in Node : \E x \in ContactsById(n, 1) :
            /\ \A d \in 0 .. 2 : m[d] = x[d]
            /\ \A d \in 4 .. Top : m[d] = n[d]}
  <2>1. 0 .. 3 - 1 = 0 .. 2 /\ 3 + 1 .. Top = 4 .. Top
    BY <1>0
  <2>2. ToSet(RingPeers(n, 3, list)) =
            {m \in Node : \E x \in ToSet(list) :
                /\ \A d \in 0 .. 3 - 1 : m[d] = x[d]
                /\ \A d \in 3 + 1 .. Top : m[d] = n[d]}
    BY <1>0, RingMembers
  <2>3. QED BY <2>1, <2>2
<1>3. ASSUME NEW m \in Node, NEW x \in ContactsById(n, 1),
             \A d \in 0 .. 2 : m[d] = x[d], \A d \in 4 .. Top : m[d] = n[d]
      PROVE  ResidesById(m, 2) /\ \A d \in {2} \cup (4 .. Top) : m[d] = n[d]
  <2>1. m[0] < Contacts /\ m[1] = 0 /\ m[2] = n[2]
    BY <1>0, <1>1, <1>3
  <2>2. QED BY <1>3, <2>1 DEF ResidesById
<1>4. ASSUME NEW m \in Node, ResidesById(m, 2),
             \A d \in {2} \cup (4 .. Top) : m[d] = n[d]
      PROVE  \E x \in ContactsById(n, 1) : /\ \A d \in 0 .. 2 : m[d] = x[d]
                                           /\ \A d \in 4 .. Top : m[d] = n[d]
  <2> DEFINE x == [d \in 0 .. Top |-> IF d < 2 THEN m[d] ELSE n[d]]
  <2>1. x \in Node
    <3>1. \A d \in 0 .. Top : /\ m[d] \in Nat /\ m[d] < Width(d)
                              /\ n[d] \in Nat /\ n[d] < Width(d)
      BY Digits
    <3>2. x \in [0 .. Top -> Nat] /\ \A d \in 0 .. Top : x[d] < Width(d)
      BY <3>1
    <3> HIDE DEF x
    <3>3. QED BY <3>2, NodeIds
  <2>2. x[0] = m[0] /\ x[1] = m[1] /\ \A d \in 2 .. Top : x[d] = n[d]
    BY <1>0
  <2> HIDE DEF x
  <2>3. m[0] < Contacts /\ m[1] = 0 /\ m[2] = n[2]
    BY <1>4 DEF ResidesById
  <2>4. x \in ContactsById(n, 1)
    BY <1>1, <2>1, <2>2, <2>3
  <2>5. \A d \in 0 .. 2 : m[d] = x[d]
    BY <1>0, <2>2, <2>3
  <2>6. QED BY <1>4, <2>4, <2>5
<1>5. QED BY <1>2, <1>3, <1>4

\* Who is in the country ring of n: the contacts of city 0 of its own state, and
\* those of its own city number in state 0.
CountryRing(n) ==
    {m \in Node : /\ ResidesById(m, 2)
                  /\ \/ m[2] = 0 /\ m[3] = n[3]
                     \/ m[3] = 0 /\ m[2] = n[2]
                  /\ \A d \in 5 .. Top : m[d] = n[d]}

\* list holds whom the state level hands on to n: those of the ring in n's country.
HandsOn(n, list) ==
    \A m : m \in ToSet(list) <=> m \in CountryRing(n) /\ m[4] = n[4]

LEMMA Joined ==
    ASSUME NEW X, NEW s \in Seq(X), NEW t \in Seq(X)
    PROVE  s \o t \in Seq(X) /\ ToSet(s \o t) = ToSet(s) \cup ToSet(t)
<1>1. /\ Len(s) \in Nat /\ DOMAIN s = 1 .. Len(s)
      /\ Len(t) \in Nat /\ DOMAIN t = 1 .. Len(t)
      /\ s \o t \in Seq(X) /\ DOMAIN (s \o t) = 1 .. Len(s) + Len(t)
      /\ \A i \in 1 .. Len(s) : (s \o t)[i] = s[i]
      /\ \A i \in 1 .. Len(t) : (s \o t)[Len(s) + i] = t[i]
  OBVIOUS
<1>2. \A i \in 1 .. Len(s) + Len(t) :
        i \in 1 .. Len(s) \/ \E j \in 1 .. Len(t) : i = Len(s) + j
  <2> SUFFICES ASSUME NEW i \in 1 .. Len(s) + Len(t), i \notin 1 .. Len(s)
               PROVE  \E j \in 1 .. Len(t) : i = Len(s) + j
    OBVIOUS
  <2>1. i - Len(s) \in 1 .. Len(t) /\ i = Len(s) + (i - Len(s))
    BY <1>1
  <2>2. QED BY <2>1
<1>3. \A i \in 1 .. Len(s) : i \in 1 .. Len(s) + Len(t)
  BY <1>1
<1>4. \A i \in 1 .. Len(t) : Len(s) + i \in 1 .. Len(s) + Len(t)
  BY <1>1
<1>5. ToSet(s \o t) = {(s \o t)[i] : i \in 1 .. Len(s) + Len(t)}
  BY <1>1 DEF ToSet
<1>6. ToSet(s) = {s[i] : i \in 1 .. Len(s)} /\ ToSet(t) = {t[i] : i \in 1 .. Len(t)}
  BY <1>1 DEF ToSet
<1>7. \A x : x \in ToSet(s \o t) => x \in ToSet(s) \cup ToSet(t)
  BY <1>1, <1>2, <1>5, <1>6
<1>8. \A x : x \in ToSet(s) => x \in ToSet(s \o t)
  BY <1>1, <1>3, <1>5, <1>6
<1>9. \A x : x \in ToSet(t) => x \in ToSet(s \o t)
  BY <1>1, <1>4, <1>5, <1>6
<1>10. QED BY <1>1, <1>7, <1>8, <1>9

\* What the state level hands on: its own contacts and those left from below.
LEMMA HandedOn ==
    ASSUME SameLimits, NumCnodes[0] = NumCnodes[1], NEW n \in Node, NEW h,
           Top = 5, ResidesById(n, 2),
           NEW list \in Seq(Node), Len(list) = Contacts, ToSet(list) = ContactsById(n, 1),
           NEW a, a.contact_nodes_list = list,
           a.next = FirstOf(RingPeers(n, 2, list), ContactLimit(2)),
           NEW b, b = NextListed(n, h, 3, a, Node)
    PROVE  /\ b.contact_nodes_list \in Seq(Node)
           /\ HandsOn(n, b.contact_nodes_list)
<1> DEFINE peers == RingPeers(n, 3, list)
           first == FirstOf(peers, ContactLimit(3))
           rest == Among(first, Node \ ToSet(a.next))
           all == a.next \o rest
<1>1. n \in ToSet(list) /\ list # <<>>
  <2>1. n \in ToSet(list)
    BY RegionDigits DEF ContactsById
  <2>2. QED BY <2>1 DEF ToSet
<1>2. 3 \in 1 .. Top /\ 2 \in 1 .. Top /\ 2 - 1 = 1
  OBVIOUS
<1>3. Adds(n, h, 3, a, b)
  BY <1>1, <1>2, ListedLevel
<1>4. b.contact_nodes_list = MapIteration(h[Region(n, 3)], all)
  BY <1>3 DEF Adds
<1>5. ContactLimit(3) = Len(list)
  BY <1>2 DEF SameLimits
<1>6. /\ first \in Seq(Node) /\ ToSet(first) = {m \in ToSet(peers) : m[3] = 0}
      /\ ToSet(peers) = {m \in Node : ResidesById(m, 2)
                                       /\ \A d \in {2} \cup (4 .. Top) : m[d] = n[d]}
  <2>1. first = FirstOf(RingPeers(n, 3, list), Len(list))
    BY <1>5
  <2>2. /\ FirstOf(RingPeers(n, 3, list), Len(list)) \in Seq(Node)
        /\ ToSet(FirstOf(RingPeers(n, 3, list), Len(list))) =
                {m \in ToSet(RingPeers(n, 3, list)) : m[3] = 0}
    BY <1>1, <1>2, Transplanted
  <2>3. 3 <= Top
    OBVIOUS
  <2>4. ToSet(peers) = {m \in Node : ResidesById(m, 2)
                                       /\ \A d \in {2} \cup (4 .. Top) : m[d] = n[d]}
    BY <1>1, <2>3, CitysRing
  <2> HIDE DEF first
  <2>5. QED BY <2>1, <2>2, <2>4
<1>7. a.next \in Seq(Node) /\ ToSet(a.next) = ContactsById(n, 2)
  BY <1>2, RingList
<1> HIDE DEF first, peers
<1>8. rest \in Seq(Node) /\ ToSet(rest) = ToSet(first) \cap (Node \ ToSet(a.next))
  BY <1>6, MembersKept
<1> HIDE DEF rest
<1>9. all \in Seq(Node) /\ ToSet(all) = ToSet(a.next) \cup ToSet(rest)
  BY <1>7, <1>8, Joined
<1> HIDE DEF all
<1>10. b.contact_nodes_list \in Seq(Node) /\ ToSet(b.contact_nodes_list) = ToSet(all)
  BY <1>4, <1>9, IterationPermutes
<1>11. ToSet(all) = ContactsById(n, 2) \cup ToSet(first)
  <2>1. ToSet(first) \subseteq Node
    BY <1>6
  <2>2. QED BY <1>7, <1>8, <1>9, <2>1
<1>12. \A m : m \in ContactsById(n, 2) <=>
            m \in Node /\ ResidesById(m, 2) /\ m[2] = 0 /\ m[3] = n[3]
                /\ m[4] = n[4] /\ m[5] = n[5]
  <2>1. \A m : ResidesById(m, 3) <=> ResidesById(m, 2) /\ m[2] = 0
    BY DEF ResidesById
  <2>2. \A m : m \in SameRegion(n, 2) <=>
            m \in Node /\ m[3] = n[3] /\ m[4] = n[4] /\ m[5] = n[5]
    <3>1. 2 + 1 .. Top = {3, 4, 5}
      OBVIOUS
    <3>2. QED BY <3>1, RegionDigits
  <2>3. QED BY <2>1, <2>2 DEF ContactsById
<1>13. \A m : m \in ToSet(first) <=>
            m \in Node /\ ResidesById(m, 2) /\ m[3] = 0 /\ m[2] = n[2]
                /\ m[4] = n[4] /\ m[5] = n[5]
  <2>1. {2} \cup (4 .. Top) = {2, 4, 5}
    OBVIOUS
  <2>2. QED BY <1>6, <2>1
<1>14. \A m : m \in CountryRing(n) <=>
            /\ m \in Node /\ ResidesById(m, 2) /\ m[5] = n[5]
            /\ (m[2] = 0 /\ m[3] = n[3]) \/ (m[3] = 0 /\ m[2] = n[2])
  <2>1. 5 .. Top = {5}
    OBVIOUS
  <2>2. QED BY <2>1 DEF CountryRing
<1>15. QED BY <1>10, <1>11, <1>12, <1>13, <1>14 DEF HandsOn

\* Whom the country level gets.
LEMMA FourthRing ==
    ASSUME NEW n \in Node, 4 <= Top, NEW list \in Seq(Node), list # <<>>
    PROVE  ToSet(RingPeers(n, 4, list)) =
                {m \in Node : \E x \in ToSet(list) :
                    /\ \A d \in 0 .. 3 : m[d] = x[d]
                    /\ \A d \in 5 .. Top : m[d] = n[d]}
<1>1. 4 \in 1 .. Top /\ 0 .. 4 - 1 = 0 .. 3 /\ 4 + 1 .. Top = 5 .. Top
  BY TopType
<1>2. ToSet(RingPeers(n, 4, list)) =
            {m \in Node : \E x \in ToSet(list) :
                /\ \A d \in 0 .. 4 - 1 : m[d] = x[d]
                /\ \A d \in 4 + 1 .. Top : m[d] = n[d]}
  BY <1>1, RingMembers
<1>3. QED BY <1>1, <1>2

\* The country ring itself.
LEMMA CountryOf ==
    ASSUME NumCnodes[0] = NumCnodes[1], NEW n \in Node, NEW h,
           Top = 5, ResidesById(n, 2),
           NEW b, b.contact_nodes_list \in Seq(Node),
           HandsOn(n, b.contact_nodes_list),
           Extends(b.tables, b.tables), Len(b.tables) \in Nat, Len(b.tables) + 1 = 5,
           NEW u, u = NextListed(n, h, 4, b, Node),
           NEW v, v = NextListed(n, h, 5, u, Node)
    PROVE  /\ Len(v.tables) > 4 <=> n[2] = 0 \/ n[3] = 0
           /\ Len(v.tables) > 4 => ToSet(v.tables[5].peer_list) = CountryRing(n)
<1> DEFINE list == b.contact_nodes_list
<1>1. \A m : m \in CountryRing(n) <=>
            /\ m \in Node /\ ResidesById(m, 2) /\ m[5] = n[5]
            /\ (m[2] = 0 /\ m[3] = n[3]) \/ (m[3] = 0 /\ m[2] = n[2])
  <2>1. 5 .. Top = {5}
    OBVIOUS
  <2>2. QED BY <2>1 DEF CountryRing
<1>2. n \in ToSet(list) <=> n[2] = 0 \/ n[3] = 0
  BY <1>1 DEF HandsOn
<1>3. CASE n \notin ToSet(list)
  <2>1. ASSUME NEW l PROVE NextListed(n, h, l, b, Node) = b
    BY <1>3 DEF NextListed
  <2>2. u = b
    BY <2>1
  <2>3. v = b
    <3>1. v = NextListed(n, h, 5, b, Node)
      BY <2>2
    <3>2. QED BY <2>1, <3>1
  <2>5. ~ Len(v.tables) > 4
    <3> DEFINE k == Len(v.tables)
    <3>1. k \in Nat /\ k + 1 = 5
      BY <2>3
    <3> HIDE DEF k
    <3>2. ~ k > 4
      BY <3>1
    <3>3. QED BY <3>2 DEF k
  <2>6. QED BY <1>2, <1>3, <2>5
<1>4. CASE n \in ToSet(list)
  <2> DEFINE peers == RingPeers(n, 4, list)
  <2>1. 4 \in 1 .. Top /\ list # <<>>
    BY <1>4 DEF ToSet
  <2>2. Adds(n, h, 4, b, u)
    BY <1>4, <2>1, ListedLevel
  <2>4. ToSet(peers) = {m \in Node : \E x \in ToSet(list) :
                            /\ \A d \in 0 .. 3 : m[d] = x[d]
                            /\ \A d \in 5 .. Top : m[d] = n[d]}
    <3>1. 4 <= Top
      OBVIOUS
    <3>2. QED BY <2>1, <3>1, FourthRing
  <2> HIDE DEF peers
  <2>5. Extends(u.tables, u.tables) /\ Len(u.tables) = 5 /\ u.tables[5].peer_list = peers
    <3>1. Len(b.tables) + 1 = 5
      OBVIOUS
    <3>2. Extends(b.tables, b.tables)
      OBVIOUS
    <3>3. Extends(u.tables, u.tables)
      BY <2>2, <3>2, OneRingMore
    <3>4. Len(u.tables) = Len(b.tables) + 1
      BY <2>2, <3>2, OneRingMore
    <3>5. u.tables[Len(b.tables) + 1].peer_list = RingPeers(n, 4, list)
      BY <2>2, <3>2, OneRingMore
    <3>6. QED BY <3>1, <3>3, <3>4, <3>5 DEF peers
  <2>6. Extends(u.tables, v.tables)
    BY <2>5, LevelsExtend
  <2>7. Len(v.tables) \in Nat /\ Len(v.tables) > 4 /\ v.tables[5] = u.tables[5]
    <3> DEFINE w == u.tables
               z == v.tables
    <3>1. Extends(w, z) /\ Len(w) = 5
      BY <2>5, <2>6
    <3> HIDE DEF w, z
    <3>2. Len(z) \in Nat /\ Len(z) > 4 /\ z[5] = w[5]
      BY <3>1 DEF Extends
    <3>3. QED BY <3>2 DEF w, z
  <2>8. ASSUME NEW m, m \in ToSet(peers) PROVE m \in CountryRing(n)
    <3>1. PICK x \in ToSet(list) : /\ \A d \in 0 .. 3 : m[d] = x[d]
                                   /\ \A d \in 5 .. Top : m[d] = n[d]
      BY <2>4, <2>8
    <3>2. m[0] = x[0] /\ m[1] = x[1] /\ m[2] = x[2] /\ m[3] = x[3] /\ m[5] = n[5]
      BY <3>1
    <3>3. ResidesById(m, 2) <=> ResidesById(x, 2)
      BY <3>2 DEF ResidesById
    <3>4. m \in Node /\ x \in CountryRing(n)
      BY <2>4, <2>8 DEF HandsOn
    <3>5. QED BY <1>1, <3>2, <3>3, <3>4
  <2>9. ASSUME NEW m \in CountryRing(n) PROVE m \in ToSet(peers)
    <3> DEFINE x == [d \in 0 .. Top |-> IF d < 4 THEN m[d] ELSE n[d]]
    <3>1. m \in Node
      BY <1>1
    <3>2. x \in Node
      <4>1. \A d \in 0 .. Top : /\ m[d] \in Nat /\ m[d] < Width(d)
                                /\ n[d] \in Nat /\ n[d] < Width(d)
        BY <3>1, Digits
      <4>2. x \in [0 .. Top -> Nat] /\ \A d \in 0 .. Top : x[d] < Width(d)
        BY <4>1
      <4> HIDE DEF x
      <4>3. QED BY <4>2, NodeIds
    <3>3. /\ \A d \in 0 .. 3 : m[d] = x[d]
          /\ x[0] = m[0] /\ x[1] = m[1] /\ x[2] = m[2] /\ x[3] = m[3]
          /\ x[4] = n[4] /\ x[5] = n[5]
      OBVIOUS
    <3> HIDE DEF x
    <3>4. ResidesById(m, 2) <=> ResidesById(x, 2)
      BY <3>3 DEF ResidesById
    <3>5. x \in ToSet(list)
      BY <1>1, <3>2, <3>3, <3>4 DEF HandsOn
    <3>6. \A d \in 5 .. Top : m[d] = n[d]
      BY <1>1
    <3>7. QED BY <2>4, <3>1, <3>3, <3>5, <3>6
  <2>10. QED BY <1>2, <1>4, <2>5, <2>7, <2>8, <2>9
<1>5. QED BY <1>3, <1>4

\* Level by level, with districts' rings that are the same.
LEMMA UpToCity ==
    ASSUME SameLimits, NumCnodes[0] = NumCnodes[1], NEW n \in Node, NEW h
    PROVE  \E f, g :
              /\ \A l \in 1 .. Top : f[l] = NextLevel(n, h, l, f[l - 1])
              /\ \A l \in 1 .. Top : g[l] = NextListed(n, h, l, g[l - 1], Node)
              /\ FormStructure(n, h) = f[Top].tables
              /\ create_hgfr_table(n, h, Node) = g[Top].tables
              /\ RightUpTo(n, 1, f[1]) /\ Alike(f[1], g[1])
<1>1. PICK f :
        /\ f[0] = [tables |-> <<Ring(DistrictPeers(n), 0)>>,
                   list |-> FirstOf(DistrictPeers(n), ContactLimit(0))]
        /\ \A l \in 1 .. Top : f[l] = NextLevel(n, h, l, f[l - 1])
        /\ FormStructure(n, h) = f[Top].tables
  BY LevelsUnrolled
<1>2. PICK g :
        /\ g[0] = FirstListed(n, Node)
        /\ \A l \in 1 .. Top : g[l] = NextListed(n, h, l, g[l - 1], Node)
        /\ create_hgfr_table(n, h, Node) = g[Top].tables
  BY CreatedUnrolled
<1>3. Top \in {2, 3, 5} /\ LastLevel = Top
  BY LastIsTop
<1>4. \A l \in 1 .. 5 : l <= Top => f[l] = NextLevel(n, h, l, f[l - 1])
                                    /\ g[l] = NextListed(n, h, l, g[l - 1], Node)
  BY <1>1, <1>2
<1>5. RightUpTo(n, 0, f[0]) /\ Alike(f[0], g[0])
  BY <1>1, <1>2, FirstLevelRight, FirstAlike
<1>6. RightUpTo(n, 1, f[1]) /\ Alike(f[1], g[1])
  <2>1. f[1] = NextLevel(n, h, 1, f[0]) /\ g[1] = NextListed(n, h, 1, g[0], Node)
        /\ 1 \in 1 .. Top /\ 1 \in {1, 2} /\ 1 <= Top
    BY <1>3, <1>4
  <2>2. RightUpTo(n, 1, NextLevel(n, h, 1, f[0]))
    BY <1>5, <2>1, NextLevelRight
  <2>3. Alike(NextLevel(n, h, 1, f[0]), NextListed(n, h, 1, g[0], Node))
    BY <1>5, <2>1, NextAlike
  <2>4. QED BY <2>1, <2>2, <2>3
<1>7. QED BY <1>1, <1>2, <1>6

\* The tables t of an evaluation client next to those form_structure makes, f.
Drifted(n, t, f) ==
    /\ Len(t) \in Nat
    /\ \A l \in 0 .. 2 : /\ l < Len(t) <=> l < Len(f)
                         /\ l < Len(t) => t[l + 1] = f[l + 1]
    /\ Len(t) > 2 <=> ResidesById(n, 2)
    /\ Len(t) > 3 <=> LastLevel > 2 /\ ResidesById(n, 2)
    /\ Len(t) > 3 =>
        ToSet(t[4].peer_list) =
            {m \in Node : ResidesById(m, 2) /\ \A d \in {2} \cup (4 .. Top) : m[d] = n[d]}

LEMMA DriftOf ==
    ASSUME SameLimits, NumCnodes[0] = NumCnodes[1], NEW n \in Node, NEW h
    PROVE  Drifted(n, create_hgfr_table(n, h, Node), FormStructure(n, h))
<1>1. PICK f, g :
        /\ \A l \in 1 .. Top : f[l] = NextLevel(n, h, l, f[l - 1])
        /\ \A l \in 1 .. Top : g[l] = NextListed(n, h, l, g[l - 1], Node)
        /\ FormStructure(n, h) = f[Top].tables
        /\ create_hgfr_table(n, h, Node) = g[Top].tables
        /\ RightUpTo(n, 1, f[1]) /\ Alike(f[1], g[1])
  BY UpToCity
<1>2. /\ FormStructure(n, h) = f[Top].tables
      /\ create_hgfr_table(n, h, Node) = g[Top].tables
  BY <1>1
<1>3. Top \in {2, 3, 5} /\ LastLevel = Top
  BY LastIsTop
<1>4. \A l \in 1 .. 5 : l <= Top => f[l] = NextLevel(n, h, l, f[l - 1])
                                    /\ g[l] = NextListed(n, h, l, g[l - 1], Node)
  BY <1>1
<1>6. RightUpTo(n, 1, f[1]) /\ Alike(f[1], g[1])
  BY <1>1
<1>7. f[2] = NextLevel(n, h, 2, f[1]) /\ g[2] = NextListed(n, h, 2, g[1], Node)
      /\ 2 \in 1 .. Top /\ 2 \in {1, 2} /\ 2 <= Top
  BY <1>3, <1>4
<1>8. RightUpTo(n, 2, f[2])
  BY <1>6, <1>7, NextLevelRight
<1>9. g[2].tables = f[2].tables /\ g[2].contact_nodes_list = f[1].list
  BY <1>6, <1>7, NextAlike
<1>10. /\ f[1].list \in Seq(Node)
       /\ n \in ToSet(f[1].list) <=> ResidesById(n, 2)
       /\ n \in ToSet(f[1].list) => ToSet(f[1].list) = ContactsById(n, 1)
       /\ Extends(f[1].tables, f[1].tables)
       /\ Len(f[1].tables) <= 2
  <2>1. 1 \in 0 .. Top - 1
    BY <1>3
  <2>2. QED BY <1>6, <2>1, ListOfLevel
<1>11. CASE ~ ResidesById(n, 2)
  <2>1. f[2] = f[1] /\ g[2] = g[1] /\ g[1].contact_nodes_list = f[1].list
    BY <1>6, <1>7, <1>10, <1>11, StopsAlike DEF Alike
  <2>2. \A k \in 2 .. 4, l \in 3 .. 5 :
            l <= Top /\ k = l - 1 /\ f[k] = f[1] /\ g[k] = g[1] =>
                f[l] = f[1] /\ g[l] = g[1]
    BY <1>4, <1>10, <1>11, <2>1, StopsAlike
  <2>3. 3 <= Top => f[3] = f[1] /\ g[3] = g[1]
    BY <2>1, <2>2
  <2>4. 5 <= Top => f[4] = f[1] /\ g[4] = g[1]
    BY <1>3, <2>2, <2>3
  <2>5. 5 <= Top => f[5] = f[1] /\ g[5] = g[1]
    BY <2>2, <2>4
  <2>6. f[Top] = f[1] /\ g[Top] = g[1]
    BY <1>3, <2>1, <2>3, <2>5
  <2>7. FormStructure(n, h) = f[1].tables /\ create_hgfr_table(n, h, Node) = f[1].tables
    BY <1>1, <1>2, <1>6, <2>6 DEF Alike
  <2>8. Len(f[1].tables) \in Nat /\ Len(f[1].tables) <= 2
    BY <1>10 DEF Extends
  <2>9. QED BY <1>11, <2>7, <2>8 DEF Drifted
<1>12. CASE ResidesById(n, 2)
  <2>1. Extends(f[2].tables, f[2].tables) /\ Len(f[2].tables) = 3
    <3>1. PICK high \in 0 .. 2 :
            /\ ResidesById(n, high) /\ (high = 2 \/ ~ ResidesById(n, high + 1))
            /\ f[2].tables \in Seq([peer_list : Seq(Node), contact_nodes : SUBSET Node])
            /\ Len(f[2].tables) = high + 1
      BY <1>8 DEF RightUpTo
    <3>2. high = 2
      <4>1. high # 2 => 2 \in 0 .. 6 /\ high + 1 \in 0 .. 2
        OBVIOUS
      <4>2. QED BY <1>12, <3>1, <4>1, ResidesDown
    <3>3. QED BY <3>1, <3>2 DEF Extends
  <2>2. \A t : \A k \in 2 .. 4, l \in 3 .. 5 : l <= Top /\ k = l - 1 =>
            /\ Extends(t, f[k].tables) => Extends(t, f[l].tables)
            /\ Extends(t, g[k].tables) => Extends(t, g[l].tables)
    <3> SUFFICES ASSUME NEW t, NEW k \in 2 .. 4, NEW l \in 3 .. 5, l <= Top, k = l - 1
                 PROVE  /\ Extends(t, f[k].tables) => Extends(t, f[l].tables)
                        /\ Extends(t, g[k].tables) => Extends(t, g[l].tables)
      OBVIOUS
    <3>1. f[l] = NextLevel(n, h, l, f[k]) /\ g[l] = NextListed(n, h, l, g[k], Node)
      BY <1>4
    <3>2. Extends(f[k].tables, f[k].tables) => Extends(f[k].tables, f[l].tables)
      BY <3>1, LevelsExtend
    <3>3. Extends(g[k].tables, g[k].tables) => Extends(g[k].tables, g[l].tables)
      BY <3>1, LevelsExtend
    <3>4. QED BY <3>2, <3>3, ExtendsItself, ExtendsTwice
  <2>3. Extends(f[2].tables, f[Top].tables)
    <3>1. 3 <= Top => Extends(f[2].tables, f[3].tables)
      BY <2>1, <2>2
    <3>2. 5 <= Top => Extends(f[2].tables, f[4].tables)
      BY <1>3, <2>2, <3>1
    <3>3. 5 <= Top => Extends(f[2].tables, f[5].tables)
      BY <2>2, <3>2
    <3>4. QED BY <1>3, <2>1, <3>1, <3>3
  <2>4. CASE Top = 2
    <3>1. /\ create_hgfr_table(n, h, Node) = f[2].tables
          /\ FormStructure(n, h) = f[2].tables
      BY <1>1, <1>2, <1>9, <2>4
    <3> DEFINE t == f[2].tables
    <3>2. Len(t) = 3 /\ create_hgfr_table(n, h, Node) = t /\ FormStructure(n, h) = t
      BY <2>1, <3>1
    <3> HIDE DEF t
    <3>3. Len(t) \in Nat /\ Len(t) > 2 /\ ~ Len(t) > 3 /\ ~ LastLevel > 2
      BY <1>3, <2>4, <3>2
    <3>4. QED BY <1>12, <3>2, <3>3 DEF Drifted
  <2>5. CASE Top # 2
    <3> DEFINE peers == RingPeers(n, 3, f[1].list)
    <3>1. 3 \in 1 .. Top /\ 3 <= Top /\ g[3] = NextListed(n, h, 3, g[2], Node)
      BY <1>3, <1>4, <2>5
    <3>2. Adds(n, h, 3, g[2], g[3])
      <4>1. g[2].contact_nodes_list \in Seq(Node) /\ n \in ToSet(g[2].contact_nodes_list)
        BY <1>9, <1>10, <1>12
      <4>2. QED BY <3>1, <4>1, ListedLevel
    <3>4. /\ Extends(f[2].tables, g[3].tables) /\ Len(g[3].tables) = 4
          /\ g[3].tables[4].peer_list = peers
      <4>1. Extends(g[2].tables, g[2].tables) /\ Len(g[2].tables) + 1 = 4
        BY <1>9, <2>1
      <4>2. /\ Extends(g[2].tables, g[3].tables) /\ Len(g[3].tables) = Len(g[2].tables) + 1
            /\ g[3].tables[Len(g[2].tables) + 1].peer_list =
                    RingPeers(n, 3, g[2].contact_nodes_list)
        BY <3>2, <4>1, OneRingMore
      <4>3. QED BY <1>9, <4>1, <4>2
    <3> HIDE DEF peers
    <3>5. Extends(g[3].tables, g[Top].tables)
      <4>1. Extends(g[3].tables, g[3].tables)
        BY <3>4, ExtendsItself
      <4>2. 5 <= Top => Extends(g[3].tables, g[4].tables)
        BY <1>3, <2>2, <4>1
      <4>3. 5 <= Top => Extends(g[3].tables, g[5].tables)
        BY <2>2, <4>2
      <4>4. QED BY <1>3, <2>5, <4>1, <4>3
    <3>6. ToSet(peers) = {m \in Node : ResidesById(m, 2)
                                        /\ \A d \in {2} \cup (4 .. Top) : m[d] = n[d]}
      <4>1. f[1].list # <<>>
        BY <1>10, <1>12 DEF ToSet
      <4>2. QED BY <1>10, <1>12, <3>1, <4>1, CitysRing DEF peers
    <3> DEFINE t == g[Top].tables
               u == f[Top].tables
               v == f[2].tables
               w == g[3].tables
    <3>7. /\ Len(t) \in Nat /\ Len(t) >= 4 /\ t[4] = w[4]
          /\ \A i \in 1 .. 3 : t[i] = v[i] /\ u[i] = v[i]
          /\ Len(u) \in Nat /\ Len(u) >= 3
      <4>1. Extends(v, u) /\ Extends(v, w) /\ Extends(w, t) /\ Len(v) = 3 /\ Len(w) = 4
        BY <2>1, <2>3, <3>4, <3>5
      <4> HIDE DEF t, u, v, w
      <4>2. Len(u) \in Nat /\ Len(u) >= 3 /\ \A i \in 1 .. 3 : u[i] = v[i]
        BY <4>1 DEF Extends
      <4>3. \A i \in 1 .. 3 : w[i] = v[i]
        BY <4>1 DEF Extends
      <4>4. Len(t) \in Nat /\ Len(t) >= 4 /\ \A i \in 1 .. 4 : t[i] = w[i]
        BY <4>1 DEF Extends
      <4>5. QED BY <4>2, <4>3, <4>4
    <3>8. create_hgfr_table(n, h, Node) = t /\ FormStructure(n, h) = u
      BY <1>1, <1>2
    <3>9. ToSet(t[4].peer_list) =
            {m \in Node : ResidesById(m, 2) /\ \A d \in {2} \cup (4 .. Top) : m[d] = n[d]}
      BY <3>4, <3>6, <3>7
    <3> HIDE DEF t, u, v, w
    <3>10. LastLevel > 2 /\ Len(t) > 2 /\ Len(t) > 3 /\ Len(u) > 2
      BY <1>3, <2>5, <3>7
    <3>11. \A l \in 0 .. 2 : l < Len(t) /\ l < Len(u) /\ t[l + 1] = u[l + 1]
      <4>1. \A l \in 0 .. 2 : l + 1 \in 1 .. 3
        OBVIOUS
      <4>2. QED BY <3>7, <3>10, <4>1
    <3>12. QED BY <1>12, <3>8, <3>9, <3>10, <3>11 DEF Drifted
  <2>6. QED BY <2>4, <2>5
<1>13. QED BY <1>11, <1>12

\* What the tables t say of the country.
CountryOnly(n, t) ==
    /\ Len(t) > 4 <=> ResidesById(n, 2) /\ (n[2] = 0 \/ n[3] = 0)
    /\ Len(t) > 4 => ToSet(t[5].peer_list) = CountryRing(n)

LEMMA CountryDrift ==
    ASSUME SameLimits, NumCnodes[0] = NumCnodes[1], NEW n \in Node, NEW h, Top = 5
    PROVE  CountryOnly(n, create_hgfr_table(n, h, Node))
<1>1. PICK f, g :
        /\ \A l \in 1 .. Top : f[l] = NextLevel(n, h, l, f[l - 1])
        /\ \A l \in 1 .. Top : g[l] = NextListed(n, h, l, g[l - 1], Node)
        /\ FormStructure(n, h) = f[Top].tables
        /\ create_hgfr_table(n, h, Node) = g[Top].tables
        /\ RightUpTo(n, 1, f[1]) /\ Alike(f[1], g[1])
  BY UpToCity
<1>2. /\ g[2] = NextListed(n, h, 2, g[1], Node) /\ f[2] = NextLevel(n, h, 2, f[1])
      /\ g[3] = NextListed(n, h, 3, g[2], Node)
      /\ g[4] = NextListed(n, h, 4, g[3], Node)
      /\ g[5] = NextListed(n, h, 5, g[4], Node)
  BY <1>1
<1>3. create_hgfr_table(n, h, Node) = g[5].tables
  BY <1>1
<1>4. CASE ~ ResidesById(n, 2)
  <2> DEFINE t == create_hgfr_table(n, h, Node)
  <2>1. Len(t) \in Nat /\ ~ Len(t) > 2
    BY <1>4, DriftOf DEF Drifted
  <2> HIDE DEF t
  <2>2. ~ Len(t) > 4
    BY <2>1
  <2>3. QED BY <1>4, <2>2 DEF CountryOnly, t
<1>5. CASE ResidesById(n, 2)
  <2> DEFINE list == f[1].list
  <2>1. /\ list \in Seq(Node) /\ n \in ToSet(list)
        /\ ToSet(list) = ContactsById(n, 1) /\ Len(list) = Contacts
    <3>1. 1 \in 0 .. Top - 1 /\ 1 + 1 = 2
      OBVIOUS
    <3>2. QED BY <1>1, <1>5, <3>1, ListOfLevel
  <2>2. /\ g[2].contact_nodes_list = list /\ g[2].tables = f[2].tables
        /\ g[2].next = FirstOf(RingPeers(n, 2, list), ContactLimit(2))
    <3>1. 2 \in {1, 2} /\ 2 <= Top /\ 2 - 1 = 1
      OBVIOUS
    <3>2. QED BY <1>1, <1>2, <2>1, <3>1, NextAlike
  <2>3. Extends(f[2].tables, f[2].tables) /\ Len(f[2].tables) = 3
    <3>1. 2 \in 0 .. Top - 1 /\ 2 \in 1 .. Top /\ 2 - 1 = 1
      OBVIOUS
    <3>2. RightUpTo(n, 2, f[2])
      BY <1>1, <1>2, <3>1, NextLevelRight
    <3>3. QED BY <1>5, <3>1, <3>2, ListOfLevel
  <2> HIDE DEF list
  <2>4. Adds(n, h, 3, g[2], g[3])
    <3>1. 3 \in 1 .. Top
      OBVIOUS
    <3>2. QED BY <1>2, <2>1, <2>2, <3>1, ListedLevel
  <2>5. Extends(g[3].tables, g[3].tables) /\ Len(g[3].tables) = Len(g[2].tables) + 1
    <3> DEFINE a == g[2]
               b == g[3]
    <3>1. Adds(n, h, 3, a, b) /\ Extends(a.tables, a.tables)
      BY <2>2, <2>3, <2>4
    <3> HIDE DEF a, b
    <3>2. Extends(b.tables, b.tables) /\ Len(b.tables) = Len(a.tables) + 1
      BY <3>1, OneRingMore
    <3>3. QED BY <3>2 DEF a, b
  <2>6. Len(g[3].tables) \in Nat /\ Len(g[3].tables) + 1 = 5
    <3> DEFINE i == Len(g[2].tables)
               j == Len(g[3].tables)
    <3>1. i = 3 /\ j = i + 1
      BY <2>2, <2>3, <2>5
    <3> HIDE DEF i, j
    <3>2. j \in Nat /\ j + 1 = 5
      BY <3>1
    <3>3. QED BY <3>2 DEF j
  <2>7. g[3].contact_nodes_list \in Seq(Node) /\ HandsOn(n, g[3].contact_nodes_list)
    <3> DEFINE a == g[2]
               b == g[3]
    <3>1. /\ a.contact_nodes_list = list /\ b = NextListed(n, h, 3, a, Node)
          /\ a.next = FirstOf(RingPeers(n, 2, list), ContactLimit(2))
      BY <1>2, <2>2
    <3> HIDE DEF a, b
    <3>2. b.contact_nodes_list \in Seq(Node) /\ HandsOn(n, b.contact_nodes_list)
      BY <1>5, <2>1, <3>1, HandedOn
    <3>3. QED BY <3>2 DEF b
  <2>8. /\ Len(g[5].tables) > 4 <=> n[2] = 0 \/ n[3] = 0
        /\ Len(g[5].tables) > 4 => ToSet(g[5].tables[5].peer_list) = CountryRing(n)
    <3> DEFINE b == g[3]
               u == g[4]
               v == g[5]
    <3>1. /\ Extends(b.tables, b.tables)
          /\ Len(b.tables) \in Nat /\ Len(b.tables) + 1 = 5
          /\ b.contact_nodes_list \in Seq(Node) /\ HandsOn(n, b.contact_nodes_list)
          /\ u = NextListed(n, h, 4, b, Node) /\ v = NextListed(n, h, 5, u, Node)
      BY <1>2, <2>5, <2>6, <2>7
    <3> HIDE DEF b, u, v
    <3>2. /\ Len(v.tables) > 4 <=> n[2] = 0 \/ n[3] = 0
          /\ Len(v.tables) > 4 => ToSet(v.tables[5].peer_list) = CountryRing(n)
      BY <1>5, <3>1, CountryOf
    <3>3. QED BY <3>2 DEF v
  <2>9. QED BY <1>3, <1>5, <2>8 DEF CountryOnly
<1>6. QED BY <1>4, <1>5

-----------------------------------------------------------------------------
(***************************************************************************)
(* Whatever is entered, listed or started, hash orders stay.               *)
(***************************************************************************)
THEOREM HashesStay == TablesSpec => [](hash \in Hashes)
<1>1. TablesInit => hash \in Hashes
  BY DEF TablesInit, StructureInit
<1>2. hash \in Hashes /\ [TablesNext]_evalVars => (hash \in Hashes)'
  BY DEF TablesNext, StructureNext, Form, Configure, Table, evalVars
<1>3. QED BY <1>1, <1>2, PTL DEF TablesSpec

(***************************************************************************)
(* With a whole node list an evaluation forms what form_structure forms in *)
(* no structure that has nodes, states, and two cities to each: a node of  *)
(* city 1 that joins the city ring is no contact of the state's, and has a *)
(* ring of level 3 all the same, as contact_nodes is not refilled          *)
(* (eval_client.cpp:350).                                                  *)
(***************************************************************************)
THEOREM CopyNeverForms ==
    ASSUME SameLimits, NumCnodes[0] = NumCnodes[1], LastLevel > 2, Width(2) >= 2,
           Node # {}
    PROVE  TablesSpec => [](node_list = Node => ~ CopyForms)
<1>1. hash \in Hashes /\ node_list = Node => ~ CopyForms
  <2> SUFFICES ASSUME hash \in Hashes, node_list = Node
               PROVE  \E n \in Node : ListedTables[n] # FormedTables[hash][n]
    BY DEF CopyForms
  <2>1. Top \in {3, 5} /\ LastLevel = Top
    BY LastIsTop
  <2> DEFINE n == [d \in 0 .. Top |-> IF d = 2 THEN 1 ELSE 0]
  <2>2. n \in Node
    <3>0. PICK x \in Node : TRUE
      OBVIOUS
    <3>1. \A d \in 0 .. Top : Width(d) \in Nat \ {0}
      <4> SUFFICES ASSUME NEW d \in 0 .. Top PROVE Width(d) \in Nat \ {0}
        OBVIOUS
      <4>1. x[d] \in Nat /\ x[d] < Width(d)
        BY <3>0, Digits
      <4>2. Width(d) \in Nat
        BY <2>1, WidthType
      <4>3. QED BY <4>1, <4>2
    <3>2. n \in [0 .. Top -> Nat] /\ \A d \in 0 .. Top : n[d] < Width(d)
      BY <2>1, <3>1
    <3> HIDE DEF n
    <3>3. QED BY <3>2, NodeIds
  <2>3. n[0] = 0 /\ n[1] = 0 /\ n[2] = 1
    BY <2>1
  <2> HIDE DEF n
  <2>4. ResidesById(n, 2) /\ ~ ResidesById(n, 3)
    BY <2>3, ContactsType DEF ResidesById
  <2> DEFINE t == create_hgfr_table(n, hash, Node)
             f == FormStructure(n, hash)
  <2>5. Drifted(n, t, f)
    BY <2>2, DriftOf
  <2>6. PICK high \in 0 .. Top :
            /\ Len(f) = high + 1
            /\ \A l \in 0 .. Top : ResidesById(n, l) <=> l <= high
    BY <2>2, TablesRight
  <2> HIDE DEF t, f
  <2>7. Len(t) > 3
    BY <2>1, <2>4, <2>5 DEF Drifted
  <2>8. Len(f) <= 3
    BY <2>1, <2>4, <2>6
  <2>9. ListedTables[n] = t /\ FormedTables[hash][n] = f
    BY <2>2 DEF ListedTables, FormedTables, t, f
  <2>10. QED BY <2>2, <2>5, <2>7, <2>8, <2>9 DEF Drifted
<1>2. QED BY <1>1, HashesStay, PTL

(***************************************************************************)
(* With a whole node list nobody outside city 0 of state 0 shares its      *)
(* country ring with everyone in it: contacts that the city level leaves in*)
(* contact_nodes_next (eval_client.cpp:335) come up with those of the state*)
(* level (:398), so that a city's ring takes in the contacts of city 0 of  *)
(* state 0, whose own ring knows nothing of that city.                     *)
(***************************************************************************)
CountryRingsDiffer ==
    LET t == ListedTables
        RingOf(n) == ToSet(t[n][5].peer_list)
    IN  \A n \in Node : Len(t[n]) > 4 =>
            ((\A m \in RingOf(n) : Len(t[m]) > 4 /\ RingOf(m) = RingOf(n))
                <=> n[2] = 0 /\ n[3] = 0)

THEOREM CountriesDiffer ==
    ASSUME SameLimits, NumCnodes[0] = NumCnodes[1], LastLevel > 3
    PROVE  TablesSpec => [](node_list = Node => CountryRingsDiffer)
<1>1. node_list = Node => CountryRingsDiffer
  <2> SUFFICES ASSUME node_list = Node PROVE CountryRingsDiffer
    OBVIOUS
  <2>1. Top = 5
    BY LastIsTop
  <2> DEFINE t == ListedTables
             RingOf(n) == ToSet(t[n][5].peer_list)
  <2>2. \A n \in Node : CountryOnly(n, t[n])
    <3> SUFFICES ASSUME NEW n \in Node PROVE CountryOnly(n, t[n])
      OBVIOUS
    <3>1. t[n] = create_hgfr_table(n, hash, Node)
      BY DEF ListedTables
    <3>2. QED BY <2>1, <3>1, CountryDrift
  <2> HIDE DEF t
  <2>3. \A n \in Node : Len(t[n]) > 4 <=> ResidesById(n, 2) /\ (n[2] = 0 \/ n[3] = 0)
    BY <2>2 DEF CountryOnly
  <2>4. \A n \in Node : Len(t[n]) > 4 => RingOf(n) = CountryRing(n)
    BY <2>2 DEF CountryOnly
  <2> HIDE DEF RingOf
  <2>5. \A n, m : m \in CountryRing(n) <=>
            /\ m \in Node /\ ResidesById(m, 2) /\ m[5] = n[5]
            /\ (m[2] = 0 /\ m[3] = n[3]) \/ (m[3] = 0 /\ m[2] = n[2])
    <3>1. 5 .. Top = {5}
      BY <2>1
    <3>2. QED BY <3>1 DEF CountryRing
  <2>6. ASSUME NEW n \in Node, Len(t[n]) > 4, n[2] = 0, n[3] = 0, NEW m \in RingOf(n)
        PROVE  Len(t[m]) > 4 /\ RingOf(m) = RingOf(n)
    <3>1. m \in Node /\ ResidesById(m, 2) /\ m[5] = n[5] /\ m[2] = 0 /\ m[3] = 0
      BY <2>4, <2>5, <2>6
    <3>2. Len(t[m]) > 4
      BY <2>3, <3>1
    <3>3. CountryRing(m) = CountryRing(n)
      <4>1. \A x : x \in CountryRing(m) <=> x \in CountryRing(n)
        BY <2>5, <2>6, <3>1
      <4> HIDE DEF CountryRing
      <4>2. QED BY <4>1
    <3>4. QED BY <2>4, <2>6, <3>1, <3>2, <3>3
  <2>7. ASSUME NEW n \in Node, Len(t[n]) > 4, ~ (n[2] = 0 /\ n[3] = 0)
        PROVE  \E m \in RingOf(n) : ~ (Len(t[m]) > 4 /\ RingOf(m) = RingOf(n))
    <3> DEFINE m == [d \in 0 .. Top |-> IF d \in {2, 3} THEN 0 ELSE n[d]]
    <3>1. m \in Node
      <4>1. \A d \in 0 .. Top : n[d] \in Nat /\ n[d] < Width(d)
        BY Digits
      <4>2. \A d \in 0 .. Top : Width(d) \in Nat
        BY <2>1, WidthType
      <4>3. m \in [0 .. Top -> Nat] /\ \A d \in 0 .. Top : m[d] < Width(d)
        BY <4>1, <4>2
      <4> HIDE DEF m
      <4>4. QED BY <4>3, NodeIds
    <3>2. m[0] = n[0] /\ m[1] = n[1] /\ m[2] = 0 /\ m[3] = 0 /\ m[5] = n[5]
      <4>1. 0 .. Top = 0 .. 5
        BY <2>1
      <4>2. QED BY <4>1
    <3> HIDE DEF m
    <3>3. ResidesById(n, 2) /\ (n[2] = 0 \/ n[3] = 0)
      BY <2>3, <2>7
    <3>4. ResidesById(m, 2)
      BY <3>2, <3>3 DEF ResidesById
    <3>5. m \in RingOf(n) /\ n \in RingOf(n)
      BY <2>4, <2>5, <2>7, <3>1, <3>2, <3>3, <3>4
    <3>6. n \notin CountryRing(m)
      BY <2>5, <2>7, <3>2
    <3>7. QED BY <2>4, <3>1, <3>5, <3>6
  <2>8. \A n \in Node : Len(t[n]) > 4 =>
            ((\A m \in RingOf(n) : Len(t[m]) > 4 /\ RingOf(m) = RingOf(n))
                <=> n[2] = 0 /\ n[3] = 0)
    BY <2>6, <2>7
  <2>9. QED BY <2>8 DEF CountryRingsDiffer, RingOf, t
<1>2. QED BY <1>1, PTL

-----------------------------------------------------------------------------
(***************************************************************************)
(* Lists that miss somebody.                                               *)
(***************************************************************************)
\* The contacts of all districts.
Contacted == {x \in Node : x[0] < Contacts}

LEMMA ContactedSame == \A x \in Node : x[0] < Contacts <=> x[0] < NumCnodes[0]
<1> SUFFICES ASSUME NEW x \in Node PROVE x[0] < Contacts <=> x[0] < NumCnodes[0]
  OBVIOUS
<1>1. 0 \in 0 .. Top
  BY TopType
<1>2. x[0] \in Nat /\ x[0] < NumNodes[0]
  BY <1>1, Digits, ContactsType
<1>3. NumNodes[0] \in Nat /\ NumCnodes[0] \in Nat
  BY ShapeAssumption
<1>4. QED BY <1>2, <1>3 DEF Contacts

LEMMA Narrower ==
    ASSUME NEW X, NEW Y, NEW s \in Seq(X), ToSet(s) \subseteq Y
    PROVE  s \in Seq(Y)
<1>1. Len(s) \in Nat /\ DOMAIN s = 1 .. Len(s) /\ s = [i \in 1 .. Len(s) |-> s[i]]
  OBVIOUS
<1>2. \A i \in 1 .. Len(s) : s[i] \in Y
  BY <1>1 DEF ToSet
<1>3. QED BY <1>1, <1>2

\* If only others than contacts are missing, no ring above a district notices.
LEMMA ContactsListed ==
    ASSUME NumCnodes[0] = NumCnodes[1], NEW list, Contacted \subseteq list,
           NEW n \in Node, NEW l \in 1 .. Top, NEW contacts \in Seq(Contacted), contacts # <<>>
    PROVE  /\ ListedPeers(n, l, contacts, list) = RingPeers(n, l, contacts)
           /\ RingPeers(n, l, contacts) \in Seq(Contacted)
<1>1. contacts \in Seq(Node) /\ ToSet(contacts) \subseteq Contacted
  <2>1. ToSet(contacts) \subseteq Contacted
    BY Entries
  <2>2. Contacted \subseteq Node
    BY DEF Contacted
  <2>3. QED BY <2>1, <2>2, Narrower
<1>2. RingPeers(n, l, contacts) \in Seq(Node)
  BY <1>1, Transplanted
<1>3. ToSet(RingPeers(n, l, contacts)) \subseteq Contacted
  <2> SUFFICES ASSUME NEW m \in ToSet(RingPeers(n, l, contacts)) PROVE m \in Contacted
    OBVIOUS
  <2>1. m \in Node /\ \E x \in ToSet(contacts) : \A d \in 0 .. l - 1 : m[d] = x[d]
    BY <1>1, RingMembers
  <2>2. 0 \in 0 .. l - 1
    BY TopType
  <2>3. QED BY <1>1, <2>1, <2>2 DEF Contacted
<1>4. RingPeers(n, l, contacts) \in Seq(Contacted)
  BY <1>2, <1>3, Narrower
<1>5. ListedWidth(l) = Width(l)
  BY TopType DEF ListedWidth, Width
<1>6. ListedPeers(n, l, contacts, list) = Listed(RingPeers(n, l, contacts), list)
  BY <1>5 DEF ListedPeers, RingPeers
<1>7. QED BY <1>4, <1>6, AllKept DEF Listed

\* Same rings above the district's, in which those missing are left out.
SameAbove(n, list, t, u) ==
    \E X : /\ t \in Seq(X) /\ u \in Seq(X) /\ Len(t) = Len(u) /\ Len(t) >= 1
           /\ t[1].peer_list = Among(DistrictPeers(n), list)
           /\ t[1].contact_nodes = u[1].contact_nodes
           /\ \A i \in 2 .. Len(t) : t[i] = u[i]

InStep(n, list, b, c) ==
    /\ c.contact_nodes_list = b.contact_nodes_list
    /\ b.contact_nodes_list \in Seq(Contacted)
    /\ c.next = b.next
    /\ b.next \in Seq(Contacted)
    /\ SameAbove(n, list, b.tables, c.tables)

LEMMA FirstInStep ==
    ASSUME NEW list, Contacted \subseteq list, NEW n \in Node
    PROVE  InStep(n, list, FirstListed(n, list), FirstListed(n, Node))
<1> DEFINE district == DistrictPeers(n)
           first == FirstOf(district, NumCnodes[0])
           r == [peer_list |-> Among(district, list), contact_nodes |-> ToSet(first)]
           w == [peer_list |-> district, contact_nodes |-> ToSet(first)]
<1>1. district \in Seq(Node) /\ first \in Seq(Node) /\ ToSet(first) = ContactsById(n, 0)
  BY DistrictList DEF ContactLimit
<1>2. ToSet(first) \subseteq Contacted
  <2>1. \A m \in ContactsById(n, 0) : m \in Node /\ ResidesById(m, 0 + 1)
    BY RegionDigits DEF ContactsById
  <2>2. \A m \in ContactsById(n, 0) : m \in Contacted
    BY <2>1 DEF ResidesById, Contacted
  <2>3. QED BY <1>1, <2>2
<1>3. first \in Seq(Contacted)
  BY <1>1, <1>2, Narrower
<1> HIDE DEF first
<1>4. Listed(first, list) = first
  BY <1>3, AllKept DEF Listed
<1>5. Listed(first, Node) = first /\ Listed(district, Node) = district
  BY <1>1, WholeList
<1>6. Listed(district, list) = Among(district, list)
  BY DEF Listed
<1>7. /\ FirstListed(n, list) = [tables |-> <<r>>, contact_nodes_list |-> first, next |-> <<>>]
      /\ FirstListed(n, Node) = [tables |-> <<w>>, contact_nodes_list |-> first, next |-> <<>>]
  BY <1>4, <1>5, <1>6 DEF FirstListed, first
<1>8. SameAbove(n, list, <<r>>, <<w>>)
  <2>1. r.peer_list = Among(DistrictPeers(n), list) /\ r.contact_nodes = w.contact_nodes
    OBVIOUS
  <2> DEFINE X == {r, w}
             t == <<r>>
             u == <<w>>
  <2> HIDE DEF r, w
  <2>2. t \in Seq(X) /\ u \in Seq(X) /\ Len(t) = 1 /\ Len(u) = 1 /\ t[1] = r /\ u[1] = w
    OBVIOUS
  <2> HIDE DEF X, t, u
  <2>3. Len(t) = Len(u) /\ Len(t) >= 1 /\ \A i \in 2 .. Len(t) : t[i] = u[i]
    BY <2>2
  <2>4. SameAbove(n, list, t, u)
    BY <2>1, <2>2, <2>3 DEF SameAbove
  <2>5. QED BY <2>4 DEF t, u
<1> HIDE DEF r, w
<1>9. <<>> \in Seq(Contacted)
  OBVIOUS
<1>10. QED BY <1>3, <1>7, <1>8, <1>9 DEF InStep

LEMMA NextInStep ==
    ASSUME NumCnodes[0] = NumCnodes[1], NEW list, Contacted \subseteq list,
           NEW n \in Node, NEW h, NEW l \in 1 .. Top,
           NEW b, NEW c, InStep(n, list, b, c)
    PROVE  InStep(n, list, NextListed(n, h, l, b, list), NextListed(n, h, l, c, Node))
<1>1. CASE n \notin ToSet(b.contact_nodes_list)
  <2>1. NextListed(n, h, l, b, list) = b
    BY <1>1 DEF NextListed
  <2>2. c.contact_nodes_list = b.contact_nodes_list
    BY DEF InStep
  <2>3. NextListed(n, h, l, c, Node) = c
    BY <1>1, <2>2 DEF NextListed
  <2>4. QED BY <2>1, <2>3
<1>2. CASE n \in ToSet(b.contact_nodes_list)
  <2> DEFINE contacts == b.contact_nodes_list
             peers == RingPeers(n, l, contacts)
             first == FirstOf(peers, ContactLimit(l))
             next == b.next \o Among(first, Node \ ToSet(b.next))
             r == [peer_list |-> peers, contact_nodes |-> ToSet(next)]
             t == Append(b.tables, r)
             u == Append(c.tables, r)
             after == IF l = LastLevel THEN <<>> ELSE MapIteration(h[Region(n, l)], next)
  <2>1. /\ c.contact_nodes_list = contacts /\ contacts \in Seq(Contacted) /\ contacts # <<>>
        /\ c.next = b.next /\ b.next \in Seq(Contacted)
    BY <1>2 DEF InStep, ToSet
  <2>2. /\ ListedPeers(n, l, contacts, list) = peers /\ peers \in Seq(Contacted)
        /\ ListedPeers(n, l, contacts, Node) = peers
    <3>1. Contacted \subseteq Node
      BY DEF Contacted
    <3> HIDE DEF contacts
    <3>2. QED BY <2>1, <3>1, ContactsListed
  <2>3. first \in Seq(Contacted)
    <3>1. ContactLimit(l) \in Nat
      BY TopType, ShapeAssumption DEF ContactLimit
    <3> HIDE DEF peers
    <3>2. QED BY <2>2, <3>1 DEF FirstOf
  <2>4. next \in Seq(Contacted) /\ after \in Seq(Contacted)
    <3> HIDE DEF first
    <3>1. Among(first, Node \ ToSet(b.next)) \in Seq(Contacted)
      BY <2>3, MembersKept
    <3>2. next \in Seq(Contacted)
      BY <2>1, <3>1, Joined
    <3> HIDE DEF next
    <3>3. MapIteration(h[Region(n, l)], next) \in Seq(Contacted)
      BY <3>2, IterationPermutes
    <3>4. QED BY <3>2, <3>3
  <2>5. /\ NextListed(n, h, l, b, list) =
                IF Carries(l)
                THEN [tables |-> t, contact_nodes_list |-> after, next |-> <<>>]
                ELSE [tables |-> t, contact_nodes_list |-> contacts, next |-> next]
        /\ NextListed(n, h, l, c, Node) =
                IF Carries(l)
                THEN [tables |-> u, contact_nodes_list |-> after, next |-> <<>>]
                ELSE [tables |-> u, contact_nodes_list |-> contacts, next |-> next]
    <3> HIDE DEF peers
    <3>1. NextListed(n, h, l, b, list) =
                IF Carries(l)
                THEN [tables |-> t, contact_nodes_list |-> after, next |-> <<>>]
                ELSE [tables |-> t, contact_nodes_list |-> contacts, next |-> next]
      BY <1>2, <2>2 DEF NextListed
    <3>2. NextListed(n, h, l, c, Node) =
                IF Carries(l)
                THEN [tables |-> u, contact_nodes_list |-> after, next |-> <<>>]
                ELSE [tables |-> u, contact_nodes_list |-> contacts, next |-> next]
      BY <1>2, <2>1, <2>2 DEF NextListed
    <3>3. QED BY <3>1, <3>2
  <2>6. SameAbove(n, list, t, u)
    <3> DEFINE v == b.tables
               w == c.tables
    <3>1. SameAbove(n, list, v, w)
      BY DEF InStep
    <3>2. t = Append(v, r) /\ u = Append(w, r)
      OBVIOUS
    <3> HIDE DEF v, w, r, t, u
    <3>3. PICK X : /\ v \in Seq(X) /\ w \in Seq(X) /\ Len(v) = Len(w) /\ Len(v) >= 1
                   /\ v[1].peer_list = Among(DistrictPeers(n), list)
                   /\ v[1].contact_nodes = w[1].contact_nodes
                   /\ \A i \in 2 .. Len(v) : v[i] = w[i]
      BY <3>1 DEF SameAbove
    <3> DEFINE Y == X \cup {r}
    <3>4. v \in Seq(Y) /\ w \in Seq(Y) /\ r \in Y
      BY <3>3
    <3> HIDE DEF Y
    <3>5. /\ t \in Seq(Y) /\ Len(t) = Len(v) + 1 /\ t[Len(v) + 1] = r
          /\ \A i \in 1 .. Len(v) : t[i] = v[i]
      BY <3>2, <3>4
    <3>6. /\ u \in Seq(Y) /\ Len(u) = Len(w) + 1 /\ u[Len(w) + 1] = r
          /\ \A i \in 1 .. Len(w) : u[i] = w[i]
      BY <3>2, <3>4
    <3>7. Len(v) \in Nat
      BY <3>4
    <3>8. \A i \in 2 .. Len(t) : t[i] = u[i]
      <4> SUFFICES ASSUME NEW i \in 2 .. Len(t) PROVE t[i] = u[i]
        OBVIOUS
      <4>1. i = Len(v) + 1 \/ (i \in 2 .. Len(v) /\ i \in 1 .. Len(v))
        BY <3>5, <3>7
      <4>2. QED BY <3>3, <3>5, <3>6, <4>1
    <3>9. Len(t) = Len(u) /\ Len(t) >= 1 /\ t[1] = v[1] /\ u[1] = w[1]
      BY <3>3, <3>5, <3>6, <3>7
    <3>10. QED BY <3>3, <3>5, <3>6, <3>8, <3>9 DEF SameAbove
  <2> HIDE DEF t, u, after, next, contacts
  <2>7. <<>> \in Seq(Contacted)
    OBVIOUS
  <2>8. QED BY <2>1, <2>4, <2>5, <2>6, <2>7 DEF InStep
<1>3. QED BY <1>1, <1>2

LEMMA TablesInStep ==
    ASSUME NumCnodes[0] = NumCnodes[1], NEW list, Contacted \subseteq list,
           NEW n \in Node, NEW h
    PROVE  SameAbove(n, list, create_hgfr_table(n, h, list), create_hgfr_table(n, h, Node))
<1>1. PICK f :
        /\ f[0] = FirstListed(n, list)
        /\ \A l \in 1 .. Top : f[l] = NextListed(n, h, l, f[l - 1], list)
        /\ create_hgfr_table(n, h, list) = f[Top].tables
  BY CreatedUnrolled
<1>2. PICK g :
        /\ g[0] = FirstListed(n, Node)
        /\ \A l \in 1 .. Top : g[l] = NextListed(n, h, l, g[l - 1], Node)
        /\ create_hgfr_table(n, h, Node) = g[Top].tables
  BY CreatedUnrolled
<1>3. Top \in 0 .. 5
  BY TopType
<1>4. InStep(n, list, f[0], g[0])
  BY <1>1, <1>2, FirstInStep
<1>5. \A l \in 1 .. Top, k \in 0 .. Top :
        k = l - 1 /\ InStep(n, list, f[k], g[k]) => InStep(n, list, f[l], g[l])
  <2> SUFFICES ASSUME NEW l \in 1 .. Top, NEW k \in 0 .. Top, k = l - 1,
                      InStep(n, list, f[k], g[k])
               PROVE  InStep(n, list, f[l], g[l])
    OBVIOUS
  <2>1. f[l] = NextListed(n, h, l, f[k], list) /\ g[l] = NextListed(n, h, l, g[k], Node)
    BY <1>1, <1>2
  <2>2. QED BY <2>1, NextInStep
<1>6. 1 <= Top => InStep(n, list, f[1], g[1])
  BY <1>3, <1>4, <1>5
<1>7. 2 <= Top => InStep(n, list, f[2], g[2])
  BY <1>3, <1>5, <1>6
<1>8. 3 <= Top => InStep(n, list, f[3], g[3])
  BY <1>3, <1>5, <1>7
<1>9. 4 <= Top => InStep(n, list, f[4], g[4])
  BY <1>3, <1>5, <1>8
<1>10. 5 <= Top => InStep(n, list, f[5], g[5])
  BY <1>3, <1>5, <1>9
<1>11. InStep(n, list, f[Top], g[Top])
  BY <1>3, <1>4, <1>6, <1>7, <1>8, <1>9, <1>10
<1>12. QED BY <1>1, <1>2, <1>11 DEF InStep

\* Whom the rings of a client up to the state's join, by their ids, and who is in.
DriftedRing(n, l) ==
    IF l = 3
    THEN {m \in Node : ResidesById(m, 2) /\ \A d \in {2} \cup (4 .. Top) : m[d] = n[d]}
    ELSE RingById(n, l)
Joins(n, l) == l <= Top /\ ResidesById(n, IF l = 3 THEN 2 ELSE l)

LEMMA JoinedContacted ==
    ASSUME NEW n, NEW l \in 1 .. 3
    PROVE  DriftedRing(n, l) \subseteq Contacted
<1> SUFFICES ASSUME NEW m \in DriftedRing(n, l) PROVE m \in Contacted
  OBVIOUS
<1>1. m \in Node /\ ResidesById(m, IF l = 3 THEN 2 ELSE l)
  BY RegionDigits DEF DriftedRing, RingById
<1>2. QED BY <1>1 DEF ResidesById, Contacted

LEMMA SameDrifted ==
    ASSUME NEW n, NEW l \in 0 .. 3, Joins(n, l), NEW m \in DriftedRing(n, l)
    PROVE  m \in Node /\ Joins(m, l) /\ DriftedRing(m, l) = DriftedRing(n, l)
<1>1. CASE l = 3
  BY <1>1 DEF DriftedRing, Joins
<1>2. CASE l # 3
  BY <1>2, SameRing DEF DriftedRing, Joins
<1>3. QED BY <1>1, <1>2

LEMMA RingsListed ==
    ASSUME SameLimits, NumCnodes[0] = NumCnodes[1],
           NEW list, Contacted \subseteq list, NEW n \in Node, NEW h, NEW l \in 0 .. 3
    PROVE  LET t == create_hgfr_table(n, h, list)
           IN  /\ Len(t) \in Nat
               /\ l < Len(t) <=> Joins(n, l)
               /\ l < Len(t) => ToSet(t[l + 1].peer_list) = DriftedRing(n, l) \cap list
<1> DEFINE t == create_hgfr_table(n, h, list)
           w == create_hgfr_table(n, h, Node)
           f == FormStructure(n, h)
<1>1. SameAbove(n, list, t, w) /\ Drifted(n, w, f)
  BY TablesInStep, DriftOf
<1>2. PICK high \in 0 .. Top :
        /\ Len(f) = high + 1
        /\ \A j \in 0 .. Top : ResidesById(n, j) <=> j <= high
        /\ \A j \in 0 .. high : RightRing(n, j, f[j + 1])
  BY TablesRight
<1> HIDE DEF t, w, f
<1>3. /\ Len(t) = Len(w) /\ Len(w) \in Nat
      /\ t[1].peer_list = Among(DistrictPeers(n), list)
      /\ \A i \in 2 .. Len(t) : t[i] = w[i]
  BY <1>1 DEF SameAbove, Drifted
<1>4. Top \in {2, 3, 5} /\ LastLevel = Top
  BY LastIsTop
<1>5. l # 3 => (l < Len(t) <=> l <= high)
  <2>1. l # 3 => l \in 0 .. 2
    OBVIOUS
  <2>2. l # 3 => (l < Len(t) <=> l < Len(f))
    BY <1>1, <1>3, <2>1 DEF Drifted
  <2>3. QED BY <1>2, <1>4, <2>2
<1>6. l < Len(t) <=> Joins(n, l)
  <2>1. CASE l = 3
    BY <1>1, <1>3, <1>4, <2>1 DEF Drifted, Joins
  <2>2. CASE l # 3
    <3>1. l \in 0 .. Top /\ l <= Top
      BY <1>4, <2>2
    <3>2. QED BY <1>2, <1>5, <2>2, <3>1 DEF Joins
  <2>3. QED BY <2>1, <2>2
<1>7. ASSUME l < Len(t) PROVE ToSet(t[l + 1].peer_list) = DriftedRing(n, l) \cap list
  <2>1. CASE l = 0
    <3>1. ToSet(Among(DistrictPeers(n), list)) = ToSet(DistrictPeers(n)) \cap list
      BY DistrictList, MembersKept
    <3>2. ToSet(DistrictPeers(n)) = RingById(n, 0)
      BY DistrictList
    <3>3. l + 1 = 1
      BY <2>1
    <3>4. QED BY <1>3, <2>1, <3>1, <3>2, <3>3 DEF DriftedRing
  <2>2. CASE l # 0
    <3>1. ToSet(w[l + 1].peer_list) = DriftedRing(n, l)
      <4>1. CASE l = 3
        BY <1>1, <1>3, <1>7, <4>1 DEF Drifted, DriftedRing
      <4>2. CASE l # 3
        <5>1. l \in 0 .. 2 /\ l < Len(w) /\ l \in 0 .. high
          BY <1>2, <1>3, <1>5, <1>7, <4>2
        <5>2. w[l + 1] = f[l + 1]
          BY <1>1, <5>1 DEF Drifted
        <5>3. ToSet(f[l + 1].peer_list) = RingById(n, l)
          BY <1>2, <5>1 DEF RightRing
        <5>4. QED BY <4>2, <5>2, <5>3 DEF DriftedRing
      <4>3. QED BY <4>1, <4>2
    <3>2. l + 1 \in 2 .. Len(t) /\ l \in 1 .. 3
      BY <1>3, <1>7, <2>2
    <3>3. DriftedRing(n, l) \subseteq list
      BY <3>2, JoinedContacted
    <3>4. QED BY <1>3, <3>1, <3>2, <3>3
  <2>3. QED BY <2>1, <2>2
<1>8. QED BY <1>3, <1>6, <1>7 DEF t

\* The city ring of a contact of its district, in any list.
LEMMA FirstRings ==
    ASSUME NEW list, list \subseteq Node, NEW n \in list, n[0] < Contacts, NEW h
    PROVE  LET t == create_hgfr_table(n, h, list)
           IN  /\ Len(t) \in Nat /\ Len(t) > 1
               /\ \A m : m \in ToSet(t[2].peer_list) <=>
                    /\ m \in list /\ \A d \in 2 .. Top : m[d] = n[d]
                    /\ \E x \in list : /\ x[0] < Contacts /\ m[0] = x[0]
                                       /\ \A d \in 1 .. Top : x[d] = n[d]
<1> DEFINE first == FirstOf(DistrictPeers(n), NumCnodes[0])
           contacts == Listed(first, list)
           r == [peer_list |-> Listed(DistrictPeers(n), list),
                 contact_nodes |-> ToSet(contacts)]
           peers == RingPeers(n, 1, contacts)
           listed == Listed(peers, list)
<1>1. PICK f :
        /\ f[0] = FirstListed(n, list)
        /\ \A l \in 1 .. Top : f[l] = NextListed(n, h, l, f[l - 1], list)
        /\ create_hgfr_table(n, h, list) = f[Top].tables
  BY CreatedUnrolled
<1>2. Top \in {2, 3, 5} /\ 1 \in 1 .. Top
  BY LastIsTop
<1>3. contacts \in Seq(Node) /\ ToSet(contacts) = ContactsById(n, 0) \cap list
  <2>1. first \in Seq(Node) /\ ToSet(first) = ContactsById(n, 0)
    BY DistrictList DEF ContactLimit
  <2> HIDE DEF first
  <2>2. QED BY <2>1, MembersKept DEF Listed
<1> HIDE DEF contacts
<1>4. \A x : x \in ToSet(contacts) <=>
            x \in list /\ x[0] < Contacts /\ \A d \in 1 .. Top : x[d] = n[d]
  <2>1. \A x : ResidesById(x, 0 + 1) <=> x[0] < Contacts
    BY DEF ResidesById
  <2>2. 0 + 1 .. Top = 1 .. Top
    OBVIOUS
  <2>3. \A x : x \in SameRegion(n, 0) <=> x \in Node /\ \A d \in 1 .. Top : x[d] = n[d]
    BY <2>2, RegionDigits
  <2>4. QED BY <1>3, <2>1, <2>3 DEF ContactsById
<1>5. n \in ToSet(contacts)
  BY <1>4
<1>6. contacts # <<>>
  BY <1>5 DEF ToSet
<1>7. f[0] = [tables |-> <<r>>, contact_nodes_list |-> contacts, next |-> <<>>]
  BY <1>1 DEF FirstListed, contacts
<1> HIDE DEF r
<1>8. ListedPeers(n, 1, contacts, list) = listed
  <2>1. ListedWidth(1) = Width(1)
    BY DEF ListedWidth
  <2>2. QED BY <2>1 DEF ListedPeers, RingPeers
<1>9. peers \in Seq(Node)
      /\ ToSet(peers) = {m \in Node : \E x \in ToSet(contacts) :
                            /\ \A d \in 0 .. 1 - 1 : m[d] = x[d]
                            /\ \A d \in 1 + 1 .. Top : m[d] = n[d]}
  <2>1. peers \in Seq(Node)
    BY <1>2, <1>3, <1>6, Transplanted
  <2>2. ToSet(peers) = {m \in Node : \E x \in ToSet(contacts) :
                            /\ \A d \in 0 .. 1 - 1 : m[d] = x[d]
                            /\ \A d \in 1 + 1 .. Top : m[d] = n[d]}
    BY <1>2, <1>3, <1>6, RingMembers
  <2>3. QED BY <2>1, <2>2
<1> HIDE DEF peers
<1>10. ToSet(listed) = ToSet(peers) \cap list
  BY <1>9, MembersKept DEF Listed
<1>11. \A m : m \in ToSet(listed) <=>
            /\ m \in list /\ \A d \in 2 .. Top : m[d] = n[d]
            /\ \E x \in list : /\ x[0] < Contacts /\ m[0] = x[0]
                               /\ \A d \in 1 .. Top : x[d] = n[d]
  <2>1. 0 .. 1 - 1 = {0} /\ 1 + 1 .. Top = 2 .. Top
    OBVIOUS
  <2>2. \A m : m \in ToSet(peers) <=>
            /\ m \in Node /\ \A d \in 2 .. Top : m[d] = n[d]
            /\ \E x \in ToSet(contacts) : m[0] = x[0]
    BY <1>6, <1>5, <1>9, <2>1
  <2>3. QED BY <1>4, <1>10, <2>2
<1> HIDE DEF listed
<1>12. \E c : f[1].tables = Append(<<r>>, [peer_list |-> listed, contact_nodes |-> c])
  <2> DEFINE b == f[0]
             next == b.next \o Among(FirstOf(listed, ContactLimit(1)), Node \ ToSet(b.next))
             x == [peer_list |-> listed, contact_nodes |-> ToSet(next)]
             after == IF 1 = LastLevel THEN <<>> ELSE MapIteration(h[Region(n, 1)], next)
  <2>1. f[1] = NextListed(n, h, 1, b, list)
    BY <1>1, <1>2
  <2>2. b.contact_nodes_list = contacts /\ b.tables = <<r>>
    BY <1>7
  <2> HIDE DEF b
  <2>3. NextListed(n, h, 1, b, list) =
            IF Carries(1)
            THEN [tables |-> Append(b.tables, x), contact_nodes_list |-> after,
                  next |-> <<>>]
            ELSE [tables |-> Append(b.tables, x),
                  contact_nodes_list |-> b.contact_nodes_list, next |-> next]
    BY <1>5, <1>8, <2>2 DEF NextListed
  <2>4. Carries(1)
    BY DEF Carries
  <2> HIDE DEF next, after
  <2>5. f[1].tables = Append(b.tables, x)
    BY <2>1, <2>3, <2>4
  <2>6. QED BY <2>2, <2>5
<1>13. /\ Extends(f[1].tables, f[1].tables) /\ Len(f[1].tables) = 2
       /\ f[1].tables[2].peer_list = listed
  <2>1. PICK c : f[1].tables = Append(<<r>>, [peer_list |-> listed, contact_nodes |-> c])
    BY <1>12
  <2> DEFINE x == [peer_list |-> listed, contact_nodes |-> c]
             u == <<r>>
  <2>2. f[1].tables = Append(u, x) /\ x.peer_list = listed /\ u \in Seq({r}) /\ Len(u) = 1
    BY <2>1
  <2> HIDE DEF u, x
  <2>3. /\ Extends(u, Append(u, x))
        /\ Len(Append(u, x)) = Len(u) + 1 /\ Append(u, x)[Len(u) + 1] = x
    BY <2>2, AppendExtends
  <2>4. Extends(Append(u, x), Append(u, x))
    BY <2>3, ExtendsItself
  <2>5. Len(u) + 1 = 2
    BY <2>2
  <2>6. QED BY <2>2, <2>3, <2>4, <2>5
<1>14. Extends(f[1].tables, f[Top].tables)
  <2>1. \A k \in 1 .. 4, l \in 2 .. 5 : l <= Top /\ k = l - 1 =>
            (Extends(f[1].tables, f[k].tables) => Extends(f[1].tables, f[l].tables))
    <3> SUFFICES ASSUME NEW k \in 1 .. 4, NEW l \in 2 .. 5, l <= Top, k = l - 1,
                        Extends(f[1].tables, f[k].tables)
                 PROVE  Extends(f[1].tables, f[l].tables)
      OBVIOUS
    <3>1. f[l] = NextListed(n, h, l, f[k], list)
      BY <1>1, <1>2
    <3>2. Extends(f[k].tables, f[l].tables)
      BY <3>1, ExtendsItself, LevelsExtend
    <3>3. QED BY <3>2, ExtendsTwice
  <2>2. Extends(f[1].tables, f[2].tables)
    BY <1>2, <1>13, <2>1
  <2>3. 3 <= Top => Extends(f[1].tables, f[3].tables)
    BY <2>1, <2>2
  <2>4. 5 <= Top => Extends(f[1].tables, f[4].tables)
    BY <1>2, <2>1, <2>3
  <2>5. 5 <= Top => Extends(f[1].tables, f[5].tables)
    BY <2>1, <2>4
  <2>6. QED BY <1>2, <2>2, <2>3, <2>5
<1>15. /\ Len(f[Top].tables) \in Nat /\ Len(f[Top].tables) > 1
       /\ f[Top].tables[2].peer_list = listed
  <2> DEFINE u == f[1].tables
             v == f[Top].tables
  <2>1. Extends(u, v) /\ Len(u) = 2 /\ u[2].peer_list = listed
    BY <1>13, <1>14
  <2> HIDE DEF u, v
  <2>2. Len(v) \in Nat /\ Len(v) > 1 /\ v[2] = u[2]
    BY <2>1 DEF Extends
  <2>3. QED BY <2>1, <2>2 DEF v
<1>16. QED BY <1>1, <1>11, <1>15

\* Whatever is missing, the tables are a list.
LEMMA TablesLength ==
    ASSUME NEW n, NEW h, NEW list
    PROVE  Len(create_hgfr_table(n, h, list)) \in Nat
<1>1. PICK f :
        /\ f[0] = FirstListed(n, list)
        /\ \A l \in 1 .. Top : f[l] = NextListed(n, h, l, f[l - 1], list)
        /\ create_hgfr_table(n, h, list) = f[Top].tables
  BY CreatedUnrolled
<1> DEFINE Fine(l) == Extends(f[l].tables, f[l].tables)
<1>2. Fine(0)
  <2>1. PICK r : f[0].tables = <<r>>
    BY <1>1 DEF FirstListed
  <2> DEFINE u == <<r>>
  <2>2. u \in Seq({r}) /\ Len(u) = 1
    OBVIOUS
  <2> HIDE DEF u
  <2>3. Extends(u, u)
    BY <2>2 DEF Extends
  <2>4. QED BY <2>1, <2>3 DEF u
<1>3. \A k \in 0 .. 4, l \in 1 .. 5 : l <= Top /\ k = l - 1 /\ Fine(k) => Fine(l)
  <2> SUFFICES ASSUME NEW k \in 0 .. 4, NEW l \in 1 .. 5, l <= Top, k = l - 1, Fine(k)
               PROVE  Fine(l)
    OBVIOUS
  <2>1. f[l] = NextListed(n, h, l, f[k], list)
    BY <1>1, LastIsTop
  <2>2. QED BY <2>1, LevelsExtend, ExtendsItself
<1>4. Top \in {2, 3, 5}
  BY LastIsTop
<1> HIDE DEF Fine
<1>5. Fine(2)
  BY <1>2, <1>3, <1>4
<1>6. 3 <= Top => Fine(3)
  BY <1>3, <1>5
<1>7. 5 <= Top => Fine(5)
  BY <1>3, <1>4, <1>6
<1>8. Fine(Top)
  BY <1>4, <1>5, <1>6, <1>7
<1>9. QED BY <1>1, <1>8 DEF Fine, Extends

\* What ListedRingsAgree asks of the tables made from a list.
AgreeOn(list, h) ==
    LET t(n) == create_hgfr_table(n, h, list)
        RingOf(n, l) == ToSet(t(n)[l + 1].peer_list)
    IN  \A n \in list : \A l \in 0 .. 3 : l < Len(t(n)) =>
            \A m \in RingOf(n, l) : /\ m \in list /\ l < Len(t(m))
                                    /\ RingOf(m, l) = RingOf(n, l)

LEMMA OthersAgree ==
    ASSUME SameLimits, NumCnodes[0] = NumCnodes[1],
           NEW list, list \subseteq Node, Contacted \subseteq list, NEW h
    PROVE  AgreeOn(list, h)
<1> DEFINE t(n) == create_hgfr_table(n, h, list)
           RingOf(n, l) == ToSet(t(n)[l + 1].peer_list)
<1> SUFFICES ASSUME NEW n \in list, NEW l \in 0 .. 3, l < Len(t(n)), NEW m \in RingOf(n, l)
             PROVE  m \in list /\ l < Len(t(m)) /\ RingOf(m, l) = RingOf(n, l)
  BY DEF AgreeOn
<1>1. \A x \in Node : /\ l < Len(t(x)) <=> Joins(x, l)
                      /\ l < Len(t(x)) => RingOf(x, l) = DriftedRing(x, l) \cap list
  BY RingsListed
<1> HIDE DEF t
<1>2. Joins(n, l) /\ m \in DriftedRing(n, l) /\ m \in list
  BY <1>1
<1>3. m \in Node /\ Joins(m, l) /\ DriftedRing(m, l) = DriftedRing(n, l)
  BY <1>2, SameDrifted
<1>4. QED BY <1>1, <1>2, <1>3

\* A district that misses one of its contacts has none of that number for the
\* other districts of the city, where its other contacts are known.
LEMMA AbsenceSpreads ==
    ASSUME NEW list, list \subseteq Node, NEW x \in Node \ list, x[0] < Contacts,
           \A y \in Node \ list : y[0] < Contacts => y = x,
           Contacts >= 2, Width(1) >= 2, NEW h
    PROVE  ~ AgreeOn(list, h)
<1> DEFINE i == IF x[0] = 0 THEN 1 ELSE 0
           j == IF x[1] = 0 THEN 1 ELSE 0
           c == [d \in 0 .. Top |-> IF d = 0 THEN i ELSE x[d]]
           y == [d \in 0 .. Top |-> IF d = 1 THEN j ELSE x[d]]
           m == [d \in 0 .. Top |-> IF d = 0 THEN i ELSE IF d = 1 THEN j ELSE x[d]]
<1>1. /\ Top \in {2, 3, 5} /\ 0 \in 0 .. Top /\ 1 \in 0 .. Top
      /\ Contacts \in Nat /\ Contacts <= Width(0)
      /\ \A d \in 0 .. Top : Width(d) \in Nat /\ x[d] \in Nat /\ x[d] < Width(d)
      /\ x \in [0 .. Top -> Nat]
  <2>1. Top \in {2, 3, 5}
    BY LastIsTop
  <2>2. \A d \in 0 .. Top : Width(d) \in Nat
    BY <2>1, WidthType
  <2>3. x \in [0 .. Top -> Nat] /\ \A d \in 0 .. Top : x[d] \in Nat /\ x[d] < Width(d)
    BY Digits
  <2>4. QED BY <2>1, <2>2, <2>3, ContactsType
<1>2. /\ i \in Nat /\ i < Contacts /\ i < Width(0) /\ i # x[0]
      /\ j \in Nat /\ j < Width(1) /\ j # x[1]
  <2>1. Width(0) \in Nat /\ Width(1) \in Nat /\ x[0] \in Nat /\ x[1] \in Nat
    BY <1>1
  <2>2. QED BY <1>1, <2>1
<1> HIDE DEF i, j
<1>3. c \in Node /\ y \in Node /\ m \in Node
  <2>1. /\ c \in [0 .. Top -> Nat] /\ \A d \in 0 .. Top : c[d] < Width(d)
        /\ y \in [0 .. Top -> Nat] /\ \A d \in 0 .. Top : y[d] < Width(d)
        /\ m \in [0 .. Top -> Nat] /\ \A d \in 0 .. Top : m[d] < Width(d)
    BY <1>1, <1>2
  <2> HIDE DEF c, y, m
  <2>2. QED BY <2>1, NodeIds
<1>4. /\ c[0] = i /\ c[1] = x[1] /\ y[0] = x[0] /\ y[1] = j /\ m[0] = i /\ m[1] = j
      /\ \A d \in 1 .. Top : c[d] = x[d] /\ m[d] = y[d]
      /\ \A d \in 2 .. Top : c[d] = x[d] /\ y[d] = x[d] /\ m[d] = x[d]
  BY <1>1
<1> HIDE DEF c, y, m
<1>5. c \in list /\ y \in list /\ m \in list
  BY <1>2, <1>3, <1>4
<1> DEFINE t(n) == create_hgfr_table(n, h, list)
           RingOf(n, l) == ToSet(t(n)[l + 1].peer_list)
           City(n) == RingOf(n, 1)
<1>6. \A n \in list : n[0] < Contacts =>
        /\ Len(t(n)) > 1
        /\ \A z : z \in City(n) <=>
                    /\ z \in list /\ \A d \in 2 .. Top : z[d] = n[d]
                    /\ \E v \in list : /\ v[0] < Contacts /\ z[0] = v[0]
                                       /\ \A d \in 1 .. Top : v[d] = n[d]
  <2>1. 1 + 1 = 2
    OBVIOUS
  <2>2. QED BY <2>1, FirstRings
<1>7. SUFFICES ASSUME AgreeOn(list, h) PROVE FALSE
  OBVIOUS
<1>8. 1 < Len(t(c)) => \A z \in City(c) : City(z) = City(c)
  BY <1>5, <1>7 DEF AgreeOn
<1> HIDE DEF t, RingOf, City
<1>9. m \in City(c)
  BY <1>2, <1>4, <1>5, <1>6
<1>10. y \in City(m)
  <2>1. y[0] < Contacts /\ m[0] < Contacts
    BY <1>2, <1>4
  <2>2. (\A d \in 2 .. Top : y[d] = m[d]) /\ \A d \in 1 .. Top : y[d] = m[d]
    BY <1>4
  <2>3. QED BY <1>5, <1>6, <2>1, <2>2
<1>11. y \notin City(c)
  <2> SUFFICES ASSUME NEW v \in list, y[0] = v[0], \A d \in 1 .. Top : v[d] = c[d]
               PROVE  FALSE
    BY <1>2, <1>4, <1>5, <1>6
  <2>1. \A d \in 0 .. Top : d = 0 \/ d \in 1 .. Top
    BY <1>1
  <2>2. \A d \in 0 .. Top : v[d] = x[d]
    BY <1>4, <2>1
  <2>3. v \in [0 .. Top -> Nat]
    BY Digits
  <2>4. v = x
    BY <1>1, <2>2, <2>3, SameIds
  <2>5. QED BY <2>4
<1>12. Len(t(c)) \in Nat /\ Len(t(c)) > 1
  <2>1. Len(t(c)) \in Nat
    BY TablesLength DEF t
  <2>2. QED BY <1>2, <1>4, <1>5, <1>6, <2>1
<1>13. QED BY <1>8, <1>9, <1>10, <1>11, <1>12

\* Districts with two contacts at least, and cities with two districts; in a list
\* one contact at most is missing, and whoever else.
FewMissing ==
    /\ NumNodes[0] >= 2 /\ NumCnodes[0] >= 2 /\ Width(1) >= 2
    /\ \A list \in NodeLists : \A x, y \in Node \ list :
            x[0] < NumCnodes[0] /\ y[0] < NumCnodes[0] => x = y

\* Lists come from the server.
ListInv == node_list = {} \/ node_list \in NodeLists

LEMMA ListsStay == TablesSpec => []ListInv
<1>1. TablesInit => ListInv
  BY DEF TablesInit, ListInv
<1>2. ListInv /\ [TablesNext]_evalVars => ListInv'
  BY DEF ListInv, TablesNext, Configure, Table, evalVars
<1>3. QED BY <1>1, <1>2, PTL DEF TablesSpec

(***************************************************************************)
(* Where dist and city have as many contacts an evaluation client's rings  *)
(* up to the city's are those of form_structure, whoever else than a       *)
(* contact is missing in the list.                                         *)
(***************************************************************************)
THEOREM KeptRings ==
    ASSUME SameLimits PROVE TablesSpec => []CopyKeeps
<1>1. ListInv /\ hash \in Hashes => CopyKeeps
  <2> SUFFICES ASSUME ListInv, hash \in Hashes, NumCnodes[0] = NumCnodes[1],
                      \A x \in Node \ node_list : x[0] >= NumCnodes[0],
                      NEW n \in node_list
               PROVE  LET t == ListedTables
                          f == FormedTables[hash]
                      IN  /\ ToSet(t[n][1].peer_list) = ToSet(f[n][1].peer_list) \cap node_list
                          /\ t[n][1].contact_nodes = f[n][1].contact_nodes
                          /\ \A l \in 1 .. 2 :
                                /\ l < Len(t[n]) <=> l < Len(f[n])
                                /\ l < Len(t[n]) => t[n][l + 1] = f[n][l + 1]
    BY DEF CopyKeeps
  <2>1. node_list \subseteq Node /\ n \in Node
    BY TablesAssumption DEF ListInv
  <2>2. Contacted \subseteq node_list
    <3>1. \A x \in Node : x[0] \in Nat /\ NumCnodes[0] \in Nat
      BY LastIsTop, Digits, ContactsType
    <3>2. \A x \in Node : x[0] >= NumCnodes[0] <=> ~ x[0] < Contacts
      BY <3>1, ContactedSame
    <3>3. QED BY <3>2 DEF Contacted
  <2> DEFINE t == create_hgfr_table(n, hash, node_list)
             w == create_hgfr_table(n, hash, Node)
             f == FormStructure(n, hash)
  <2>3. SameAbove(n, node_list, t, w) /\ Drifted(n, w, f)
    BY <2>1, <2>2, TablesInStep, DriftOf
  <2>4. ListedTables[n] = t /\ FormedTables[hash][n] = f
    BY <2>1 DEF ListedTables, FormedTables
  <2>5. PICK high \in 0 .. Top : /\ Len(f) = high + 1
                                 /\ \A l \in 0 .. high : RightRing(n, l, f[l + 1])
    BY <2>1, TablesRight
  <2> HIDE DEF t, w, f
  <2>6. /\ Len(t) = Len(w) /\ Len(w) \in Nat /\ Len(t) >= 1
        /\ t[1].peer_list = Among(DistrictPeers(n), node_list)
        /\ t[1].contact_nodes = w[1].contact_nodes
        /\ \A i \in 2 .. Len(t) : t[i] = w[i]
    BY <2>3 DEF SameAbove, Drifted
  <2>7. w[1] = f[1]
    <3>1. 0 \in 0 .. 2 /\ 0 < Len(w) /\ 0 + 1 = 1
      BY <2>6
    <3>2. QED BY <2>3, <3>1 DEF Drifted
  <2>8. ToSet(t[1].peer_list) = ToSet(f[1].peer_list) \cap node_list
    <3>1. ToSet(Among(DistrictPeers(n), node_list)) = ToSet(DistrictPeers(n)) \cap node_list
      BY <2>1, DistrictList, MembersKept
    <3>2. ToSet(DistrictPeers(n)) = RingById(n, 0)
      BY <2>1, DistrictList
    <3>3. 0 \in 0 .. high /\ 0 + 1 = 1
      BY TopType
    <3>4. ToSet(f[1].peer_list) = RingById(n, 0)
      BY <2>5, <3>3 DEF RightRing
    <3>5. QED BY <2>6, <3>1, <3>2, <3>4
  <2>9. ASSUME NEW l \in 1 .. 2
        PROVE  /\ l < Len(t) <=> l < Len(f)
               /\ l < Len(t) => t[l + 1] = f[l + 1]
    <3>1. l \in 0 .. 2 /\ (l < Len(t) => l + 1 \in 2 .. Len(t))
      BY <2>6
    <3>2. QED BY <2>3, <2>6, <3>1 DEF Drifted
  <2>10. QED BY <2>4, <2>6, <2>7, <2>8, <2>9
<1>2. QED BY <1>1, HashesStay, ListsStay, PTL

(***************************************************************************)
(* As long as all contacts are in the list, whoever else is missing, the   *)
(* rings up to the state's are agreed on: only the district's passes over  *)
(* anyone (eval_client.cpp:203).  With one contact missing they are not: the*)
(* rest of its district makes the city ring without nodes of its number,   *)
(* and the city's other districts make it with them (:257-264).            *)
(***************************************************************************)
THEOREM ListedAgreement ==
    ASSUME SameLimits, NumCnodes[0] = NumCnodes[1], FewMissing
    PROVE  TablesSpec => []ListedRingsAgree
<1>1. ListInv => ListedRingsAgree
  <2> SUFFICES ASSUME node_list # {}, node_list \in NodeLists PROVE ListedRingsAgree
    BY DEF ListInv, ListedRingsAgree
  <2>1. node_list \subseteq Node
    BY TablesAssumption
  <2> DEFINE t == ListedTables
             RingOf(n, l) == ToSet(t[n][l + 1].peer_list)
             Same(n, l) == \A m \in RingOf(n, l) : /\ m \in node_list /\ l < Len(t[m])
                                                    /\ RingOf(m, l) = RingOf(n, l)
             Agree == \A n \in node_list : \A l \in 0 .. Len(t[n]) - 1 : l <= 3 => Same(n, l)
             Whole == \A x \in Node \ node_list : x[0] >= NumCnodes[0]
  <2>2. Agree <=> AgreeOn(node_list, hash)
    <3> DEFINE u(n) == create_hgfr_table(n, hash, node_list)
               Ring1(n, l) == ToSet(u(n)[l + 1].peer_list)
               Fits(n, l) == \A m \in Ring1(n, l) : /\ m \in node_list /\ l < Len(u(m))
                                                    /\ Ring1(m, l) = Ring1(n, l)
    <3>1. \A n \in node_list : t[n] = u(n)
      BY DEF ListedTables
    <3>2. \A n \in node_list : Len(u(n)) \in Nat
      BY TablesLength
    <3>3. AgreeOn(node_list, hash) <=>
            \A n \in node_list : \A l \in 0 .. 3 : l < Len(u(n)) => Fits(n, l)
      BY DEF AgreeOn
    <3>4. Agree <=> \A n \in node_list : \A l \in 0 .. Len(u(n)) - 1 : l <= 3 => Fits(n, l)
      <4>1. \A n \in node_list : \A l : Same(n, l) <=> Fits(n, l)
        <5> SUFFICES ASSUME NEW n \in node_list, NEW l PROVE Same(n, l) <=> Fits(n, l)
          OBVIOUS
        <5> HIDE DEF t, u
        <5>1. \A m \in node_list : t[m] = u(m) /\ RingOf(m, l) = Ring1(m, l)
          BY <3>1
        <5> HIDE DEF RingOf, Ring1
        <5>2. QED BY <5>1
      <4> HIDE DEF t, u, Same, Fits
      <4>2. QED BY <3>1, <4>1
    <3> HIDE DEF Fits, Agree, u
    <3>5. \A n \in node_list : \A l :
            (l \in 0 .. Len(u(n)) - 1 /\ l <= 3) <=> (l \in 0 .. 3 /\ l < Len(u(n)))
      BY <3>2
    <3>6. QED BY <3>3, <3>4, <3>5
  <2>3. ListedRingsAgree <=> (Agree <=> Whole)
    BY DEF ListedRingsAgree
  <2>4. Whole <=> Contacted \subseteq node_list
    <3>1. \A x \in Node : x[0] \in Nat /\ NumCnodes[0] \in Nat
      BY LastIsTop, Digits, ContactsType
    <3>2. \A x \in Node : x[0] >= NumCnodes[0] <=> ~ x[0] < Contacts
      BY <3>1, ContactedSame
    <3>3. QED BY <3>2 DEF Contacted
  <2> HIDE DEF Agree, Whole
  <2>5. CASE Contacted \subseteq node_list
    <3>1. AgreeOn(node_list, hash)
      BY <2>1, <2>5, OthersAgree
    <3>2. QED BY <2>2, <2>3, <2>4, <2>5, <3>1
  <2>6. CASE ~ Contacted \subseteq node_list
    <3>1. PICK x \in Node \ node_list : x[0] < Contacts
      BY <2>6 DEF Contacted
    <3>2. \A y \in Node \ node_list : y[0] < Contacts => y = x
      BY <3>1, ContactedSame DEF FewMissing
    <3>3. Contacts >= 2 /\ Width(1) >= 2
      BY DEF FewMissing, Contacts
    <3>4. ~ AgreeOn(node_list, hash)
      BY <2>1, <3>1, <3>2, <3>3, AbsenceSpreads
    <3>5. QED BY <2>2, <2>3, <2>4, <2>6, <3>4
  <2>7. QED BY <2>5, <2>6
<1>2. QED BY <1>1, ListsStay, PTL

=============================================================================
