------------------------ MODULE EvalBootstrap_proofs ------------------------
(***************************************************************************)
(* Proofs about NodeIds, for every shape, and about EvalBootstrap, for any *)
(* number of clients, any sequence of configurations and every bound.      *)
(***************************************************************************)
EXTENDS EvalBootstrap, FiniteSetTheorems, SequenceTheorems, TLAPS

-----------------------------------------------------------------------------
(***************************************************************************)
(* Division with remainder.                                                *)
(***************************************************************************)
\* What / and % of the code give.
LEMMA DivMod ==
    ASSUME NEW x \in Nat, NEW d \in Nat \ {0}
    PROVE  /\ x \div d \in Nat /\ x % d \in 0 .. d - 1
           /\ x = (x \div d) * d + (x % d)
OBVIOUS

\* Multiplication is monotonic.
LEMMA ProductGrows ==
    ASSUME NEW a \in Nat, NEW b \in Nat, NEW d \in Nat, a <= b
    PROVE  a * d \in Nat /\ b * d \in Nat /\ a * d <= b * d
OBVIOUS

\* Quotient and remainder are the only ones.
LEMMA DivUnique ==
    ASSUME NEW x \in Nat, NEW d \in Nat \ {0}, NEW p \in Nat, NEW r \in 0 .. d - 1,
           x = p * d + r
    PROVE  x \div d = p /\ x % d = r
<1> DEFINE q == x \div d
           t == x % d
<1>1. q \in Nat /\ t \in 0 .. d - 1 /\ x = q * d + t
  BY DivMod
<1> HIDE DEF q, t
<1>2. ~ p < q
  <2> SUFFICES ASSUME p < q PROVE FALSE
    OBVIOUS
  <2>1. (p + 1) * d <= q * d /\ (p + 1) * d = p * d + d
    BY <1>1, ProductGrows
  <2>2. QED BY <1>1, <2>1
<1>3. ~ q < p
  <2> SUFFICES ASSUME q < p PROVE FALSE
    OBVIOUS
  <2>1. (q + 1) * d <= p * d /\ (q + 1) * d = q * d + d
    BY <1>1, ProductGrows
  <2>2. QED BY <1>1, <2>1
<1>4. p = q
  BY <1>1, <1>2, <1>3
<1>5. QED BY <1>1, <1>4 DEF q, t

\* A digit and what is below it.
LEMMA DigitStep ==
    ASSUME NEW x \in Nat, NEW d \in Nat \ {0}, NEW w \in Nat \ {0}
    PROVE  /\ d * w \in Nat \ {0}
           /\ x % (d * w) = ((x \div d) % w) * d + (x % d)
<1> DEFINE q == x \div d
           t == x % d
           p == q \div w
           r == q % w
<1>1. q \in Nat /\ t \in 0 .. d - 1 /\ x = q * d + t
  BY DivMod
<1>2. p \in Nat /\ r \in 0 .. w - 1 /\ q = p * w + r
  BY <1>1, DivMod
<1> HIDE DEF q, t, p, r
<1>3. d * w \in Nat \ {0}
  OBVIOUS
<1>4. x = p * (d * w) + (r * d + t)
  <2>1. q * d = p * (d * w) + r * d
    BY <1>2
  <2>2. r * d \in Nat /\ p * (d * w) \in Nat
    BY <1>2, <1>3
  <2>3. QED BY <1>1, <2>1, <2>2
<1>5. r * d + t \in 0 .. d * w - 1
  <2>1. (r + 1) * d <= w * d /\ (r + 1) * d = r * d + d /\ w * d = d * w /\ r * d \in Nat
    BY <1>2, ProductGrows
  <2>2. QED BY <1>1, <1>3, <2>1
<1>6. x % (d * w) = r * d + t
  BY <1>2, <1>3, <1>4, <1>5, DivUnique
<1>7. QED BY <1>3, <1>6 DEF q, t, p, r

-----------------------------------------------------------------------------
(***************************************************************************)
(* The recursive functions.                                                *)
(***************************************************************************)
\* Weights, one level at a time.
LEMMA WeightsStep ==
    ASSUME NEW w
    PROVE  /\ Weights(w)[0] = 1
           /\ \A l \in 0 .. 4 : Weights(w)[l + 1] = Weights(w)[l] * w[l]
<1> DEFINE P(f) == f = [l \in 0 .. 5 |-> IF l = 0 THEN 1 ELSE f[l - 1] * w[l - 1]]
           F == CHOOSE f : P(f)
           a1 == 1 * w[0]
           a2 == a1 * w[1]
           a3 == a2 * w[2]
           a4 == a3 * w[3]
           a5 == a4 * w[4]
           g == [l \in 0 .. 5 |-> IF l = 0 THEN 1 ELSE IF l = 1 THEN a1
                   ELSE IF l = 2 THEN a2 ELSE IF l = 3 THEN a3
                   ELSE IF l = 4 THEN a4 ELSE a5]
<1>1. P(g)
  OBVIOUS
<1> HIDE DEF g
<1>2. \E f : P(f)
  BY <1>1
<1>3. P(F)
  <2> HIDE DEF P
  <2>1. QED BY <1>2
<1>4. Weights(w) = F
  BY DEF Weights
<1> HIDE DEF F
<1>5. QED BY <1>3, <1>4

\* The sum convert_ID_string_to_int computes, unrolled.
LEMMA SumUnrolled ==
    ASSUME NEW id, NEW s
    PROVE  convert_ID_string_to_int(id, s) =
               id[5] * WeightBack(s)[5] + (id[4] * WeightBack(s)[4]
               + (id[3] * WeightBack(s)[3] + (id[2] * WeightBack(s)[2]
               + (id[1] * WeightBack(s)[1] + (id[0] * WeightBack(s)[0] + 0)))))
<1> DEFINE b == WeightBack(s)
           P(f) == f = [l \in 0 .. 5 |->
                           id[l] * b[l] + (IF l = 0 THEN 0 ELSE f[l - 1])]
           F == CHOOSE f : P(f)
           a0 == id[0] * b[0] + 0
           a1 == id[1] * b[1] + a0
           a2 == id[2] * b[2] + a1
           a3 == id[3] * b[3] + a2
           a4 == id[4] * b[4] + a3
           a5 == id[5] * b[5] + a4
           g == [l \in 0 .. 5 |-> IF l = 0 THEN a0 ELSE IF l = 1 THEN a1
                   ELSE IF l = 2 THEN a2 ELSE IF l = 3 THEN a3
                   ELSE IF l = 4 THEN a4 ELSE a5]
<1>1. convert_ID_string_to_int(id, s) = F[5]
  BY DEF convert_ID_string_to_int
<1> HIDE DEF b
<1>2. P(g)
  OBVIOUS
<1> HIDE DEF g
<1>3. \E f : P(f)
  BY <1>2
<1>4. P(F)
  <2> HIDE DEF P
  <2>1. QED BY <1>3
<1> HIDE DEF F
<1>5. F[0] = a0 /\ \A l \in 1 .. 5 : F[l] = id[l] * b[l] + F[l - 1]
  BY <1>4
<1>6. F[1] = a1 /\ F[2] = a2 /\ F[3] = a3 /\ F[4] = a4 /\ F[5] = a5
  BY <1>5
<1>7. QED BY <1>1, <1>6 DEF b

-----------------------------------------------------------------------------
(***************************************************************************)
(* The weights of a shape.                                                 *)
(***************************************************************************)

\* Every level is at least one region wide, counted one way; no width is
\* negative, counted the other.
LEMMA WidthsPositive ==
    ASSUME NEW s, IsShape(s)
    PROVE  /\ \A l \in 0 .. 4 : Width(s, l) \in Nat \ {0} /\ WidthBack(s, l) \in Nat
           /\ s.continents \in Nat \ {0}
<1>1. /\ \A l \in 0 .. 4 : s.nodes[l] \in Nat /\ s.cnodes[l] \in Nat \ {0}
      /\ s.nodes[0] \in Nat \ {0}
      /\ s.continents \in Nat \ {0}
  BY DEF IsShape
<1>2. \A n \in Nat, d \in Nat \ {0} : n \div d \in Nat
  BY DivMod
<1>3. ASSUME NEW l \in 1 .. 4 PROVE Width(s, l) \in Nat \ {0} /\ WidthBack(s, l) \in Nat
  <2>1. l - 1 \in 0 .. 4 /\ (IF l = 2 THEN 0 ELSE l - 1) \in 0 .. 4 /\ l \in 0 .. 4
    OBVIOUS
  <2>2. /\ s.nodes[l] \div s.cnodes[l - 1] \in Nat
        /\ s.nodes[l] \div s.cnodes[IF l = 2 THEN 0 ELSE l - 1] \in Nat
    BY <1>1, <1>2, <2>1
  <2>3. QED BY <2>2 DEF Width, WidthBack
<1>4. QED BY <1>1, <1>3 DEF Width, WidthBack

\* Each weight is the one below times its width.
LEMMA WeightsGrow ==
    ASSUME NEW s, IsShape(s)
    PROVE  /\ Weight(s)[0] = 1
           /\ \A l \in 0 .. 5 : Weight(s)[l] \in Nat \ {0} /\ WeightBack(s)[l] \in Nat
           /\ \A l \in 0 .. 4 : Weight(s)[l + 1] = Weight(s)[l] * Width(s, l)
<1> DEFINE w == [l \in 0 .. 4 |-> Width(s, l)]
           v == [l \in 0 .. 4 |-> WidthBack(s, l)]
<1>1. /\ Weight(s)[0] = 1
      /\ \A l \in 0 .. 4 : Weight(s)[l + 1] = Weight(s)[l] * Width(s, l)
  <2>1. Weight(s) = Weights(w)
    BY DEF Weight
  <2>2. \A l \in 0 .. 4 : w[l] = Width(s, l)
    OBVIOUS
  <2> HIDE DEF w
  <2>3. QED BY <2>1, <2>2, WeightsStep
<1>2. /\ WeightBack(s)[0] = 1
      /\ \A l \in 0 .. 4 : WeightBack(s)[l + 1] = WeightBack(s)[l] * WidthBack(s, l)
  <2>1. WeightBack(s) = Weights(v)
    BY DEF WeightBack
  <2>2. \A l \in 0 .. 4 : v[l] = WidthBack(s, l)
    OBVIOUS
  <2> HIDE DEF v
  <2>3. QED BY <2>1, <2>2, WeightsStep
<1>3. \A l \in 0 .. 4 : Width(s, l) \in Nat \ {0} /\ WidthBack(s, l) \in Nat
  BY WidthsPositive
<1>4. \A a, b \in Nat : a * b \in Nat /\ (a # 0 /\ b # 0 => a * b # 0)
  OBVIOUS
<1> DEFINE Fine(l) == Weight(s)[l] \in Nat \ {0} /\ WeightBack(s)[l] \in Nat
<1>5. Fine(0)
  BY <1>1, <1>2
<1>6. ASSUME NEW l \in 0 .. 4, Fine(l) PROVE Fine(l + 1)
  BY <1>1, <1>2, <1>3, <1>4, <1>6
<1> HIDE DEF Fine
<1>7. Fine(1) BY <1>5, <1>6
<1>8. Fine(2) BY <1>7, <1>6
<1>9. Fine(3) BY <1>8, <1>6
<1>10. Fine(4) BY <1>9, <1>6
<1>11. Fine(5) BY <1>10, <1>6
<1>12. \A l \in 0 .. 5 : Fine(l)
  BY <1>5, <1>7, <1>8, <1>9, <1>10, <1>11
<1>13. QED BY <1>1, <1>12 DEF Fine

-----------------------------------------------------------------------------
(***************************************************************************)
(* An id is the sum of its digits, each as often as its weight says.       *)
(***************************************************************************)
\* One digit at a time,
LEMMA Digits ==
    ASSUME NEW s, IsShape(s), NEW id \in Nat
    PROVE  LET d == convert_ID_int_to_string(id, s)
           IN  /\ \A l \in 0 .. 4 :
                    /\ d[l] \in 0 .. Width(s, l) - 1
                    /\ id % Weight(s)[l + 1] = d[l] * Weight(s)[l] + (id % Weight(s)[l])
               /\ id % Weight(s)[0] = 0
               /\ d[5] \in Nat /\ id = d[5] * Weight(s)[5] + (id % Weight(s)[5])
<1> DEFINE W == Weight(s)
           d == convert_ID_int_to_string(id, s)
<1>1. /\ W[0] = 1 /\ \A l \in 0 .. 5 : W[l] \in Nat \ {0}
      /\ \A l \in 0 .. 4 : W[l + 1] = W[l] * Width(s, l) /\ Width(s, l) \in Nat \ {0}
  BY WeightsGrow, WidthsPositive
<1>2. d[5] = id \div W[5] /\ \A l \in 0 .. 4 : d[l] = (id \div W[l]) % Width(s, l)
  BY DEF convert_ID_int_to_string
<1> HIDE DEF W, d
<1>3. ASSUME NEW l \in 0 .. 4
      PROVE  /\ d[l] \in 0 .. Width(s, l) - 1
             /\ id % W[l + 1] = d[l] * W[l] + (id % W[l])
  <2>1. W[l] \in Nat \ {0} /\ Width(s, l) \in Nat \ {0}
        /\ W[l + 1] = W[l] * Width(s, l) /\ d[l] = (id \div W[l]) % Width(s, l)
    BY <1>1, <1>2
  <2>2. id \div W[l] \in Nat
    BY <2>1, DivMod
  <2>3. d[l] \in 0 .. Width(s, l) - 1
    BY <2>1, <2>2, DivMod
  <2>4. id % (W[l] * Width(s, l))
            = ((id \div W[l]) % Width(s, l)) * W[l] + (id % W[l])
    BY <2>1, DigitStep
  <2>5. QED BY <2>1, <2>3, <2>4, Zenon
<1>4. id % W[0] = 0
  BY <1>1
<1>5. d[5] \in Nat /\ id = d[5] * W[5] + (id % W[5])
  <2>1. W[5] \in Nat \ {0}
    BY <1>1
  <2>2. id \div W[5] \in Nat /\ id = (id \div W[5]) * W[5] + (id % W[5])
    BY <2>1, DivMod
  <2>3. QED BY <1>2, <2>2, Zenon
<1>6. QED BY <1>3, <1>4, <1>5, Zenon DEF W, d

\* and all of them.
LEMMA ValueOfDigits ==
    ASSUME NEW s, IsShape(s), NEW id \in Nat
    PROVE  LET d == convert_ID_int_to_string(id, s)
               W == Weight(s)
           IN  id = d[5] * W[5] + (d[4] * W[4] + (d[3] * W[3] + (d[2] * W[2]
                    + (d[1] * W[1] + (d[0] * W[0] + 0)))))
<1> DEFINE W == Weight(s)
           d == convert_ID_int_to_string(id, s)
<1>1. /\ \A l \in 0 .. 4 : id % W[l + 1] = d[l] * W[l] + (id % W[l])
      /\ id % W[0] = 0
      /\ id = d[5] * W[5] + (id % W[5])
  BY Digits
<1> HIDE DEF W, d
<1>2. /\ id % W[1] = d[0] * W[0] + 0
      /\ id % W[2] = d[1] * W[1] + (id % W[1])
      /\ id % W[3] = d[2] * W[2] + (id % W[2])
      /\ id % W[4] = d[3] * W[3] + (id % W[3])
      /\ id % W[5] = d[4] * W[4] + (id % W[4])
  BY <1>1
<1>3. QED BY <1>1, <1>2, Zenon DEF W, d

\* Two numbers do not have one id string.
LEMMA IdsDiffer ==
    ASSUME NEW s, IsShape(s), NEW i \in Nat, NEW j \in Nat,
           convert_ID_int_to_string(i, s) = convert_ID_int_to_string(j, s)
    PROVE  i = j
<1> DEFINE W == Weight(s)
           Value(d) == d[5] * W[5] + (d[4] * W[4] + (d[3] * W[3] + (d[2] * W[2]
                            + (d[1] * W[1] + (d[0] * W[0] + 0)))))
<1>1. \A n \in Nat : n = Value(convert_ID_int_to_string(n, s))
  BY ValueOfDigits, Zenon
<1> HIDE DEF Value
<1>2. QED BY <1>1, Zenon

\* The continent of an id that exists.
LEMMA LastDigit ==
    ASSUME NEW s, IsShape(s), NEW id \in 0 .. num_nodes_total(s) - 1
    PROVE  convert_ID_int_to_string(id, s)[5] \in 0 .. s.continents - 1
<1> DEFINE w == Weight(s)[5]
           d == convert_ID_int_to_string(id, s)[5]
           c == s.continents
<1>1. w \in Nat \ {0} /\ c \in Nat \ {0} /\ w * c \in Nat /\ num_nodes_total(s) = w * c
  BY WeightsGrow, WidthsPositive DEF num_nodes_total
<1>2. id \in Nat /\ id < w * c
  BY <1>1
<1>3. d \in Nat /\ id = d * w + (id % w)
  BY <1>2, Digits
<1> HIDE DEF w, d, c
<1>4. ~ c <= d
  <2> SUFFICES ASSUME c <= d PROVE FALSE
    OBVIOUS
  <2>1. c * w <= d * w /\ d * w \in Nat /\ c * w = w * c
    BY <1>1, <1>3, ProductGrows
  <2>2. id % w \in Nat
    BY <1>1, <1>2, DivMod
  <2>3. QED BY <1>1, <1>2, <1>3, <2>1, <2>2
<1>5. QED BY <1>1, <1>3, <1>4 DEF d, c

(***************************************************************************)
(* In a shape in which both conversions count alike, every node's number   *)
(* comes back from its id string: ports, and the node that broadcasts, are *)
(* the ones meant.                                                         *)
(***************************************************************************)
THEOREM NumbersComeBack ==
    ASSUME NEW s, IsShape(s), CountsAgree(s), NEW id \in 0 .. num_nodes_total(s) - 1
    PROVE  convert_ID_string_to_int(convert_ID_int_to_string(id, s), s) = id
<1> DEFINE W == Weight(s)
           B == WeightBack(s)
           d == convert_ID_int_to_string(id, s)
           w(l) == IF l = 5 THEN s.continents ELSE Width(s, l)
<1>1. id \in Nat
  BY WeightsGrow, WidthsPositive DEF num_nodes_total
<1>2. \A l \in 0 .. 5 : w(l) \in Nat \ {0} /\ d[l] \in 0 .. w(l) - 1
  BY <1>1, Digits, LastDigit, WidthsPositive
<1>3. \A l \in 0 .. 5 : w(l) > 1 => B[l] = W[l]
  BY DEF CountsAgree
<1>4. \A l \in 0 .. 5 : W[l] \in Nat /\ B[l] \in Nat
  BY WeightsGrow
<1>5. id = d[5] * W[5] + (d[4] * W[4] + (d[3] * W[3] + (d[2] * W[2]
               + (d[1] * W[1] + (d[0] * W[0] + 0)))))
  BY <1>1, ValueOfDigits, Zenon
<1>6. convert_ID_string_to_int(d, s)
          = d[5] * B[5] + (d[4] * B[4] + (d[3] * B[3] + (d[2] * B[2]
               + (d[1] * B[1] + (d[0] * B[0] + 0)))))
  BY SumUnrolled, Zenon
<1> HIDE DEF W, B, d, w
<1>7. \A l \in 0 .. 5 : d[l] * B[l] = d[l] * W[l]
  <2> SUFFICES ASSUME NEW l \in 0 .. 5 PROVE d[l] * B[l] = d[l] * W[l]
    OBVIOUS
  <2>1. CASE w(l) > 1
    BY <1>3, <2>1
  <2>2. CASE w(l) = 1
    <3>1. d[l] = 0
      BY <1>2, <2>2
    <3>2. QED BY <1>4, <3>1
  <2>3. QED BY <1>2, <2>1, <2>2
<1>8. /\ d[0] * B[0] = d[0] * W[0] /\ d[1] * B[1] = d[1] * W[1]
      /\ d[2] * B[2] = d[2] * W[2] /\ d[3] * B[3] = d[3] * W[3]
      /\ d[4] * B[4] = d[4] * W[4] /\ d[5] * B[5] = d[5] * W[5]
  BY <1>7
<1>9. QED BY <1>5, <1>6, <1>8, Zenon DEF d

-----------------------------------------------------------------------------
(***************************************************************************)
(* Where the counts differ, some number does not come back: that of the    *)
(* node whose only digit other than 0 is a 1 at the level in question.     *)
(***************************************************************************)

\* A weight is a multiple of every weight below.
LEMMA WeightsDivide ==
    ASSUME NEW s, IsShape(s)
    PROVE  \A l \in 0 .. 5 : \A k \in 0 .. l :
               \E n \in Nat \ {0} : Weight(s)[l] = n * Weight(s)[k]
<1> DEFINE W == Weight(s)
           Fine(l) == \A k \in 0 .. l : \E n \in Nat \ {0} : W[l] = n * W[k]
<1>1. /\ \A l \in 0 .. 5 : W[l] \in Nat \ {0}
      /\ \A l \in 0 .. 4 : W[l + 1] = W[l] * Width(s, l) /\ Width(s, l) \in Nat \ {0}
  BY WeightsGrow, WidthsPositive
<1> HIDE DEF W
<1>2. \A l \in 0 .. 5 : 1 \in Nat \ {0} /\ W[l] = 1 * W[l]
  BY <1>1
<1>3. Fine(0)
  BY <1>2
<1>4. ASSUME NEW l \in 0 .. 4, Fine(l) PROVE Fine(l + 1)
  <2> SUFFICES ASSUME NEW k \in 0 .. l + 1
               PROVE  \E n \in Nat \ {0} : W[l + 1] = n * W[k]
    OBVIOUS
  <2>1. CASE k = l + 1
    BY <1>2, <2>1
  <2>2. CASE k # l + 1
    <3>1. k \in 0 .. l /\ k \in 0 .. 5
      BY <2>2
    <3>2. PICK n \in Nat \ {0} : W[l] = n * W[k]
      BY <1>4, <3>1
    <3>3. W[l + 1] = W[l] * Width(s, l) /\ Width(s, l) \in Nat \ {0} /\ W[k] \in Nat
      BY <1>1, <3>1
    <3>4. n * Width(s, l) \in Nat \ {0} /\ (n * W[k]) * Width(s, l) = (n * Width(s, l)) * W[k]
      BY <3>3
    <3>5. QED BY <3>2, <3>3, <3>4, Zenon
  <2>3. QED BY <2>1, <2>2
<1> HIDE DEF Fine
<1>5. Fine(1) BY <1>3, <1>4
<1>6. Fine(2) BY <1>5, <1>4
<1>7. Fine(3) BY <1>6, <1>4
<1>8. Fine(4) BY <1>7, <1>4
<1>9. Fine(5) BY <1>8, <1>4
<1>10. \A l \in 0 .. 5 : Fine(l)
  BY <1>3, <1>5, <1>6, <1>7, <1>8, <1>9
<1>11. QED BY <1>10 DEF Fine, W

\* A positive multiple is no less.
LEMMA MultipleIsNoLess ==
    ASSUME NEW n \in Nat \ {0}, NEW a \in Nat
    PROVE  n * a \in Nat /\ n * a >= a
<1>1. 1 * a <= n * a /\ n * a \in Nat
  BY ProductGrows
<1>2. QED BY <1>1

\* The weight of a level that has more than one region is a number some node
\* has, and that node's digits.
LEMMA UnitAt ==
    ASSUME NEW s, IsShape(s), NEW l \in 0 .. 5,
           (IF l = 5 THEN s.continents ELSE Width(s, l)) > 1
    PROVE  /\ Weight(s)[l] \in 0 .. num_nodes_total(s) - 1
           /\ \A k \in 0 .. 5 :
                  convert_ID_int_to_string(Weight(s)[l], s)[k] = IF k = l THEN 1 ELSE 0
<1> DEFINE W == Weight(s)
           w(k) == IF k = 5 THEN s.continents ELSE Width(s, k)
           d == convert_ID_int_to_string(W[l], s)
<1>1. /\ \A k \in 0 .. 5 : W[k] \in Nat \ {0} /\ w(k) \in Nat \ {0}
      /\ \A k \in 0 .. 4 : W[k + 1] = W[k] * w(k)
  BY WeightsGrow, WidthsPositive
<1>2. \A j \in 0 .. 5 : \A k \in 0 .. j : \E n \in Nat \ {0} : W[j] = n * W[k]
  BY WeightsDivide
<1>3. w(l) > 1
  OBVIOUS
<1>4. num_nodes_total(s) = W[5] * w(5)
  BY DEF num_nodes_total
<1>5. \A k \in 0 .. 5 : d[k] = IF k = 5 THEN W[l] \div W[5] ELSE (W[l] \div W[k]) % w(k)
  BY DEF convert_ID_int_to_string
<1> HIDE DEF W, w, d
\* What is above is more than twice as much.
<1>6. W[l] * w(l) \in Nat /\ W[l] * w(l) > W[l]
  <2>1. 2 * W[l] <= w(l) * W[l] /\ w(l) * W[l] \in Nat /\ w(l) * W[l] = W[l] * w(l)
    <3>1. 2 \in Nat /\ w(l) \in Nat /\ W[l] \in Nat /\ 2 <= w(l)
      BY <1>1, <1>3
    <3> DEFINE a == w(l)
               b == W[l]
    <3> HIDE DEF a, b
    <3>2. 2 * b <= a * b /\ a * b \in Nat
      BY <3>1, ProductGrows DEF a, b
    <3>3. a * b = b * a
      BY <3>1 DEF a, b
    <3>4. QED BY <3>2, <3>3 DEF a, b
  <2>2. QED BY <1>1, <2>1
<1>7. ASSUME NEW k \in l + 1 .. 5 PROVE W[k] > W[l]
  <2>1. l \in 0 .. 4 /\ l + 1 \in 0 .. k /\ k \in 0 .. 5
    OBVIOUS
  <2>2. PICK n \in Nat \ {0} : W[k] = n * W[l + 1]
    BY <1>2, <2>1
  <2>3. W[l + 1] \in Nat /\ W[l + 1] > W[l]
    BY <1>1, <1>6, <2>1
  <2>4. n * W[l + 1] >= W[l + 1] /\ n * W[l + 1] \in Nat
    BY <2>3, MultipleIsNoLess
  <2>5. W[k] \in Nat /\ W[l] \in Nat
    BY <1>1, <2>1
  <2>6. QED BY <2>2, <2>3, <2>4, <2>5
<1>8. W[l] \in 0 .. num_nodes_total(s) - 1
  <2>1. W[5] \in Nat /\ w(5) \in Nat \ {0} /\ W[l] \in Nat
    BY <1>1
  <2>2. W[5] * w(5) \in Nat /\ W[5] * w(5) >= W[5]
    <3>1. w(5) * W[5] = W[5] * w(5)
      BY <2>1
    <3>2. QED BY <2>1, <3>1, MultipleIsNoLess
  <2>3. CASE l = 5
    BY <1>4, <1>6, <2>1, <2>2, <2>3
  <2>4. CASE l # 5
    <3>1. W[5] > W[l]
      BY <1>7, <2>4
    <3>2. QED BY <1>4, <2>1, <2>2, <3>1
  <2>5. QED BY <2>3, <2>4
<1>9. ASSUME NEW k \in l + 1 .. 5 PROVE d[k] = 0
  <2>1. W[k] \in Nat \ {0} /\ W[l] \in 0 .. W[k] - 1 /\ w(k) \in Nat \ {0} /\ k \in 0 .. 5
    BY <1>1, <1>7
  <2>2. W[l] = 0 * W[k] + W[l] /\ 0 \in Nat /\ W[l] \in Nat
    BY <2>1
  <2>3. W[l] \div W[k] = 0
    BY <2>1, <2>2, DivUnique
  <2>4. 0 % w(k) = 0
    BY <2>1
  <2>5. QED BY <1>5, <2>1, <2>3, <2>4
<1>10. d[l] = 1
  <2>1. W[l] \in Nat \ {0} /\ W[l] = 1 * W[l] + 0 /\ 0 \in 0 .. W[l] - 1
    BY <1>1
  <2>2. W[l] \div W[l] = 1
    BY <2>1, DivUnique
  <2>3. 1 % w(l) = 1
    <3>1. 1 = 0 * w(l) + 1 /\ 1 \in 0 .. w(l) - 1 /\ w(l) \in Nat \ {0}
      BY <1>1, <1>3
    <3>2. QED BY <3>1, DivUnique
  <2>4. QED BY <1>5, <2>2, <2>3
<1>11. ASSUME NEW k \in 0 .. l - 1 PROVE d[k] = 0
  <2>1. k \in 0 .. 4 /\ k + 1 \in 0 .. l /\ k \in 0 .. 5
    OBVIOUS
  <2>2. PICK n \in Nat \ {0} : W[l] = n * W[k + 1]
    BY <1>2, <2>1
  <2>3. W[k] \in Nat \ {0} /\ w(k) \in Nat \ {0} /\ W[k + 1] = W[k] * w(k) /\ W[l] \in Nat
    BY <1>1, <2>1
  <2>4. n * w(k) \in Nat /\ n * (W[k] * w(k)) = (n * w(k)) * W[k] + 0
        /\ 0 \in 0 .. W[k] - 1
    BY <2>3
  <2>5. W[l] = (n * w(k)) * W[k] + 0
    BY <2>2, <2>3, <2>4
  <2>6. W[l] \div W[k] = n * w(k)
    BY <2>3, <2>4, <2>5, DivUnique
  <2>7. (n * w(k)) % w(k) = 0
    <3>1. n * w(k) = n * w(k) + 0 /\ 0 \in 0 .. w(k) - 1
      BY <2>3, <2>4
    <3>2. QED BY <2>3, <2>4, <3>1, DivUnique
  <2>8. QED BY <1>5, <2>1, <2>6, <2>7
<1>12. \A k \in 0 .. 5 : d[k] = IF k = l THEN 1 ELSE 0
  BY <1>9, <1>10, <1>11
<1>13. QED BY <1>8, <1>12 DEF W, d

\* What comes back of that number is the weight in the other count.
LEMMA CountsMustAgree ==
    ASSUME NEW s, IsShape(s),
           \A id \in 0 .. num_nodes_total(s) - 1 :
               convert_ID_string_to_int(convert_ID_int_to_string(id, s), s) = id
    PROVE  CountsAgree(s)
<1> SUFFICES ASSUME NEW l \in 0 .. 5,
                    (IF l = 5 THEN s.continents ELSE Width(s, l)) > 1
             PROVE  WeightBack(s)[l] = Weight(s)[l]
  BY DEF CountsAgree
<1> DEFINE B == WeightBack(s)
           d == convert_ID_int_to_string(Weight(s)[l], s)
<1>1. /\ Weight(s)[l] \in 0 .. num_nodes_total(s) - 1
      /\ \A k \in 0 .. 5 : d[k] = IF k = l THEN 1 ELSE 0
  BY UnitAt
<1>2. convert_ID_string_to_int(d, s)
          = d[5] * B[5] + (d[4] * B[4] + (d[3] * B[3] + (d[2] * B[2]
               + (d[1] * B[1] + (d[0] * B[0] + 0)))))
  BY SumUnrolled, Zenon
<1>3. \A k \in 0 .. 5 : B[k] \in Nat
  BY WeightsGrow
<1>4. convert_ID_string_to_int(d, s) = Weight(s)[l]
  BY <1>1
<1> HIDE DEF B, d
<1>5. \A k \in 0 .. 5 : d[k] * B[k] = IF k = l THEN B[l] ELSE 0
  BY <1>1, <1>3
<1>6. convert_ID_string_to_int(d, s) = B[l]
  BY <1>2, <1>3, <1>5
<1>7. QED BY <1>4, <1>6 DEF B

(***************************************************************************)
(* Every shape an operator may enter: no two nodes share an id string, and *)
(* numbers come back exactly where the two conversions count alike.        *)
(***************************************************************************)
THEOREM RoundTrips == \A s : IsShape(s) => RoundTrip(s)
<1> SUFFICES ASSUME NEW s, IsShape(s) PROVE RoundTrip(s)
  OBVIOUS
<1> DEFINE total == num_nodes_total(s)
           ids == IdsInOrder(s)
<1>1. total \in Nat
  BY WeightsGrow, WidthsPositive DEF num_nodes_total
<1>2. ids = [i \in 1 .. total |-> convert_ID_int_to_string(i - 1, s)]
  BY DEF IdsInOrder
<1> HIDE DEF ids, total
<1>3. Cardinality(ToSet(ids)) = total
  <2>1. ids \in Bijection(1 .. total, ToSet(ids))
    <3>1. \A i, j \in 1 .. total : ids[i] = ids[j] => i = j
      <4> SUFFICES ASSUME NEW i \in 1 .. total, NEW j \in 1 .. total, ids[i] = ids[j]
                   PROVE  i = j
        OBVIOUS
      <4>1. i - 1 \in Nat /\ j - 1 \in Nat
        BY <1>1
      <4>2. convert_ID_int_to_string(i - 1, s) = convert_ID_int_to_string(j - 1, s)
        BY <1>2
      <4>3. i - 1 = j - 1
        BY <4>1, <4>2, IdsDiffer
      <4>4. QED BY <4>3
    <3>2. DOMAIN ids = 1 .. total /\ ids = [i \in 1 .. total |-> ids[i]]
      BY <1>2
    <3>3. ToSet(ids) = {ids[i] : i \in 1 .. total}
      BY <3>2 DEF ToSet
    <3>4. QED
      BY <3>1, <3>2, <3>3 DEF Bijection, Injection, Surjection, IsInjective
  <2>2. IsFiniteSet(1 .. total) /\ Cardinality(1 .. total) = total
    BY <1>1, FS_Interval
  <2>3. ExistsBijection(1 .. total, ToSet(ids))
    BY <2>1 DEF ExistsBijection
  <2>4. QED BY <2>2, <2>3, FS_Bijection
<1> DEFINE order == [i \in DOMAIN ids |-> convert_ID_string_to_int(ids[i], s)]
<1>4. DOMAIN ids = 1 .. total
      /\ \A i \in 1 .. total :
            order[i] = convert_ID_string_to_int(convert_ID_int_to_string(i - 1, s), s)
  BY <1>2
<1>5. ASSUME CountsAgree(s) PROVE \A i \in DOMAIN ids : order[i] = i - 1
  <2> SUFFICES ASSUME NEW i \in 1 .. total PROVE order[i] = i - 1
    BY <1>4
  <2>1. i - 1 \in 0 .. total - 1
    BY <1>1
  <2>2. QED BY <1>4, <1>5, <2>1, NumbersComeBack DEF total
<1>6. ASSUME \A i \in DOMAIN ids : order[i] = i - 1 PROVE CountsAgree(s)
  <2>1. ASSUME NEW id \in 0 .. total - 1
        PROVE  convert_ID_string_to_int(convert_ID_int_to_string(id, s), s) = id
    <3>1. id + 1 \in 1 .. total /\ (id + 1) - 1 = id
      BY <1>1
    <3>2. order[id + 1] = (id + 1) - 1
      BY <1>4, <1>6, <3>1
    <3>3. order[id + 1]
              = convert_ID_string_to_int(convert_ID_int_to_string((id + 1) - 1, s), s)
      BY <1>4, <3>1
    <3>4. QED BY <3>1, <3>2, <3>3
  <2>2. QED BY <2>1, CountsMustAgree DEF total
<1>7. QED BY <1>3, <1>5, <1>6 DEF RoundTrip, ids, total

-----------------------------------------------------------------------------
(***************************************************************************)
(* A gossip table, id by id.                                               *)
(***************************************************************************)
\* Counting reaches every number.
LEMMA Counted ==
    ASSUME NEW S, 0 \in S, \A n \in Nat : n \in S => n + 1 \in S
    PROVE  Nat \subseteq S
<1> DEFINE B == Nat \ S
           U == {0 .. n : n \in B}
           R == StrictSubsetOrdering(Nat)
<1> SUFFICES ASSUME B # {} PROVE FALSE
  OBVIOUS
<1>1. U \subseteq FiniteSubsetsOf(Nat)
  <2>1. ASSUME NEW n \in B PROVE 0 .. n \in FiniteSubsetsOf(Nat)
    <3>1. n \in Int /\ 0 \in Int /\ 0 .. n \in SUBSET Nat
      OBVIOUS
    <3>2. IsFiniteSet(0 .. n)
      BY <3>1, FS_Interval
    <3>3. QED BY <3>1, <3>2 DEF FiniteSubsetsOf
  <2>2. QED BY <2>1
<1>2. IsWellFoundedOn(R, FiniteSubsetsOf(Nat))
  BY FS_StrictSubsetOrderingWellFounded
<1>3. PICK I \in U : \A J \in U : ~ (<<J, I>> \in R)
  <2>1. U # {}
    OBVIOUS
  <2> HIDE DEF U, R
  <2> QED BY <1>1, <1>2, <2>1, WFMin
<1>4. PICK n \in B : I = 0 .. n
  OBVIOUS
<1>5. n \in Nat \ {0} /\ n - 1 \in Nat /\ (n - 1) + 1 = n
  OBVIOUS
<1>6. n - 1 \in B
  BY <1>4, <1>5
<1>7. <<0 .. n - 1, 0 .. n>> \in R
  <2>1. n \in 0 .. n /\ n \notin 0 .. n - 1 /\ 0 .. n - 1 \subseteq 0 .. n
    BY <1>5
  <2>2. QED BY <1>5, <2>1 DEF StrictSubsetOrdering
<1>8. 0 .. n - 1 \in U
  BY <1>6
<1>9. QED BY <1>3, <1>4, <1>7, <1>8

\* f[k] is the table of the number i when k ids were looked at, as far as n.
Fills(f, n, self, neighbor_ids, node_list, s) ==
    f = [k \in 0 .. n |->
            IF k = 0 THEN <<>>
            ELSE IF /\ convert_ID_string_to_int(IdsInOrder(s)[k], s) \in neighbor_ids
                    /\ IdsInOrder(s)[k] # self /\ IdsInOrder(s)[k] \in node_list
            THEN Entered(f[k - 1], IdsInOrder(s)[k], convert_ID_string_to_int(self, s), s)
            ELSE f[k - 1]]

\* Such tables exist, so the loop's result is the last of them.
LEMMA FillsExist ==
    ASSUME NEW self, NEW neighbor_ids, NEW node_list, NEW s, NEW n \in Nat
    PROVE  \E f : Fills(f, n, self, neighbor_ids, node_list, s)
<1> DEFINE Chosen(id) == /\ convert_ID_string_to_int(id, s) \in neighbor_ids
                         /\ id # self /\ id \in node_list
           Entering(table, id) ==
                IF Chosen(id) THEN Entered(table, id, convert_ID_string_to_int(self, s), s)
                ELSE table
           id(k) == IdsInOrder(s)[k]
           Filled(f, k) == f = [i \in 0 .. k |-> IF i = 0 THEN <<>> ELSE Entering(f[i - 1], id(i))]
           S == {k \in Nat : \E f : Filled(f, k)}
<1>1. \A f, k : Fills(f, k, self, neighbor_ids, node_list, s) <=> Filled(f, k)
  BY DEF Fills
<1> HIDE DEF Entering, id
<1>2. 0 \in S
  <2>1. Filled([i \in 0 .. 0 |-> <<>>], 0)
    OBVIOUS
  <2>2. QED BY <2>1
<1>3. ASSUME NEW k \in Nat, k \in S PROVE k + 1 \in S
  <2>1. PICK f : Filled(f, k)
    BY <1>3
  <2>2. \A i \in 0 .. k : f[i] = IF i = 0 THEN <<>> ELSE Entering(f[i - 1], id(i))
    BY <2>1
  <2> DEFINE g == [i \in 0 .. k + 1 |-> IF i = k + 1 THEN Entering(f[k], id(k + 1)) ELSE f[i]]
  <2>3. ASSUME NEW i \in 0 .. k + 1
        PROVE  g[i] = IF i = 0 THEN <<>> ELSE Entering(g[i - 1], id(i))
    <3>1. CASE i = k + 1
      <4>1. i # 0 /\ i - 1 = k /\ k \in 0 .. k + 1 /\ k # k + 1
        BY <3>1
      <4>2. g[i] = Entering(f[k], id(k + 1)) /\ g[k] = f[k]
        BY <3>1, <4>1
      <4> HIDE DEF g
      <4>3. QED BY <3>1, <4>1, <4>2
    <3>2. CASE i # k + 1
      <4>1. i \in 0 .. k /\ g[i] = f[i]
        BY <3>2
      <4>2. i # 0 => i - 1 \in 0 .. k + 1 /\ i - 1 # k + 1
        BY <4>1
      <4>3. i # 0 => g[i - 1] = f[i - 1]
        BY <4>2
      <4> HIDE DEF g
      <4>4. QED BY <2>2, <4>1, <4>3
    <3>3. QED BY <3>1, <3>2
  <2>4. Filled(g, k + 1)
    <3>1. g = [i \in 0 .. k + 1 |-> g[i]]
      OBVIOUS
    <3> HIDE DEF g
    <3>2. QED BY <2>3, <3>1
  <2> HIDE DEF g, Filled
  <2>5. QED BY <2>4
<1>4. Nat \subseteq S
  <2> HIDE DEF S
  <2> QED BY <1>2, <1>3, Counted
<1>5. QED BY <1>1, <1>4

LEMMA TableIs ==
    ASSUME NEW self, NEW neighbor_ids, NEW node_list, NEW s, num_nodes_total(s) \in Nat
    PROVE  \E f : /\ Fills(f, num_nodes_total(s), self, neighbor_ids, node_list, s)
                  /\ KadTable(self, neighbor_ids, node_list, s) = f[num_nodes_total(s)]
<1> DEFINE n == num_nodes_total(s)
           ids == IdsInOrder(s)
           self_order == convert_ID_string_to_int(self, s)
           Chosen(id) == /\ convert_ID_string_to_int(id, s) \in neighbor_ids
                         /\ id # self /\ id \in node_list
           F == CHOOSE f : f = [k \in 0 .. n |->
                    IF k = 0 THEN <<>>
                    ELSE IF Chosen(ids[k]) THEN Entered(f[k - 1], ids[k], self_order, s)
                    ELSE f[k - 1]]
<1>1. \E f : Fills(f, n, self, neighbor_ids, node_list, s)
  BY FillsExist
<1>2. Fills(F, n, self, neighbor_ids, node_list, s)
  BY <1>1 DEF Fills
<1>3. KadTable(self, neighbor_ids, node_list, s) = F[n]
  BY DEF KadTable
<1> HIDE DEF F
<1>4. QED BY <1>2, <1>3

\* u is t with one entry more.
PutLast(u, t, a) == u = Append(t, a)
PutFirst(u, t, a) == u = <<a>> \o t

\* At the end,
LEMMA OneMoreLast ==
    ASSUME NEW A, NEW t \in Seq(A), NEW a \in A, NEW u, PutLast(u, t, a)
    PROVE  /\ u \in Seq(A) /\ ToSet(u) = ToSet(t) \cup {a} /\ u # <<>>
           /\ t = <<>> => u[1] = a
           /\ t # <<>> => u[1] = t[1]
<1>1. Len(t) \in Nat /\ DOMAIN t = 1 .. Len(t) /\ (t = <<>> <=> Len(t) = 0)
  OBVIOUS
<1>2. /\ u \in Seq(A) /\ DOMAIN u = 1 .. Len(t) + 1 /\ u # <<>>
      /\ \A i \in 1 .. Len(t) : u[i] = t[i]
      /\ u[Len(t) + 1] = a
  BY DEF PutLast
<1>3. ToSet(u) = ToSet(t) \cup {a}
  <2>1. /\ \A i \in 1 .. Len(t) + 1 : i = Len(t) + 1 \/ i \in 1 .. Len(t)
        /\ Len(t) + 1 \in 1 .. Len(t) + 1 /\ \A i \in 1 .. Len(t) : i \in 1 .. Len(t) + 1
    BY <1>1
  <2>2. QED BY <1>1, <1>2, <2>1, Zenon DEF ToSet
<1>4. (t = <<>> => u[1] = a) /\ (t # <<>> => u[1] = t[1])
  BY <1>1, <1>2
<1>5. QED BY <1>2, <1>3, <1>4

\* or in front.
LEMMA OneMoreFirst ==
    ASSUME NEW A, NEW t \in Seq(A), NEW a \in A, NEW u, PutFirst(u, t, a)
    PROVE  u \in Seq(A) /\ ToSet(u) = ToSet(t) \cup {a} /\ u # <<>> /\ u[1] = a
<1>1. Len(t) \in Nat /\ DOMAIN t = 1 .. Len(t)
  OBVIOUS
<1>2. /\ u \in Seq(A) /\ DOMAIN u = 1 .. Len(t) + 1 /\ u # <<>>
      /\ u[1] = a /\ \A i \in 1 .. Len(t) : u[i + 1] = t[i]
  BY DEF PutFirst
<1>3. ToSet(u) = ToSet(t) \cup {a}
  <2>1. /\ 1 \in 1 .. Len(t) + 1 /\ \A i \in 1 .. Len(t) : i + 1 \in 1 .. Len(t) + 1
        /\ \A i \in 1 .. Len(t) + 1 : i = 1 \/ (i - 1 \in 1 .. Len(t) /\ (i - 1) + 1 = i)
    BY <1>1
  <2>2. ASSUME NEW i \in 1 .. Len(t) + 1 PROVE u[i] = a \/ u[i] \in ToSet(t)
    <3>1. CASE i = 1
      BY <1>2, <3>1
    <3>2. CASE i # 1
      <4>1. u[i] = t[i - 1] /\ i - 1 \in DOMAIN t
        BY <1>1, <1>2, <2>1, <3>2
      <4>2. QED BY <4>1 DEF ToSet
    <3>3. QED BY <3>1, <3>2
  <2>3. ASSUME NEW i \in 1 .. Len(t) PROVE t[i] \in ToSet(u)
    <3>1. u[i + 1] = t[i] /\ i + 1 \in DOMAIN u
      BY <1>2, <2>1
    <3>2. QED BY <3>1 DEF ToSet
  <2>4. a \in ToSet(u)
    BY <1>2, <2>1 DEF ToSet
  <2>5. ToSet(u) \subseteq ToSet(t) \cup {a}
    BY <1>2, <2>2 DEF ToSet
  <2>6. ToSet(t) \subseteq ToSet(u)
    BY <1>1, <2>3 DEF ToSet
  <2>7. QED BY <2>4, <2>5, <2>6
<1>4. QED BY <1>2, <1>3

\* The loop of create_kad_table over the numbers 0 .. n - 1 of its ids: f[k] is
\* the table when k of them were looked at.
Filling(n, i, succ, drawn, A, id, f) ==
    /\ n \in Nat /\ i \in 0 .. n - 1 /\ succ \in 0 .. n - 1
    /\ succ = i + 1 \/ (succ = 0 /\ i + 1 = n)
    /\ succ # i /\ succ \in drawn
    /\ id \in [0 .. n - 1 -> A]
    /\ f[0] = <<>>
    /\ \A k \in 0 .. n - 1 :
            IF k \in drawn /\ k # i
            THEN IF k = i + 1 THEN PutFirst(f[k + 1], f[k], id[k])
                              ELSE PutLast(f[k + 1], f[k], id[k])
            ELSE f[k + 1] = f[k]

\* Those drawn, in a list of ids 0 .. n - 1.
DrawnIds(n, i, drawn, id) ==
    {id[j] : j \in {j \in 0 .. n - 1 : j \in drawn /\ j # i}}

\* A list of ids 0 .. n - 1 that is filled as the loop does has all that were
\* drawn, and the successor in front.
LEMMA FilledInOrder ==
    ASSUME NEW n, NEW i, NEW succ, NEW drawn, NEW A, NEW id, NEW f,
           Filling(n, i, succ, drawn, A, id, f)
    PROVE  /\ ToSet(f[n]) = DrawnIds(n, i, drawn, id)
           /\ f[n][1] = id[succ]
<1> SUFFICES ASSUME n \in Nat, i \in 0 .. n - 1, succ \in 0 .. n - 1,
                    succ = i + 1 \/ (succ = 0 /\ i + 1 = n), succ # i,
                    succ \in drawn, id \in [0 .. n - 1 -> A], f[0] = <<>>,
                    \A k \in 0 .. n - 1 :
                        IF k \in drawn /\ k # i
                        THEN IF k = i + 1 THEN PutFirst(f[k + 1], f[k], id[k])
                                          ELSE PutLast(f[k + 1], f[k], id[k])
                        ELSE f[k + 1] = f[k]
             PROVE  /\ ToSet(f[n]) = DrawnIds(n, i, drawn, id)
                    /\ f[n][1] = id[succ]
  BY DEF Filling
<1> DEFINE Upto(k) == {j \in 0 .. k - 1 : j \in drawn /\ j # i}
           Right(k) == /\ f[k] \in Seq(A)
                       /\ ToSet(f[k]) = {id[j] : j \in Upto(k)}
                       /\ succ < k => f[k] # <<>> /\ f[k][1] = id[succ]
                       /\ k = 0 => f[k] = <<>>
           S == {k \in Nat : k <= n => Right(k)}
<1>1. 0 \in S
  <2>1. Upto(0) = {}
    OBVIOUS
  <2>2. ToSet(f[0]) = {}
    BY DEF ToSet
  <2>3. f[0] \in Seq(A) /\ ~ (succ < 0)
    OBVIOUS
  <2> HIDE DEF Upto
  <2>4. QED BY <2>1, <2>2, <2>3
<1>2. ASSUME NEW k \in Nat, k \in S PROVE k + 1 \in S
  <2> SUFFICES ASSUME k + 1 <= n PROVE Right(k + 1)
    <3> HIDE DEF Right
    <3> QED OBVIOUS
  <2>1. k \in 0 .. n - 1 /\ Right(k) /\ id[k] \in A
    BY <1>2
  <2>2. IF k \in drawn /\ k # i
        THEN IF k = i + 1 THEN PutFirst(f[k + 1], f[k], id[k])
                          ELSE PutLast(f[k + 1], f[k], id[k])
        ELSE f[k + 1] = f[k]
    BY <2>1
  <2>3. CASE ~ (k \in drawn /\ k # i)
    <3>1. Upto(k + 1) = Upto(k)
      BY <2>3
    <3>2. succ < k + 1 => succ < k
      BY <2>3
    <3>3. f[k + 1] = f[k] /\ k + 1 # 0
      BY <2>2, <2>3
    <3> HIDE DEF Upto
    <3>4. QED BY <2>1, <3>1, <3>2, <3>3
  <2>4. CASE k \in drawn /\ k # i
    <3>1. Upto(k + 1) = Upto(k) \cup {k} /\ k + 1 # 0
      BY <2>1, <2>4
    <3> DEFINE t == f[k]
               u == f[k + 1]
    <3>2. t \in Seq(A) /\ ToSet(t) = {id[j] : j \in Upto(k)}
      BY <2>1
    <3>3. {id[j] : j \in Upto(k + 1)} = {id[j] : j \in Upto(k)} \cup {id[k]}
      <4> HIDE DEF Upto
      <4> QED BY <3>1
    <3>4. CASE k = i + 1
      <4>1. PutFirst(u, t, id[k]) /\ succ = k
        BY <2>1, <2>2, <2>4, <3>4
      <4> HIDE DEF Upto, t, u
      <4>2. u \in Seq(A) /\ ToSet(u) = ToSet(t) \cup {id[k]} /\ u # <<>> /\ u[1] = id[k]
        <5>1. id[k] \in A
          BY <2>1
        <5>2. QED BY <3>2, <4>1, <5>1, OneMoreFirst
      <4>3. QED BY <3>1, <3>2, <3>3, <4>1, <4>2 DEF u
    <3>5. CASE k # i + 1
      <4>1. PutLast(u, t, id[k])
        BY <2>2, <2>4, <3>5
      <4>2. succ < k + 1 => succ < k \/ (k = 0 /\ succ = 0)
        BY <2>1, <3>5
      <4>3. (succ < k => t # <<>> /\ t[1] = id[succ]) /\ (k = 0 => t = <<>>)
        BY <2>1
      <4> HIDE DEF Upto, t, u
      <4>4. /\ u \in Seq(A) /\ ToSet(u) = ToSet(t) \cup {id[k]} /\ u # <<>>
            /\ t = <<>> => u[1] = id[k]
            /\ t # <<>> => u[1] = t[1]
        <5>1. id[k] \in A
          BY <2>1
        <5>2. QED BY <3>2, <4>1, <5>1, OneMoreLast
      <4>5. succ < k + 1 => u[1] = id[succ]
        BY <4>2, <4>3, <4>4
      <4>6. QED BY <3>1, <3>2, <3>3, <4>4, <4>5 DEF u
    <3>6. QED BY <3>4, <3>5
  <2>5. QED BY <2>3, <2>4
<1>3. Nat \subseteq S
  <2> HIDE DEF S
  <2> QED BY <1>1, <1>2, Counted
<1>4. Right(n)
  <2> HIDE DEF Right
  <2> QED BY <1>3
<1>5. n \in Nat /\ succ < n
  OBVIOUS
<1>6. QED BY <1>4, <1>5 DEF DrawnIds

(***************************************************************************)
(* Every shape whose conversions count alike, every draw that ends: a      *)
(* gossip table filled from a whole node list has a peer for every number  *)
(* drawn, and the successor in front (create_kad_table,                    *)
(* eval_client.cpp:514).                                                   *)
(***************************************************************************)
THEOREM SuccessorsFound == \A s : IsShape(s) => TableHasSuccessor(s)
<1> SUFFICES ASSUME NEW s, IsShape(s), CountsAgree(s),
                    NEW i \in 0 .. num_nodes_total(s) - 1, NEW draw,
                    draw \in Draws(convert_ID_int_to_string(i, s), s)
             PROVE  LET total == num_nodes_total(s)
                        id(k) == convert_ID_int_to_string(k, s)
                        drawn == NeighborIds(id(i), draw, s)
                        table == KadTable(id(i), drawn, ToSet(IdsInOrder(s)), s)
                    IN  /\ {convert_ID_string_to_int(m, s) : m \in ToSet(table)}
                                = drawn \ {i}
                        /\ total > 1 => table[1] = id((i + 1) % total)
  BY Zenon DEF TableHasSuccessor
<1> DEFINE n == num_nodes_total(s)
           Id(k) == convert_ID_int_to_string(k, s)
           NumberOf(x) == convert_ID_string_to_int(x, s)
           ids == IdsInOrder(s)
           succ == (i + 1) % n
           drawn == NeighborIds(Id(i), draw, s)
           table == KadTable(Id(i), drawn, ToSet(ids), s)
           A == {Id(k) : k \in 0 .. n - 1}
           id == [k \in 0 .. n - 1 |-> Id(k)]
<1>1. n \in Nat
  BY WeightsGrow, WidthsPositive DEF num_nodes_total
<1>2. \A k \in 0 .. n - 1 : NumberOf(Id(k)) = k
  BY NumbersComeBack
<1>3. ids = [k \in 1 .. n |-> Id(k - 1)]
  BY DEF IdsInOrder
<1>4. drawn = {(NumberOf(Id(i)) + 1) % n} \cup draw
  BY DEF NeighborIds, Successor
<1>5. PICK f : Fills(f, n, Id(i), drawn, ToSet(ids), s) /\ table = f[n]
  BY <1>1, TableIs
<1>12. draw \subseteq (0 .. n - 1) \ {i} /\ i \in 0 .. n - 1
  <2>1. draw \subseteq (0 .. n - 1) \ {NumberOf(Id(i)), Successor(Id(i), s)}
    BY DEF Draws
  <2>2. QED BY <1>2, <2>1
<1> HIDE DEF n, Id, NumberOf, ids, drawn, table
<1>6. \A k \in 0 .. n - 1 : Id(k) \in ToSet(ids) /\ ids[k + 1] = Id(k)
  <2>1. DOMAIN ids = 1 .. n
    BY <1>3
  <2>2. ASSUME NEW k \in 0 .. n - 1 PROVE ids[k + 1] = Id(k) /\ k + 1 \in DOMAIN ids
    <3>1. k + 1 \in 1 .. n /\ (k + 1) - 1 = k
      BY <1>1
    <3>2. QED BY <1>3, <2>1, <3>1
  <2>3. QED BY <2>2 DEF ToSet
<1>7. \A k \in 0 .. n - 1 : Id(k) = Id(i) <=> k = i
  BY <1>2, <1>12
<1>8. f[0] = <<>>
  BY <1>1, <1>5 DEF Fills
<1>9. ASSUME NEW k \in 0 .. n - 1
      PROVE  IF k \in drawn /\ k # i
             THEN IF k = i + 1 THEN PutFirst(f[k + 1], f[k], id[k])
                               ELSE PutLast(f[k + 1], f[k], id[k])
             ELSE f[k + 1] = f[k]
  <2>1. k + 1 \in 0 .. n /\ k + 1 # 0 /\ (k + 1) - 1 = k
    BY <1>1
  <2>2. f[k + 1] =
            IF NumberOf(ids[k + 1]) \in drawn /\ ids[k + 1] # Id(i) /\ ids[k + 1] \in ToSet(ids)
            THEN Entered(f[k], ids[k + 1], NumberOf(Id(i)), s)
            ELSE f[k]
    BY <1>5, <2>1 DEF Fills, NumberOf, ids
  <2>3. ids[k + 1] = Id(k) /\ NumberOf(Id(k)) = k /\ NumberOf(Id(i)) = i /\ id[k] = Id(k)
    BY <1>2, <1>6, <1>12
  <2>4. Entered(f[k], Id(k), i, s) = IF k = i + 1 THEN <<Id(k)>> \o f[k] ELSE Append(f[k], Id(k))
    BY <2>3 DEF Entered, NumberOf
  <2> HIDE DEF id
  <2>5. QED BY <1>6, <1>7, <2>2, <2>3, <2>4 DEF PutFirst, PutLast
<1>10. succ \in 0 .. n - 1 /\ (IF i + 1 < n THEN succ = i + 1 ELSE succ = 0 /\ i + 1 = n)
  <2>1. n \in Nat \ {0} /\ i + 1 \in Nat /\ i + 1 <= n
    BY <1>1, <1>12
  <2>2. CASE i + 1 < n
    <3>1. i + 1 = 0 * n + (i + 1) /\ i + 1 \in 0 .. n - 1 /\ 0 \in Nat
      BY <2>1, <2>2
    <3>2. QED BY <2>1, <2>2, <3>1, DivUnique
  <2>3. CASE ~ (i + 1 < n)
    <3>1. i + 1 = n /\ i + 1 = 1 * n + 0 /\ 0 \in 0 .. n - 1 /\ 1 \in Nat
      BY <2>1, <2>3
    <3>2. QED BY <2>1, <2>3, <3>1, DivUnique
  <2>4. QED BY <2>2, <2>3
<1>11. drawn = {succ} \cup draw
  BY <1>2, <1>4, <1>12
<1> HIDE DEF succ
<1>13. CASE n > 1
  <2>1. succ # i /\ (succ = i + 1 \/ (succ = 0 /\ i + 1 = n)) /\ succ \in drawn
    BY <1>1, <1>10, <1>11, <1>12, <1>13
  <2>2. id \in [0 .. n - 1 -> A]
    OBVIOUS
  <2>3. /\ ToSet(table) = DrawnIds(n, i, drawn, id)
        /\ table[1] = id[succ]
    <3> HIDE DEF id, A
    <3>1. \A k \in 0 .. n - 1 :
            IF k \in drawn /\ k # i
            THEN IF k = i + 1 THEN PutFirst(f[k + 1], f[k], id[k])
                              ELSE PutLast(f[k + 1], f[k], id[k])
            ELSE f[k + 1] = f[k]
      BY <1>9
    <3>2. /\ ToSet(f[n]) = DrawnIds(n, i, drawn, id)
          /\ f[n][1] = id[succ]
      <4>1. Filling(n, i, succ, drawn, A, id, f)
        BY <1>1, <1>8, <1>10, <1>12, <2>1, <2>2, <3>1 DEF Filling
      <4>2. QED BY <4>1, FilledInOrder
    <3>3. QED BY <1>5, <3>2
  <2>4. table[1] = Id(succ)
    BY <1>10, <2>3
  <2>5. {NumberOf(m) : m \in ToSet(table)} = drawn \ {i}
    <3>1. \A j \in 0 .. n - 1 : NumberOf(id[j]) = j
      BY <1>2
    <3>2. drawn \ {i} = {j \in 0 .. n - 1 : j \in drawn /\ j # i}
      BY <1>10, <1>11, <1>12
    <3> HIDE DEF id
    <3>3. QED BY <2>3, <3>1, <3>2 DEF DrawnIds
  <2>6. QED BY <2>4, <2>5 DEF n, Id, NumberOf, ids, drawn, table, succ
<1>14. CASE ~ (n > 1)
  <2>0. n = 1 /\ i = 0 /\ succ = 0
    BY <1>1, <1>10, <1>12, <1>14
  <2>1. n = 1 /\ i = 0 /\ succ = 0 /\ drawn = {0}
    <3>1. draw = {}
      BY <1>12, <2>0
    <3>2. QED BY <1>11, <2>0, <3>1
  <2>2. 0 \in 0 .. n - 1
    BY <2>1
  <2>3. f[0 + 1] = f[0]
    BY <1>9, <2>1, <2>2
  <2>4. table = <<>>
    BY <1>5, <1>8, <2>1, <2>3
  <2>5. ToSet(table) = {}
    BY <2>4 DEF ToSet
  <2>6. {NumberOf(m) : m \in ToSet(table)} = drawn \ {i}
    BY <2>1, <2>5
  <2>7. QED BY <1>14, <2>6 DEF n, Id, NumberOf, ids, drawn, table, succ
<1>15. QED BY <1>1, <1>13, <1>14

(***************************************************************************)
(* What EvalTables says of the shape an operator entered, of every shape.  *)
(***************************************************************************)
THEOREM ShapesFit == \A s : IsShape(s) => IdsFit(s)
BY RoundTrips, SuccessorsFound DEF IdsFit

-----------------------------------------------------------------------------
(***************************************************************************)
(* The bootstrap.                                                          *)
(***************************************************************************)

\* Every client has a configuration and a pointer for each type, if null.
Shaped ==
    /\ eval_config_ = [c \in Clients |-> eval_config_[c]]
    /\ managers = [c \in Clients |-> [t \in EvalTypes |-> managers[c][t]]]

\* Without a configuration there is no manager, which is why the first CONFIG
\* need not reset one.
ConfiguredFirst ==
    \A c \in Clients, t \in EvalTypes :
        eval_config_[c] = Nothing => managers[c][t] = Nothing

IInv == Shaped /\ ConfiguredFirst /\ OneManager

\* A client whose pointers are null afterwards, whatever its configuration.
LEMMA NoneLeft ==
    ASSUME IInv, NEW c \in Clients, NEW cfg,
           eval_config_' = [eval_config_ EXCEPT ![c] = cfg],
           NEW pointers, managers' = [managers EXCEPT ![c] = pointers],
           pointers = [t \in EvalTypes |-> pointers[t]],
           \A t \in EvalTypes : pointers[t] = Nothing
    PROVE  IInv'
<1>1. Shaped'
  <2>1. eval_config_' = [d \in Clients |-> eval_config_'[d]]
    BY DEF IInv, Shaped
  <2>2. managers' = [d \in Clients |-> [t \in EvalTypes |-> managers'[d][t]]]
    BY DEF IInv, Shaped
  <2>3. QED BY <2>1, <2>2 DEF Shaped
<1>2. \A t \in EvalTypes : managers'[c][t] = Nothing
  BY DEF IInv, Shaped
<1>3. \A d \in Clients \ {c} :
          eval_config_'[d] = eval_config_[d] /\ managers'[d] = managers[d]
  BY DEF IInv, Shaped
<1>4. ConfiguredFirst' /\ OneManager'
  BY <1>2, <1>3 DEF IInv, ConfiguredFirst, OneManager
<1>5. QED BY <1>1, <1>4 DEF IInv

\* Configuring leaves no manager: there was none, or the one of the old
\* configuration's type, which is the one that is reset.
LEMMA NoManagerStays ==
    ASSUME IInv, NEW c \in Clients, HandleConfig(c)
    PROVE  /\ managers' = [managers EXCEPT ![c] = Reset(c)]
           /\ Reset(c) = [t \in EvalTypes |-> Reset(c)[t]]
           /\ \A t \in EvalTypes : Reset(c)[t] = Nothing /\ managers'[c][t] = Nothing
<1>1. managers' = [managers EXCEPT ![c] = Reset(c)]
  BY DEF HandleConfig
<1>2. Reset(c) = [t \in EvalTypes |-> Reset(c)[t]]
  BY DEF Reset, IInv, Shaped
<1>3. \A t \in EvalTypes : Reset(c)[t] = Nothing
  <2>1. CASE eval_config_[c] = Nothing
    BY <2>1 DEF Reset, IInv, ConfiguredFirst
  <2>2. CASE eval_config_[c] # Nothing
    BY <2>2 DEF Reset, IInv, Shaped, OneManager
  <2>3. QED BY <2>1, <2>2
<1>4. managers'[c] = Reset(c)
  BY <1>1 DEF IInv, Shaped
<1>5. QED BY <1>1, <1>2, <1>3, <1>4

LEMMA ConfigStep ==
    ASSUME IInv, NEW c \in Clients, HandleConfig(c)
    PROVE  IInv'
<1>1. PICK cfg : eval_config_' = [eval_config_ EXCEPT ![c] = cfg]
  BY DEF HandleConfig
<1>2. QED BY <1>1, NoManagerStays, NoneLeft

\* A manager is made for the type and the run of the configuration.
LEMMA TableStep ==
    ASSUME IInv, NEW c \in Clients, HandleTable(c)
    PROVE  IInv'
<1>1. eval_config_' = eval_config_
  BY DEF HandleTable
<1>2. CASE managers' = managers
  BY <1>1, <1>2 DEF IInv, Shaped, ConfiguredFirst, OneManager
<1>3. CASE managers' # managers
  <2>1. eval_config_[c] # Nothing
    BY <1>3 DEF HandleTable
  <2>2. PICK manager :
            /\ managers' = [managers EXCEPT ![c][eval_config_[c].type] = manager]
            /\ manager.run = eval_config_[c].run
    BY <1>3, <2>1 DEF HandleTable
  <2>3. Shaped'
    BY <1>1, <2>2 DEF IInv, Shaped
  <2>4. \A d \in Clients, t \in EvalTypes :
            \/ managers'[d][t] = managers[d][t]
            \/ d = c /\ t = eval_config_[c].type /\ managers'[d][t] = manager
    BY <2>2 DEF IInv, Shaped
  <2>5. QED BY <1>1, <2>1, <2>2, <2>3, <2>4 DEF IInv, ConfiguredFirst, OneManager
<1>4. QED BY <1>2, <1>3

\* A process that ends leaves nothing in memory.
LEMMA EndStep ==
    ASSUME IInv, NEW c \in Clients, Ends(c)
    PROVE  IInv'
<1> DEFINE pointers == [t \in EvalTypes |-> Nothing]
<1>1. eval_config_' = [eval_config_ EXCEPT ![c] = Nothing]
      /\ managers' = [managers EXCEPT ![c] = pointers]
  BY DEF Ends
<1>2. pointers = [t \in EvalTypes |-> pointers[t]] /\ \A t \in EvalTypes : pointers[t] = Nothing
  OBVIOUS
<1> HIDE DEF pointers
<1>3. QED BY <1>1, <1>2, NoneLeft

LEMMA ManagerStep ==
    ASSUME IInv, [Next]_vars PROVE IInv'
<1>1. CASE UNCHANGED <<eval_config_, managers>>
  BY <1>1 DEF IInv, Shaped, ConfiguredFirst, OneManager
<1>2. CASE UNCHANGED vars
  BY <1>1, <1>2 DEF vars, clientVars
<1>3. CASE Operator
  BY <1>1, <1>3
  DEF Operator, handle_config, handle_table, Order, serverVars, clientVars
<1>4. ASSUME NEW c \in Clients, Start(c) \/ ServerReceive(c) \/ Disturb(c) \/ Vanish(c)
      PROVE  IInv'
  BY <1>1, <1>4 DEF Start, ServerReceive, Disturb, Vanish, clientVars
<1>5. ASSUME NEW c \in Clients, Crash(c) PROVE IInv'
  BY <1>5, EndStep DEF Crash
<1>6. ASSUME NEW c \in Clients, Handle(c) PROVE IInv'
  <2>1. CASE HandleBroadcast(c)
    BY <1>1, <2>1 DEF HandleBroadcast
  <2>2. CASE HandlePullLog(c)
    BY <1>1, <2>2, EndStep DEF HandlePullLog, clientVars
  <2>3. QED BY <1>6, <2>1, <2>2, ConfigStep, TableStep DEF Handle
<1>7. QED BY <1>2, <1>3, <1>4, <1>5, <1>6 DEF Next

(***************************************************************************)
(* Through any number of runs, pages, crashes and restarts, and over any   *)
(* network, a client's manager is the one receive and send_push_log        *)
(* dereference without looking: that of its configuration's type and run.  *)
(***************************************************************************)
THEOREM ManagerOfConfiguration == Spec => []OneManager
<1>1. Init => IInv
  BY DEF Init, IInv, Shaped, ConfiguredFirst, OneManager
<1>2. IInv /\ [Next]_vars => IInv'
  BY ManagerStep
<1>3. IInv => OneManager
  BY DEF IInv
<1>4. QED BY <1>1, <1>2, <1>3, PTL DEF Spec
-----------------------------------------------------------------------------
(***************************************************************************)
(* Sequences of datagrams.                                                 *)
(***************************************************************************)
\* A datagram leaves the front: the others move up.
LEMMA TailMovesUp ==
    ASSUME NEW S, NEW s \in Seq(S), s # <<>>
    PROVE  /\ Tail(s) \in Seq(S) /\ Len(s) \in Nat \ {0} /\ Len(Tail(s)) = Len(s) - 1
           /\ Head(s) = s[1] /\ s[1] \in S
           /\ \A i \in 1 .. Len(s) - 1 : Tail(s)[i] = s[i + 1]
<1>1. Len(s) \in Nat \ {0}
  BY EmptySeq
<1>2. Tail(s) \in Seq(S) /\ Len(Tail(s)) = Len(s) - 1 /\ Head(s) = s[1] /\ s[1] \in S
  BY <1>1, HeadTailProperties, ElementOfSeq
<1>3. \A i \in 1 .. Len(s) - 1 : Tail(s)[i] = s[i + 1]
  BY <1>1, HeadTailProperties
<1>4. QED BY <1>1, <1>2, <1>3

\* Datagrams join the end.
LEMMA ConcatKeeps ==
    ASSUME NEW S, NEW s \in Seq(S), NEW t \in Seq(S)
    PROVE  /\ s \o t \in Seq(S)
           /\ Len(s) \in Nat /\ Len(t) \in Nat /\ Len(s \o t) = Len(s) + Len(t)
           /\ \A i \in 1 .. Len(s) : (s \o t)[i] = s[i]
           /\ \A i \in Len(s) + 1 .. Len(s) + Len(t) : (s \o t)[i] = t[i - Len(s)]
<1>1. Len(s) \in Nat /\ Len(t) \in Nat
  BY LenProperties
<1>2. /\ s \o t \in Seq(S) /\ Len(s \o t) = Len(s) + Len(t)
      /\ \A i \in 1 .. Len(s) + Len(t) :
             (s \o t)[i] = IF i <= Len(s) THEN s[i] ELSE t[i - Len(s)]
  BY ConcatProperties
<1>3. QED BY <1>1, <1>2

\* One lost or two swapped: nothing is there that was not there before.
LEMMA DisturbancesBringNothing ==
    ASSUME NEW S, NEW s \in Seq(S), s # <<>>, NEW t \in Disturbances(s)
    PROVE  /\ t \in Seq(S)
           /\ \A i \in DOMAIN t : \E j \in DOMAIN s : t[i] = s[j]
<1>1. /\ Len(s) \in Nat \ {0} /\ DOMAIN s = 1 .. Len(s)
      /\ \A i \in 1 .. Len(s) : s[i] \in S
  BY TailMovesUp, LenProperties, ElementOfSeq
<1>2. CASE t = Tail(s)
  <2>1. t \in Seq(S) /\ Len(t) = Len(s) - 1 /\ \A i \in 1 .. Len(s) - 1 : t[i] = s[i + 1]
    BY <1>2, TailMovesUp
  <2>2. DOMAIN t = 1 .. Len(s) - 1
    BY <2>1, LenProperties
  <2>3. QED BY <1>1, <2>1, <2>2
<1>3. CASE Len(s) # 1 /\ t = <<s[2], s[1]>> \o SubSeq(s, 3, Len(s))
  <2> DEFINE u == <<s[2], s[1]>>
             v == SubSeq(s, 3, Len(s))
  <2>1. u \in Seq(S) /\ Len(u) = 2 /\ u[1] = s[2] /\ u[2] = s[1]
    BY <1>1, <1>3
  <2>2. /\ v \in Seq(S)
        /\ Len(v) = Len(s) - 2
        /\ \A i \in 1 .. Len(s) - 2 : v[i] = s[i + 2]
    <3>1. 3 \in Int /\ Len(s) \in Int /\ \A i \in 3 .. Len(s) : s[i] \in S
      BY <1>1
    <3>2. v \in Seq(S)
      BY <3>1, SubSeqProperties, Zenon
    <3>3. Len(v) = IF 3 <= Len(s) THEN Len(s) - 3 + 1 ELSE 0
      BY <1>1, <3>1, SubSeqProperties
    <3>4. \A i \in 1 .. Len(s) - 3 + 1 : v[i] = s[3 + i - 1]
      BY <1>1, <3>1, SubSeqProperties
    <3> HIDE DEF v
    <3>5. Len(v) = Len(s) - 2
      <4>1. \A m \in Nat \ {0} :
                m # 1 => (IF 3 <= m THEN m - 3 + 1 ELSE 0) = m - 2
        OBVIOUS
      <4>2. QED BY <1>1, <1>3, <3>3, <4>1
    <3>6. ASSUME NEW i \in 1 .. Len(s) - 2 PROVE v[i] = s[i + 2]
      <4>1. i \in 1 .. Len(s) - 3 + 1 /\ 3 + i - 1 = i + 2
        BY <1>1
      <4>2. QED BY <3>4, <4>1
    <3>7. QED BY <3>2, <3>5, <3>6
  <2>3. t = u \o v
    BY <1>3
  <2> HIDE DEF u, v
  <2>4. /\ t \in Seq(S) /\ Len(t) = Len(s)
        /\ \A i \in 1 .. 2 : t[i] = u[i]
        /\ \A i \in 3 .. Len(s) : t[i] = v[i - 2]
    <3>1. /\ t \in Seq(S) /\ Len(t) = Len(u) + Len(v)
          /\ \A i \in 1 .. Len(u) : t[i] = u[i]
          /\ \A i \in Len(u) + 1 .. Len(u) + Len(v) : t[i] = v[i - Len(u)]
      <4>1. u \in Seq(S) /\ v \in Seq(S)
        BY <2>1, <2>2
      <4>2. QED BY <2>3, <4>1, ConcatKeeps, Zenon
    <3>2. QED BY <1>1, <1>3, <2>1, <2>2, <3>1
  <2>5. DOMAIN t = 1 .. Len(s)
    BY <2>4, LenProperties
  <2>6. ASSUME NEW i \in 1 .. Len(s) PROVE \E j \in 1 .. Len(s) : t[i] = s[j]
    BY <1>1, <1>3, <2>1, <2>2, <2>4
  <2>7. QED BY <1>1, <2>4, <2>5, <2>6
<1>4. QED BY <1>2, <1>3 DEF Disturbances

-----------------------------------------------------------------------------
(***************************************************************************)
(* What the server tells.                                                  *)
(***************************************************************************)
Numbers == 0 .. Len(db) - 1

\* RecordsOf gives the numbers of a client, each of which has a place in it.
LEMMA RecordsAreNumbers ==
    ASSUME db \in Seq(Clients), NEW c \in Clients
    PROVE  /\ RecordsOf(c) \in Seq(Numbers)
           /\ \A k \in 1 .. Len(RecordsOf(c)) : db[RecordsOf(c)[k] + 1] = c
           /\ c \in Addresses <=> Len(RecordsOf(c)) > 0
<1> DEFINE ids == {id \in Numbers : db[id + 1] = c}
           Newer(id) == {newer \in ids : newer > id}
           rank == [id \in ids |-> Cardinality(Newer(id))]
           n == Cardinality(ids)
<1>1. Len(db) \in Nat /\ DOMAIN db = 1 .. Len(db)
  BY LenProperties
<1>2. IsFiniteSet(ids) /\ ids \subseteq Numbers /\ ids \subseteq Nat
  <2>1. IsFiniteSet(Numbers) /\ Numbers \subseteq Nat
    BY <1>1, FS_Interval DEF Numbers
  <2>2. QED BY <2>1, FS_Subset
<1>3. n \in Nat
  BY <1>2, FS_CardinalityType
<1> HIDE DEF ids
<1>0. n = Cardinality(ids) /\ \A id : Newer(id) = {newer \in ids : newer > id}
  OBVIOUS
<1> HIDE DEF n, Newer
<1>4. \A id \in ids : IsFiniteSet(Newer(id)) /\ rank[id] \in 0 .. n - 1
  <2> SUFFICES ASSUME NEW id \in ids PROVE IsFiniteSet(Newer(id)) /\ rank[id] \in 0 .. n - 1
    OBVIOUS
  <2>1. IsFiniteSet(Newer(id)) /\ Cardinality(Newer(id)) <= n
    <3>1. Newer(id) \in SUBSET ids
      BY <1>0
    <3>2. QED BY <1>0, <1>2, <3>1, FS_Subset
  <2>2. Newer(id) # ids /\ Newer(id) \in SUBSET ids
    BY <1>0, <1>2
  <2>3. Cardinality(Newer(id)) # n
    BY <1>0, <1>2, <2>2, FS_Subset
  <2>4. Cardinality(Newer(id)) \in Nat
    BY <2>1, FS_CardinalityType
  <2>5. QED BY <1>3, <2>1, <2>3, <2>4
<1>5. \A i \in ids, j \in ids : i < j => rank[i] > rank[j]
  <2> SUFFICES ASSUME NEW i \in ids, NEW j \in ids, i < j PROVE rank[i] > rank[j]
    OBVIOUS
  <2>1. Newer(j) \subseteq Newer(i) /\ Newer(j) # Newer(i)
    <3>1. j \in Newer(i) /\ j \notin Newer(j)
      BY <1>0, <1>2
    <3>2. ASSUME NEW x \in Newer(j) PROVE x \in Newer(i)
      <4>1. x \in ids /\ x > j
        BY <1>0
      <4>2. x \in Int /\ i \in Int /\ j \in Int
        BY <1>2, <4>1
      <4>3. x > i
        BY <4>1, <4>2
      <4>4. QED BY <1>0, <4>1, <4>3
    <3>3. QED BY <3>1, <3>2
  <2>2. Cardinality(Newer(j)) <= Cardinality(Newer(i))
        /\ Cardinality(Newer(j)) # Cardinality(Newer(i))
    <3>1. IsFiniteSet(Newer(i)) /\ Newer(j) \in SUBSET Newer(i)
      BY <1>4, <2>1
    <3>2. QED BY <2>1, <3>1, FS_Subset
  <2>3. /\ rank[i] = Cardinality(Newer(i)) /\ rank[j] = Cardinality(Newer(j))
        /\ rank[i] \in Int /\ rank[j] \in Int
    BY <1>3, <1>4
  <2> HIDE DEF rank
  <2>4. QED BY <2>2, <2>3
<1>6. rank \in Injection(ids, 0 .. n - 1)
  <2>1. \A i \in ids, j \in ids : rank[i] = rank[j] => i = j
    <3>1. \A i \in ids : i \in Int /\ rank[i] \in Int
      BY <1>2, <1>3, <1>4
    <3> HIDE DEF rank
    <3>2. QED BY <1>5, <3>1
  <2>2. rank \in [ids -> 0 .. n - 1]
    BY <1>4
  <2> HIDE DEF rank
  <2>3. QED BY <2>1, <2>2 DEF Injection, IsInjective
<1>7. rank \in Surjection(ids, 0 .. n - 1)
  <2>1. IsFiniteSet(0 .. n - 1) /\ Cardinality(0 .. n - 1) = n
    BY <1>3, FS_Interval
  <2> HIDE DEF rank
  <2>2. QED BY <1>0, <1>6, <2>1, FS_Injection
<1>8. \A k \in 1 .. n : \E id \in ids : Cardinality(Newer(id)) = k - 1
  <2>1. \A k \in 0 .. n - 1 : \E id \in ids : rank[id] = k
    <3> HIDE DEF rank
    <3> QED BY <1>7 DEF Surjection
  <2>2. \A k \in 1 .. n : k - 1 \in 0 .. n - 1
    BY <1>3
  <2>3. QED BY <2>1, <2>2
<1>9. RecordsOf(c) = [k \in 1 .. n |-> CHOOSE id \in ids : Cardinality(Newer(id)) = k - 1]
  BY DEF RecordsOf, ids, Numbers, Newer, n
<1>10. \A k \in 1 .. n : RecordsOf(c)[k] \in ids
  BY <1>8, <1>9
<1>11. RecordsOf(c) \in Seq(Numbers) /\ Len(RecordsOf(c)) = n
  <2>1. RecordsOf(c) \in [1 .. n -> Numbers]
    BY <1>2, <1>9, <1>10
  <2>2. QED BY <1>3, <2>1
<1>12. c \in Addresses <=> ids # {}
  <2>1. c \in Addresses <=> \E i \in 1 .. Len(db) : db[i] = c
    BY <1>1 DEF Addresses, ToSet
  <2>2. \A i \in 1 .. Len(db) : i - 1 \in Numbers /\ (i - 1) + 1 = i
    BY <1>1 DEF Numbers
  <2>3. \A id \in Numbers : id + 1 \in 1 .. Len(db)
    BY <1>1 DEF Numbers
  <2>4. QED BY <2>1, <2>2, <2>3 DEF ids
<1>13. ids # {} <=> n > 0
  BY <1>0, <1>2, <1>3, FS_EmptySet
<1>14. QED BY <1>10, <1>11, <1>12, <1>13 DEF ids

\* A number rounded up to full pages.
LEMMA RoundedUp ==
    ASSUME NEW size \in Nat, NEW d \in Nat \ {0}
    PROVE  LET n == (size + d - 1) \div d
           IN  /\ n \in Nat /\ n * d \in Nat
               /\ size <= n * d /\ n * d < size + d
               /\ size > 0 => n > 0
<1> DEFINE n == (size + d - 1) \div d
           r == (size + d - 1) % d
<1>1. size + d - 1 \in Nat
  OBVIOUS
<1>2. n \in Nat /\ r \in 0 .. d - 1 /\ size + d - 1 = n * d + r
  BY <1>1, DivMod
<1>3. n * d \in Nat /\ 0 * d = 0
  BY <1>2
<1> DEFINE m == n * d
<1> HIDE DEF m, n, r
<1>4. size <= m /\ m < size + d
  BY <1>2, <1>3 DEF m
<1>5. size > 0 => n > 0
  BY <1>2, <1>3, <1>4 DEF m
<1>6. QED BY <1>2, <1>3, <1>4, <1>5 DEF m, n

\* Multiples of a page size keep their order.
LEMMA PagesInOrder ==
    ASSUME NEW d \in Nat \ {0}, NEW p \in Nat, NEW q \in Nat, p * d < q * d
    PROVE  p < q
<1>1. q <= p => q * d <= p * d
  BY ProductGrows
<1>2. p * d \in Nat /\ q * d \in Nat
  OBVIOUS
<1> DEFINE a == p * d
           b == q * d
<1> HIDE DEF a, b
<1>3. q <= p => b <= a
  BY <1>1 DEF a, b
<1>4. a \in Nat /\ b \in Nat /\ a < b
  BY <1>2 DEF a, b
<1>5. QED BY <1>3, <1>4

\* What handle_table writes for table_size is the number of entries.
LEMMA SizeOfPage ==
    ASSUME NEW p \in Nat \ {0}, NEW n \in 1 .. PageSize
    PROVE  TableSize((p - 1) * PageSize + n) = n
<1> DEFINE a == (p - 1) * PageSize
           i == a + n
<1>1. PageSize \in Nat \ {0} /\ p - 1 \in Nat /\ a \in Nat
  BY BootstrapAssumption
<1>2. p - 1 = 0 => a = 0
  BY <1>1
<1>3. p - 1 # 0 => a >= PageSize
  <2> SUFFICES ASSUME p - 1 # 0 PROVE a >= PageSize
    OBVIOUS
  <2>1. 1 <= p - 1
    BY <1>1
  <2>2. 1 * PageSize <= (p - 1) * PageSize
    BY <1>1, <2>1, ProductGrows
  <2>3. 1 * PageSize = PageSize
    BY <1>1
  <2>4. QED BY <2>2, <2>3
<1>4. CASE n < PageSize
  <2>1. n \in 0 .. PageSize - 1 /\ i \in Nat
    BY <1>1, <1>4
  <2>2. i % PageSize = n
    BY <1>1, <2>1, DivUnique
  <2> HIDE DEF a
  <2>3. QED BY <1>1, <1>2, <1>3, <1>4, <2>2 DEF TableSize
<1>5. CASE n = PageSize
  <2>1. i = p * PageSize + 0
    BY <1>1, <1>5
  <2>2. i % PageSize = 0
    <3>1. 0 \in 0 .. PageSize - 1 /\ i \in Nat /\ p \in Nat
      BY <1>1
    <3>2. QED BY <1>1, <2>1, <3>1, DivUnique
  <2> HIDE DEF a
  <2>3. QED BY <1>1, <1>2, <1>3, <1>5, <2>2 DEF TableSize
<1>6. QED BY <1>1, <1>4, <1>5

PageCount == (Len(db) + PageSize - 1) \div PageSize

\* The page of number p ends with this entry.
PageEnd(p) == Min({p * PageSize, Len(db)})

\* Page after page, the entries are cut up without a gap; only the last page
\* ends the list.
LEMMA PagesCut ==
    ASSUME Len(db) \in Nat
    PROVE  /\ PageCount \in Nat
           /\ Len(db) > 0 => PageCount > 0
           /\ \A p \in 1 .. PageCount :
                /\ (p - 1) * PageSize \in Nat
                /\ PageEnd(p) - (p - 1) * PageSize \in 1 .. PageSize
                /\ PageEnd(p) \in 1 .. Len(db)
                /\ IsEnd(PageEnd(p)) <=> p = PageCount
           /\ \A j \in 1 .. Len(db) : \E p \in 1 .. PageCount :
                j - (p - 1) * PageSize \in 1 .. PageEnd(p) - (p - 1) * PageSize
<1> DEFINE size == Len(db)
           d == PageSize
           n == PageCount
<1>1. size \in Nat /\ d \in Nat \ {0} /\ n = (size + d - 1) \div d
  BY BootstrapAssumption DEF PageCount
<1> HIDE DEF size, n, d
<1>2. /\ n \in Nat /\ n * d \in Nat
      /\ size > 0 => n > 0
      /\ size <= n * d /\ n * d < size + d
  BY <1>1, RoundedUp
<1>3. \A a \in Int, b \in Int : Min({a, b}) = IF a <= b THEN a ELSE b
  BY DEF Min
<1>4. ASSUME NEW p \in 1 .. n
      PROVE  /\ (p - 1) * d \in Nat /\ p * d = (p - 1) * d + d
             /\ p * d \in Nat
             /\ PageEnd(p) = IF p * d <= size THEN p * d ELSE size
             /\ (p - 1) * d < size
             /\ p < n => p * d < size
  <2>1. p - 1 \in Nat /\ p \in Nat /\ (p - 1) * d \in Nat /\ p * d \in Nat
    BY <1>1, <1>2
  <2>2. p * d = (p - 1) * d + d
    BY <1>1, <2>1
  <2>3. PageEnd(p) = IF p * d <= size THEN p * d ELSE size
    BY <1>1, <1>3, <2>1 DEF PageEnd, size, d
  <2>4. p * d <= n * d
    BY <1>1, <1>2, <2>1, ProductGrows
  <2>5. p < n => (p + 1) * d <= n * d
    <3>1. p < n => p + 1 <= n
      BY <1>2
    <3>2. QED BY <1>1, <1>2, <2>1, <3>1, ProductGrows
  <2>6. (p + 1) * d = p * d + d
    BY <1>1, <2>1
  <2> DEFINE x == p * d
             y == n * d
             z == (p - 1) * d
             w == (p + 1) * d
  <2>7. /\ x \in Nat /\ y \in Nat /\ z \in Nat /\ x = z + d /\ w = x + d
        /\ x <= y
        /\ p < n => w <= y
        /\ y < size + d
    BY <1>2, <2>1, <2>2, <2>4, <2>5, <2>6
  <2> HIDE DEF x, y, z, w
  <2>8. /\ z < size
        /\ p < n => x < size
    BY <1>1, <2>7
  <2>9. QED BY <2>1, <2>2, <2>3, <2>8 DEF x, z
<1>5. ASSUME NEW p \in 1 .. n
      PROVE  /\ (p - 1) * d \in Nat
             /\ PageEnd(p) - (p - 1) * d \in 1 .. d
             /\ PageEnd(p) \in 1 .. size
             /\ PageEnd(p) >= size <=> p = n
  <2> DEFINE x == p * d
             z == (p - 1) * d
             e == PageEnd(p)
  <2>1. /\ x \in Nat /\ z \in Nat /\ x = z + d
        /\ e = IF x <= size THEN x ELSE size
        /\ z < size
        /\ p < n => x < size
    BY <1>4
  <2>2. p = n => size <= x
    BY <1>2
  <2> HIDE DEF x, z, e
  <2>3. e - z \in 1 .. d /\ e \in 1 .. size
    BY <1>1, <2>1
  <2>4. e >= size <=> p = n
    BY <1>1, <1>2, <2>1, <2>2
  <2>5. QED BY <2>1, <2>3, <2>4 DEF z, e
<1>6. ASSUME NEW j \in 1 .. size
      PROVE  \E p \in 1 .. n : j - (p - 1) * d \in 1 .. PageEnd(p) - (p - 1) * d
  <2> DEFINE p == (j + d - 1) \div d
  <2>1. j \in Nat /\ j > 0
    BY <1>1
  <2>2. p \in Nat /\ p * d \in Nat /\ j <= p * d /\ p * d < j + d /\ p > 0
    BY <1>1, <2>1, RoundedUp
  <2> HIDE DEF p
  <2>3. p - 1 \in Nat /\ (p - 1) * d \in Nat /\ p * d = (p - 1) * d + d
    BY <1>1, <2>2
  <2> DEFINE x == p * d
             y == n * d
             z == (p - 1) * d
  <2>4. /\ x \in Nat /\ y \in Nat /\ z \in Nat /\ x = z + d
        /\ j <= x /\ x < j + d /\ size <= y
    BY <1>2, <2>2, <2>3
  <2>5. z < y
    <3> HIDE DEF x, y, z
    <3> QED BY <1>1, <2>4
  <2>6. p - 1 < n
    BY <1>1, <1>2, <2>3, <2>5, PagesInOrder
  <2>7. p \in 1 .. n
    BY <1>2, <2>2, <2>6
  <2>8. PageEnd(p) = IF x <= size THEN x ELSE size
    BY <1>4, <2>7
  <2> HIDE DEF x, y, z
  <2>9. j - z \in 1 .. PageEnd(p) - z
    BY <1>1, <2>1, <2>4, <2>8
  <2>10. QED BY <2>7, <2>9 DEF z
<1>7. QED
  BY <1>2, <1>5, <1>6 DEF size, d, n, IsEnd

-----------------------------------------------------------------------------
(***************************************************************************)
(* What is on its way to a client, and what makes it right: it says what   *)
(* the server knew, and goes on knowing.                                   *)
(***************************************************************************)
Shapes == {Configs[i].shape : i \in DOMAIN Configs}

Configuration ==
    [kind : {"CONFIG"}, run : Nat, node_id : Nat, type : EvalTypes, shape : Shapes]
Page == [kind : {"TABLE"}, is_end : BOOLEAN, table_size : Nat,
         entries : Seq([id : Nat, address : Clients])]
AnOrder == [kind : {"BROADCAST", "PULL_LOG"}]
Datagram == Configuration \cup Page \cup AnOrder

IsOrder(m) == m.kind \in {"BROADCAST", "PULL_LOG"}
IsConfig(m) == m.kind = "CONFIG"
IsLastPage(m) == m.kind = "TABLE" /\ m.is_end

\* The numbers on the entries of a page that are read.
Read(m) == IF m.kind = "TABLE" THEN {m.entries[i].id : i \in 1 .. m.table_size} ELSE {}

RightConfig(c, m) ==
    /\ m.run \in 1 .. runs
    /\ m.type = Configs[m.run].type /\ m.shape = Configs[m.run].shape
    /\ m.node_id \in Numbers /\ db[m.node_id + 1] = c

RightPage(m) ==
    \A i \in 1 .. m.table_size :
        m.entries[i].id \in Numbers /\ m.entries[i].address = db[m.entries[i].id + 1]

RightDatagram(c, m) ==
    /\ IsConfig(m) => RightConfig(c, m)
    /\ m.kind = "TABLE" => RightPage(m)

\* The pages are right, and every number is on one of them.
LEMMA PagesRight ==
    ASSUME db \in Seq(Clients)
    PROVE  /\ Pages \in Seq(Page) /\ Len(Pages) = PageCount /\ PageCount \in Nat
           /\ Len(db) > 0 => PageCount > 0
           /\ \A p \in 1 .. PageCount :
                RightPage(Pages[p]) /\ (Pages[p].is_end <=> p = PageCount)
           /\ \A id \in Numbers : \E p \in 1 .. PageCount : id \in Read(Pages[p])
<1> DEFINE size == Len(db)
           entry(j) == [id |-> Iteration[j], address |-> db[Iteration[j] + 1]]
           page(p) ==
               [kind |-> "TABLE", is_end |-> IsEnd(PageEnd(p)),
                table_size |-> TableSize(PageEnd(p)),
                entries |-> [j \in 1 .. PageEnd(p) - (p - 1) * PageSize |->
                                entry((p - 1) * PageSize + j)]]
<1>1. Len(db) \in Nat /\ db \in [1 .. Len(db) -> Clients]
  BY LenProperties
<1>2. Pages = [p \in 1 .. PageCount |-> page(p)]
  BY DEF Pages, PageCount, PageEnd
<1>3. \A j \in 1 .. Len(db) :
        /\ entry(j).id = Len(db) - j /\ entry(j).id \in Numbers /\ entry(j).id \in Nat
        /\ entry(j).address = db[entry(j).id + 1]
        /\ entry(j) \in [id : Nat, address : Clients]
  <2> SUFFICES ASSUME NEW j \in 1 .. Len(db)
               PROVE  /\ Len(db) - j \in Numbers /\ Len(db) - j \in Nat
                      /\ Iteration[j] = Len(db) - j
                      /\ db[Iteration[j] + 1] \in Clients
    OBVIOUS
  <2>1. Iteration[j] = Len(db) - j
    BY DEF Iteration
  <2>2. Len(db) - j \in 0 .. Len(db) - 1 /\ (Len(db) - j) + 1 \in 1 .. Len(db)
    BY <1>1
  <2>3. QED BY <1>1, <2>1, <2>2 DEF Numbers
<1> HIDE DEF entry
<1>4. ASSUME NEW p \in 1 .. PageCount
      PROVE  LET n == PageEnd(p) - (p - 1) * PageSize
                 a == (p - 1) * PageSize
             IN  /\ n \in Nat /\ a \in Nat
                 /\ TableSize(PageEnd(p)) = n
                 /\ \A j \in 1 .. n : a + j \in 1 .. Len(db)
                 /\ IsEnd(PageEnd(p)) \in BOOLEAN
                 /\ IsEnd(PageEnd(p)) <=> p = PageCount
  <2> DEFINE a == (p - 1) * PageSize
             e == PageEnd(p)
  <2>1. /\ a \in Nat /\ e - a \in 1 .. PageSize /\ e \in 1 .. Len(db)
        /\ IsEnd(e) <=> p = PageCount
    BY <1>1, PagesCut
  <2>2. p \in Nat \ {0}
    BY <1>1, PagesCut
  <2>3. TableSize(a + (e - a)) = e - a
    BY <2>1, <2>2, SizeOfPage
  <2> HIDE DEF a, e
  <2>4. PageSize \in Nat
    BY BootstrapAssumption
  <2>5. e - a \in Nat /\ a + (e - a) = e /\ \A j \in 1 .. e - a : a + j \in 1 .. Len(db)
    BY <1>1, <2>1, <2>4
  <2>6. TableSize(e) = e - a
    BY <2>3, <2>5
  <2>7. IsEnd(e) \in BOOLEAN
    BY DEF IsEnd
  <2>8. QED BY <2>1, <2>5, <2>6, <2>7 DEF a, e
<1>5. ASSUME NEW p \in 1 .. PageCount
      PROVE  /\ page(p) \in Page
             /\ page(p).kind = "TABLE"
             /\ page(p).is_end <=> p = PageCount
             /\ page(p).table_size = PageEnd(p) - (p - 1) * PageSize
             /\ \A j \in 1 .. page(p).table_size :
                    page(p).entries[j] = entry((p - 1) * PageSize + j)
  <2> DEFINE a == (p - 1) * PageSize
             n == PageEnd(p) - a
  <2>1. /\ n \in Nat /\ TableSize(PageEnd(p)) = n
        /\ \A j \in 1 .. n : a + j \in 1 .. Len(db)
        /\ IsEnd(PageEnd(p)) \in BOOLEAN
        /\ IsEnd(PageEnd(p)) <=> p = PageCount
    BY <1>4
  <2> DEFINE E == [j \in 1 .. n |-> entry(a + j)]
  <2>2. E \in Seq([id : Nat, address : Clients])
    <3>1. \A j \in 1 .. n : entry(a + j) \in [id : Nat, address : Clients]
      BY <1>3, <2>1
    <3>2. n \in Nat
      BY <2>1
    <3> HIDE DEF n, a
    <3> DEFINE S == [id : Nat, address : Clients]
    <3>3. E \in [1 .. n -> S]
      BY <3>1
    <3> HIDE DEF E, S
    <3>4. E \in Seq(S)
      BY <3>2, <3>3
    <3>5. QED BY <3>4 DEF S
  <2>3. page(p) = [kind |-> "TABLE", is_end |-> IsEnd(PageEnd(p)),
                   table_size |-> n, entries |-> E]
    BY <2>1
  <2>4. \A j \in 1 .. n : E[j] = entry(a + j)
    OBVIOUS
  <2> HIDE DEF n, a, E, page
  <2>5. page(p) \in Page
    BY <2>1, <2>2, <2>3 DEF Page
  <2>6. /\ page(p).kind = "TABLE" /\ page(p).is_end = IsEnd(PageEnd(p))
        /\ page(p).table_size = n /\ page(p).entries = E
    BY <2>3
  <2>7. QED BY <2>1, <2>4, <2>5, <2>6 DEF n, a
<1> HIDE DEF page
<1>6. Pages \in Seq(Page) /\ Len(Pages) = PageCount
  <2>1. Pages \in [1 .. PageCount -> Page]
    BY <1>2, <1>5
  <2>2. PageCount \in Nat
    BY <1>1, PagesCut
  <2>3. QED BY <2>1, <2>2
<1>7. ASSUME NEW p \in 1 .. PageCount
      PROVE  RightPage(Pages[p]) /\ (Pages[p].is_end <=> p = PageCount)
  <2>1. \A j \in 1 .. PageEnd(p) - (p - 1) * PageSize :
            (p - 1) * PageSize + j \in 1 .. Len(db)
    BY <1>4
  <2>2. Pages[p] = page(p)
    BY <1>2
  <2>3. QED BY <1>3, <1>5, <2>1, <2>2 DEF RightPage
<1>8. ASSUME NEW id \in Numbers
      PROVE  \E p \in 1 .. PageCount : id \in Read(Pages[p])
  <2> DEFINE j == Len(db) - id
  <2>1. j \in 1 .. Len(db) /\ Len(db) - j = id
    BY <1>1 DEF Numbers
  <2> HIDE DEF j
  <2>2. PICK p \in 1 .. PageCount :
            j - (p - 1) * PageSize \in 1 .. PageEnd(p) - (p - 1) * PageSize
    BY <1>1, <2>1, PagesCut
  <2> DEFINE a == (p - 1) * PageSize
             k == j - a
  <2>3. k \in 1 .. page(p).table_size /\ a \in Nat
    BY <1>4, <1>5, <2>2
  <2>4. a + k = j
    <3> HIDE DEF a
    <3> QED BY <2>1, <2>3
  <2>5. page(p).entries[k] = entry(j)
    BY <1>5, <2>3, <2>4
  <2>6. page(p).entries[k].id = id
    BY <1>3, <2>1, <2>5
  <2>7. Pages[p] = page(p) /\ page(p).kind = "TABLE"
    BY <1>2, <1>5
  <2> HIDE DEF k
  <2>8. id \in Read(Pages[p])
    BY <2>3, <2>6, <2>7 DEF Read
  <2>9. QED BY <2>8
<1>9. QED BY <1>1, <1>6, <1>7, <1>8, PagesCut

\* The pages a client gets, as many copies of each as it is registered for.
Tables(c) ==
    [i \in 1 .. Len(Pages) * Len(RecordsOf(c)) |->
        Pages[(i - 1) \div Len(RecordsOf(c)) + 1]]

\* The page that ends the list comes last, and after all the others.
LEMMA TablesSent ==
    ASSUME db \in Seq(Clients), NEW c \in Clients
    PROVE  /\ Tables(c) \in Seq(Page) /\ Len(Tables(c)) \in Nat
           /\ c \in Addresses => Len(Tables(c)) > 0 /\ IsLastPage(Tables(c)[Len(Tables(c))])
           /\ \A i \in 1 .. Len(Tables(c)) :
                /\ Tables(c)[i].kind = "TABLE" /\ RightPage(Tables(c)[i])
                /\ IsLastPage(Tables(c)[i]) =>
                       \A id \in Numbers : \E k \in 1 .. i : id \in Read(Tables(c)[k])
<1> DEFINE copies == Len(RecordsOf(c))
           P == PageCount
           t == Tables(c)
           n == P * copies
           at(i) == (i - 1) \div copies + 1
<1>1. /\ copies \in Nat /\ P \in Nat /\ Len(Pages) = P /\ n \in Nat
      /\ c \in Addresses <=> copies > 0
  <2>1. RecordsOf(c) \in Seq(Numbers) /\ (c \in Addresses <=> copies > 0)
    BY RecordsAreNumbers
  <2>2. copies \in Nat
    BY <2>1, LenProperties
  <2>3. P \in Nat /\ Len(Pages) = P
    BY PagesRight
  <2>4. QED BY <2>1, <2>2, <2>3
<1>2. t = [i \in 1 .. n |-> Pages[at(i)]]
  BY <1>1 DEF Tables
<1> HIDE DEF copies, P, t
<1>3. ASSUME NEW i \in 1 .. n
      PROVE  /\ copies > 0 /\ at(i) \in 1 .. P
             /\ \A q \in 1 .. at(i) : (q - 1) * copies + 1 \in 1 .. i
  <2>1. copies > 0
    <3>1. copies = 0 => n = 0
      BY <1>1
    <3>2. QED BY <1>1, <3>1
  <2> DEFINE q == (i - 1) \div copies
             r == (i - 1) % copies
  <2>2. i - 1 \in Nat /\ copies \in Nat \ {0}
    BY <1>1, <2>1
  <2>3. q \in Nat /\ r \in 0 .. copies - 1 /\ i - 1 = q * copies + r
    BY <2>2, DivMod
  <2> HIDE DEF q, r
  <2>4. q * copies \in Nat
    BY <1>1, <2>3
  <2>5. q * copies <= i - 1
    <3> DEFINE a == q * copies
    <3>1. a \in Nat /\ i - 1 = a + r
      BY <2>3, <2>4
    <3> HIDE DEF a
    <3>2. a <= i - 1
      BY <2>2, <2>3, <3>1
    <3>3. QED BY <3>2 DEF a
  <2>6. q * copies < n
    <3> DEFINE a == q * copies
    <3> HIDE DEF a, n
    <3>1. a <= i - 1 /\ a \in Nat
      BY <2>4, <2>5 DEF a
    <3>2. a < n
      BY <1>1, <3>1
    <3>3. QED BY <3>2 DEF a
  <2>7. q < P
    BY <1>1, <2>2, <2>3, <2>6, PagesInOrder
  <2>8. at(i) = q + 1
    BY DEF q
  <2>9. ASSUME NEW p \in 1 .. q + 1 PROVE (p - 1) * copies + 1 \in 1 .. i
    <3>1. p - 1 \in Nat /\ p - 1 <= q
      BY <2>3
    <3>2. (p - 1) * copies \in Nat /\ (p - 1) * copies <= q * copies
      BY <1>1, <2>3, <3>1, ProductGrows
    <3> DEFINE a == (p - 1) * copies
               b == q * copies
    <3>3. a \in Nat /\ a <= b /\ b \in Nat /\ b <= i - 1
      BY <2>4, <2>5, <3>2
    <3> HIDE DEF a, b
    <3>4. a + 1 \in 1 .. i
      BY <2>2, <3>3
    <3>5. QED BY <3>4 DEF a
  <2>10. QED BY <1>1, <2>1, <2>3, <2>7, <2>8, <2>9
<1>4. ASSUME NEW q \in 1 .. P, copies > 0, NEW i \in 1 .. n, i = (q - 1) * copies + 1
      PROVE  at(i) = q
  <2>1. i - 1 = (q - 1) * copies + 0 /\ q - 1 \in Nat /\ (q - 1) * copies \in Nat
    BY <1>1, <1>4
  <2>2. copies \in Nat \ {0} /\ 0 \in 0 .. copies - 1 /\ i - 1 \in Nat
    BY <1>1, <1>4
  <2>3. (i - 1) \div copies = q - 1
    BY <2>1, <2>2, DivUnique
  <2>4. QED BY <1>1, <2>3
<1> HIDE DEF n, at
<1>5. t \in Seq(Page) /\ Len(t) = n
  <2>1. \A i \in 1 .. n : Pages[at(i)] \in Page
    BY <1>1, <1>3, PagesRight, ElementOfSeq
  <2>2. t \in [1 .. n -> Page]
    BY <1>2, <2>1
  <2>3. QED BY <1>1, <2>2
<1>6. ASSUME NEW i \in 1 .. n
      PROVE  t[i].kind = "TABLE" /\ RightPage(t[i]) /\ (IsLastPage(t[i]) <=> at(i) = P)
  <2>1. t[i] = Pages[at(i)] /\ at(i) \in 1 .. P
    BY <1>2, <1>3
  <2>2. t[i] \in Page
    BY <1>5, ElementOfSeq
  <2>3. t[i].kind = "TABLE"
    BY <2>2 DEF Page
  <2>4. RightPage(Pages[at(i)]) /\ (Pages[at(i)].is_end <=> at(i) = P)
    BY <2>1, PagesRight DEF P
  <2>5. QED BY <2>1, <2>3, <2>4 DEF IsLastPage
<1>7. ASSUME NEW i \in 1 .. n, at(i) = P, NEW id \in Numbers
      PROVE  \E k \in 1 .. i : id \in Read(t[k])
  <2>1. PICK q \in 1 .. P : id \in Read(Pages[q])
    BY PagesRight DEF P
  <2> DEFINE k == (q - 1) * copies + 1
  <2>2. k \in 1 .. i /\ copies > 0
    BY <1>3, <1>7
  <2>3. k \in 1 .. n
    BY <1>1, <2>2
  <2>4. at(k) = q
    BY <1>4, <2>2, <2>3
  <2>5. t[k] = Pages[q]
    BY <1>2, <2>3, <2>4
  <2> HIDE DEF k
  <2>6. QED BY <2>1, <2>2, <2>5
<1>8. ASSUME c \in Addresses PROVE n > 0 /\ at(n) = P
  <2>1. copies \in Nat \ {0}
    BY <1>1, <1>8
  <2>2. Len(db) > 0
    BY <1>8, LenProperties DEF Addresses, ToSet
  <2>3. P > 0
    BY <2>2, PagesRight DEF P
  <2>4. P - 1 \in Nat /\ (P - 1) * copies \in Nat
        /\ P * copies = (P - 1) * copies + copies
    BY <1>1, <2>1, <2>3
  <2>5. n > 0 /\ n - 1 = (P - 1) * copies + (copies - 1)
    <3> DEFINE a == (P - 1) * copies
    <3>1. n = a + copies /\ a \in Nat
      BY <2>4 DEF n
    <3> HIDE DEF a
    <3>2. n > 0 /\ n - 1 = a + (copies - 1)
      BY <2>1, <3>1
    <3>3. QED BY <3>2 DEF a
  <2>6. copies - 1 \in 0 .. copies - 1 /\ n - 1 \in Nat
    BY <1>1, <2>1, <2>5
  <2>7. (n - 1) \div copies = P - 1
    BY <2>1, <2>4, <2>5, <2>6, DivUnique
  <2>8. QED BY <1>1, <2>5, <2>7 DEF at
<1>9. Len(t) \in Nat /\ c \in Addresses => Len(t) > 0 /\ IsLastPage(t[Len(t)])
  <2> SUFFICES ASSUME c \in Addresses PROVE Len(t) > 0 /\ IsLastPage(t[Len(t)])
    BY <1>1, <1>5
  <2>1. n > 0 /\ at(n) = P /\ n \in 1 .. n
    BY <1>1, <1>8
  <2>2. QED BY <1>5, <1>6, <2>1
<1>10. QED BY <1>1, <1>5, <1>6, <1>7, <1>9 DEF t

\* The messages of "config" to a client, one for each of its numbers.
Configurations(c) ==
    [i \in DOMAIN RecordsOf(c) |->
        [kind |-> "CONFIG", run |-> runs + 1, node_id |-> RecordsOf(c)[i],
         type |-> Configs[runs + 1].type, shape |-> Configs[runs + 1].shape]]

LEMMA ConfigurationsSent ==
    ASSUME db \in Seq(Clients), runs \in Nat, runs + 1 \in 1 .. Len(Configs),
           NEW c \in Clients
    PROVE  /\ Configurations(c) \in Seq(Configuration) /\ Len(Configurations(c)) \in Nat
           /\ c \in Addresses <=> Len(Configurations(c)) > 0
           /\ \A i \in 1 .. Len(Configurations(c)) :
                LET m == Configurations(c)[i]
                IN  /\ IsConfig(m) /\ m.run = runs + 1
                    /\ m.type = Configs[m.run].type /\ m.shape = Configs[m.run].shape
                    /\ m.node_id \in Numbers /\ db[m.node_id + 1] = c
<1> DEFINE ids == RecordsOf(c)
           n == Len(ids)
           t == Configurations(c)
           m(i) == [kind |-> "CONFIG", run |-> runs + 1, node_id |-> ids[i],
                    type |-> Configs[runs + 1].type, shape |-> Configs[runs + 1].shape]
<1>1. /\ ids \in Seq(Numbers)
      /\ c \in Addresses <=> n > 0
      /\ \A k \in 1 .. n : db[ids[k] + 1] = c
  BY RecordsAreNumbers
<1>2. n \in Nat /\ DOMAIN ids = 1 .. n /\ Len(db) \in Nat
      /\ \A k \in 1 .. n : ids[k] \in Numbers
  BY <1>1, LenProperties, ElementOfSeq
<1>3. \A k \in 1 .. n : ids[k] \in Nat
  BY <1>2 DEF Numbers
<1>4. Configs[runs + 1].type \in EvalTypes /\ Configs[runs + 1].shape \in Shapes
  <2>1. runs + 1 \in DOMAIN Configs
    BY BootstrapAssumption, LenProperties
  <2>2. QED BY <2>1, BootstrapAssumption DEF Shapes
<1>5. t = [i \in 1 .. n |-> m(i)]
  BY <1>2 DEF Configurations
<1>6. \A i \in 1 .. n : m(i) \in Configuration
  BY <1>3, <1>4 DEF Configuration
<1>7. \A i \in 1 .. n :
        /\ IsConfig(m(i)) /\ m(i).run = runs + 1
        /\ m(i).type = Configs[m(i).run].type /\ m(i).shape = Configs[m(i).run].shape
        /\ m(i).node_id \in Numbers /\ db[m(i).node_id + 1] = c
  BY <1>1, <1>2 DEF IsConfig
<1> HIDE DEF t, n, m
<1>8. t \in Seq(Configuration) /\ Len(t) = n
  <2>1. t \in [1 .. n -> Configuration]
    BY <1>5, <1>6
  <2>2. QED BY <1>2, <2>1
<1>9. \A i \in 1 .. n : t[i] = m(i)
  BY <1>5
<1>10. c \in Addresses <=> n > 0
  BY <1>1 DEF n
<1>11. QED BY <1>2, <1>7, <1>8, <1>9, <1>10 DEF t

-----------------------------------------------------------------------------
(***************************************************************************)
(* What everybody has is right.                                            *)
(***************************************************************************)
Commands == {"start", "config", "table", "BROADCAST", "PULL_LOG", "trouble"}

Typed ==
    /\ db \in Seq(Clients) /\ on \subseteq Clients
    /\ left \in [Commands -> Nat]
    /\ runs \in Nat /\ runs + left["config"] <= Len(Configs)
    /\ down \in [Clients -> Seq(Datagram)]
    /\ node_list_ = [c \in Clients |-> node_list_[c]]
    /\ told = [c \in Clients |-> told[c]]

Id(id, run) == convert_ID_int_to_string(id, Configs[run].shape)

Configured(c) == eval_config_[c] # Nothing

\* A configuration is one that was entered, for a number of the client, and
\* belongs to a process that runs; a manager goes by the same id.
RightClient(c) ==
    /\ Configured(c) =>
        LET cfg == eval_config_[c]
        IN  /\ c \in on /\ cfg.run \in 1 .. runs
            /\ cfg.type = Configs[cfg.run].type /\ cfg.shape = Configs[cfg.run].shape
            /\ \E id \in Numbers : db[id + 1] = c /\ cfg.str_node_id = Id(id, cfg.run)
    /\ \A t \in EvalTypes :
        managers[c][t] # Nothing => managers[c][t].self = eval_config_[c].str_node_id

Right ==
    \A c \in Clients :
        RightClient(c) /\ \A m \in ToSet(down[c]) : RightDatagram(c, m)

RInv == IInv /\ Typed /\ Right

\* The server forgets nothing.
Grows ==
    /\ \A id \in Numbers : id \in Numbers' /\ db'[id + 1] = db[id + 1]
    /\ runs \in Nat /\ runs' \in Nat /\ runs <= runs'

LEMMA RightLasts ==
    ASSUME Grows, NEW c \in Clients, NEW m, RightDatagram(c, m)
    PROVE  RightDatagram(c, m)'
<1>1. IsConfig(m) => RightConfig(c, m)'
  BY DEF Grows, RightDatagram, RightConfig
<1>2. m.kind = "TABLE" => RightPage(m)'
  BY DEF Grows, RightDatagram, RightPage
<1>3. QED BY <1>1, <1>2 DEF RightDatagram, IsConfig

\* A client keeps what it has.
Keeps(c) ==
    /\ eval_config_'[c] = eval_config_[c] /\ managers'[c] = managers[c]
    /\ node_list_'[c] = node_list_[c] /\ (c \in on => c \in on')

LEMMA RightClientLasts ==
    ASSUME Grows, NEW c \in Clients, RightClient(c), Keeps(c)
    PROVE  RightClient(c)'
<1>1. \A t \in EvalTypes :
        managers'[c][t] # Nothing => managers'[c][t].self = eval_config_'[c].str_node_id
  BY DEF RightClient, Keeps
<1>2. ASSUME Configured(c)'
      PROVE  LET cfg == eval_config_'[c]
             IN  /\ c \in on' /\ cfg.run \in 1 .. runs'
                 /\ cfg.type = Configs[cfg.run].type /\ cfg.shape = Configs[cfg.run].shape
                 /\ \E id \in Numbers' :
                        db'[id + 1] = c /\ cfg.str_node_id = Id(id, cfg.run)
  <2> DEFINE cfg == eval_config_[c]
  <2>1. eval_config_'[c] = cfg /\ Configured(c)
    BY <1>2 DEF Keeps, Configured
  <2>2. c \in on' /\ cfg.run \in 1 .. runs'
        /\ cfg.type = Configs[cfg.run].type /\ cfg.shape = Configs[cfg.run].shape
    BY <2>1 DEF RightClient, Keeps, Grows
  <2>3. \E id \in Numbers' : db'[id + 1] = c /\ cfg.str_node_id = Id(id, cfg.run)
    BY <2>1 DEF RightClient, Grows
  <2> HIDE DEF cfg
  <2>4. QED BY <2>1, <2>2, <2>3
<1>3. QED BY <1>1, <1>2 DEF RightClient, Configured, Id

-----------------------------------------------------------------------------
(***************************************************************************)
(* How datagrams come and go.                                              *)
(***************************************************************************)
MovesUp(c) ==
    /\ Len(down[c]) \in Nat \ {0} /\ Len(down'[c]) = Len(down[c]) - 1
    /\ \A i \in 1 .. Len(down[c]) - 1 : down'[c][i] = down[c][i + 1]
    /\ \A d \in Clients \ {c} : down'[d] = down[d]
    /\ \A d \in Clients : ToSet(down[d])' \subseteq ToSet(down[d])

Joins(c, s) ==
    /\ Len(down[c]) \in Nat /\ Len(s) \in Nat /\ Len(down'[c]) = Len(down[c]) + Len(s)
    /\ \A i \in 1 .. Len(down[c]) : down'[c][i] = down[c][i]
    /\ \A i \in Len(down[c]) + 1 .. Len(down[c]) + Len(s) :
           down'[c][i] = s[i - Len(down[c])]
    /\ ToSet(down[c])' \subseteq ToSet(down[c]) \cup ToSet(s)

LEMMA TailEffect ==
    ASSUME Typed, NEW c \in Clients, down[c] # <<>>, down' = [down EXCEPT ![c] = Tail(@)]
    PROVE  /\ down' \in [Clients -> Seq(Datagram)]
           /\ MovesUp(c)
           /\ Head(down[c]) = down[c][1] /\ down[c][1] \in ToSet(down[c])
           /\ down[c][1] \in Datagram
<1> DEFINE s == down[c]
<1>1. s \in Seq(Datagram) /\ down \in [Clients -> Seq(Datagram)]
  BY DEF Typed
<1>2. /\ Tail(s) \in Seq(Datagram) /\ Len(s) \in Nat \ {0} /\ Len(Tail(s)) = Len(s) - 1
      /\ Head(s) = s[1] /\ s[1] \in Datagram
      /\ \A i \in 1 .. Len(s) - 1 : Tail(s)[i] = s[i + 1]
  BY <1>1, TailMovesUp
<1>3. /\ down' \in [Clients -> Seq(Datagram)]
      /\ down'[c] = Tail(s)
      /\ \A d \in Clients \ {c} : down'[d] = down[d]
  BY <1>1, <1>2
<1>4. DOMAIN s = 1 .. Len(s) /\ DOMAIN Tail(s) = 1 .. Len(s) - 1
  BY <1>1, <1>2, LenProperties
<1>5. s[1] \in ToSet(s) /\ ToSet(Tail(s)) \subseteq ToSet(s)
  <2>1. 1 \in DOMAIN s
    BY <1>2, <1>4
  <2>2. \A i \in DOMAIN Tail(s) : i + 1 \in DOMAIN s /\ Tail(s)[i] = s[i + 1]
    BY <1>2, <1>4
  <2>3. QED BY <2>1, <2>2 DEF ToSet
<1>6. ASSUME NEW d \in Clients PROVE ToSet(down[d])' \subseteq ToSet(down[d])
  <2>1. CASE d = c
    BY <1>3, <1>5, <2>1 DEF ToSet
  <2>2. CASE d # c
    BY <1>3, <2>2 DEF ToSet
  <2>3. QED BY <2>1, <2>2
<1> HIDE DEF s
<1>7. MovesUp(c)
  BY <1>2, <1>3, <1>6 DEF MovesUp, s
<1>8. QED BY <1>2, <1>3, <1>5, <1>7 DEF s

LEMMA TakesEffect ==
    ASSUME Typed, NEW c \in Clients, NEW kind, Takes(c, kind)
    PROVE  /\ down' \in [Clients -> Seq(Datagram)] /\ MovesUp(c) /\ c \in on \ hung
           /\ Head(down[c]) = down[c][1] /\ down[c][1] \in ToSet(down[c])
           /\ down[c][1] \in Datagram /\ down[c][1].kind = kind
  BY TailEffect DEF Takes

LEMMA JoinEffect ==
    ASSUME Typed, NEW c \in Clients, NEW s \in Seq(Datagram), down'[c] = down[c] \o s
    PROVE  down'[c] \in Seq(Datagram) /\ Joins(c, s)
<1> DEFINE old == down[c]
           new == down'[c]
<1>1. old \in Seq(Datagram) /\ new = old \o s
  BY DEF Typed
<1> HIDE DEF old, new
<1>2. /\ new \in Seq(Datagram)
      /\ Len(old) \in Nat /\ Len(s) \in Nat /\ Len(new) = Len(old) + Len(s)
      /\ \A i \in 1 .. Len(old) : new[i] = old[i]
      /\ \A i \in Len(old) + 1 .. Len(old) + Len(s) : new[i] = s[i - Len(old)]
  BY <1>1, ConcatKeeps
<1>3. ToSet(new) \subseteq ToSet(old) \cup ToSet(s)
  <2>1. /\ DOMAIN new = 1 .. Len(old) + Len(s)
        /\ DOMAIN old = 1 .. Len(old) /\ DOMAIN s = 1 .. Len(s)
    BY <1>1, <1>2, LenProperties
  <2>2. ASSUME NEW i \in DOMAIN new
        PROVE  \/ i \in DOMAIN old /\ new[i] = old[i]
               \/ i - Len(old) \in DOMAIN s /\ new[i] = s[i - Len(old)]
    <3>1. CASE i \in 1 .. Len(old)
      BY <1>2, <2>1, <3>1
    <3>2. CASE i \in Len(old) + 1 .. Len(old) + Len(s)
      <4>1. new[i] = s[i - Len(old)]
        BY <1>2, <3>2
      <4>2. i - Len(old) \in 1 .. Len(s)
        BY <1>2, <3>2
      <4>3. QED BY <2>1, <4>1, <4>2
    <3>3. i \in 1 .. Len(old) \/ i \in Len(old) + 1 .. Len(old) + Len(s)
      BY <1>2, <2>1
    <3>4. QED BY <3>1, <3>2, <3>3
  <2>3. QED BY <2>2 DEF ToSet
<1>4. ToSet(down[c])' = ToSet(new)
  BY DEF ToSet, new
<1>5. QED BY <1>2, <1>3, <1>4 DEF Joins, old, new

LEMMA OrderEffect ==
    ASSUME Typed, NEW i, Order(i, "BROADCAST") \/ Order(i, "PULL_LOG"), i + 1 \in DOMAIN db
    PROVE  \E c \in Clients, m \in AnOrder :
             /\ c = db[i + 1]
             /\ Joins(c, <<m>>)
             /\ \A d \in Clients \ {c} : down'[d] = down[d]
             /\ hasty' = IF told[c] = "table" THEN hasty ELSE hasty \cup {c}
             /\ down' \in [Clients -> Seq(Datagram)]
<1> DEFINE c == db[i + 1]
<1>1. c \in Clients
  BY LenProperties DEF Typed
<1>2. PICK kind \in {"BROADCAST", "PULL_LOG"} :
        /\ down' = [down EXCEPT ![c] = Append(@, [kind |-> kind])]
        /\ hasty' = IF told[c] = "table" THEN hasty ELSE hasty \cup {c}
  BY DEF Order
<1> DEFINE m == [kind |-> kind]
<1>3. m \in AnOrder /\ m \in Datagram /\ <<m>> \in Seq(Datagram)
  BY DEF AnOrder, Datagram
<1> HIDE DEF m, c
<1>4. down[c] \in Seq(Datagram) /\ down \in [Clients -> Seq(Datagram)]
  BY <1>1 DEF Typed
<1>5. Append(down[c], m) = down[c] \o <<m>>
  BY <1>3, <1>4
<1>6. down'[c] = down[c] \o <<m>> /\ \A d \in Clients \ {c} : down'[d] = down[d]
  BY <1>1, <1>2, <1>4, <1>5 DEF m
<1>7. down'[c] \in Seq(Datagram) /\ Joins(c, <<m>>)
  BY <1>1, <1>3, <1>6, JoinEffect
<1>8. down' \in [Clients -> Seq(Datagram)]
  BY <1>1, <1>2, <1>4, <1>6, <1>7
<1>9. QED BY <1>1, <1>2, <1>3, <1>6, <1>7, <1>8 DEF c

LEMMA DisturbEffect ==
    ASSUME Typed, NEW c \in Clients, Disturb(c)
    PROVE  /\ down' \in [Clients -> Seq(Datagram)]
           /\ disturbed' = disturbed \cup {c}
           /\ \A d \in Clients \ {c} : down'[d] = down[d]
           /\ \A d \in Clients : ToSet(down[d])' \subseteq ToSet(down[d])
<1>1. disturbed' = disturbed \cup {c} /\ down \in [Clients -> Seq(Datagram)]
  BY DEF Disturb, Typed
<1>2. CASE UNCHANGED down
  BY <1>1, <1>2 DEF ToSet
<1>3. ASSUME down[c] # <<>>, NEW s \in Disturbances(down[c]), down' = [down EXCEPT ![c] = s]
      PROVE  /\ down' \in [Clients -> Seq(Datagram)]
             /\ \A d \in Clients \ {c} : down'[d] = down[d]
             /\ \A d \in Clients : ToSet(down[d])' \subseteq ToSet(down[d])
  <2>1. s \in Seq(Datagram) /\ \A i \in DOMAIN s : \E j \in DOMAIN down[c] : s[i] = down[c][j]
    BY <1>1, <1>3, DisturbancesBringNothing
  <2>2. /\ down' \in [Clients -> Seq(Datagram)] /\ down'[c] = s
        /\ \A d \in Clients \ {c} : down'[d] = down[d]
    BY <1>1, <1>3, <2>1
  <2>3. ToSet(s) \subseteq ToSet(down[c])
    BY <2>1 DEF ToSet
  <2>4. ASSUME NEW d \in Clients PROVE ToSet(down[d])' \subseteq ToSet(down[d])
    <3>1. CASE d = c
      <4>1. ToSet(down[d])' = ToSet(s)
        BY <2>2, <3>1 DEF ToSet
      <4>2. QED BY <2>3, <3>1, <4>1
    <3>2. CASE d # c
      <4>1. ToSet(down[d])' = ToSet(down[d])
        BY <2>2, <3>2 DEF ToSet
      <4>2. QED BY <4>1
    <3>3. QED BY <3>1, <3>2
  <2>5. QED BY <2>2, <2>4
<1>4. QED BY <1>1, <1>2, <1>3 DEF Disturb

-----------------------------------------------------------------------------
(***************************************************************************)
(* Everything stays right, step by step.                                   *)
(***************************************************************************)
LEMMA SpendEffect ==
    ASSUME Typed, NEW what \in Commands, Spend(what)
    PROVE  /\ left' \in [Commands -> Nat]
           /\ left'["config"] =
                IF what = "config" THEN left["config"] - 1 ELSE left["config"]
           /\ left[what] > 0
<1>1. left \in [Commands -> Nat] /\ left[what] > 0 /\ left' = [left EXCEPT ![what] = @ - 1]
  BY DEF Typed, Spend
<1>2. left[what] - 1 \in Nat /\ "config" \in Commands
  BY <1>1 DEF Commands
<1>3. QED BY <1>1, <1>2

LEMMA ConfigEffect ==
    ASSUME Typed, handle_config
    PROVE  /\ runs' = runs + 1 /\ runs + 1 \in 1 .. Len(Configs) /\ runs \in Nat
           /\ down' \in [Clients -> Seq(Datagram)]
           /\ \A c \in Clients : Joins(c, Configurations(c))
           /\ runs' + left'["config"] <= Len(Configs) /\ left' \in [Commands -> Nat]
<1>1. /\ runs' = runs + 1 /\ runs \in Nat /\ left \in [Commands -> Nat]
      /\ runs + left["config"] <= Len(Configs) /\ left["config"] > 0
      /\ left' \in [Commands -> Nat] /\ left'["config"] = left["config"] - 1
  BY SpendEffect DEF handle_config, Typed, Commands, Spend
<1>2. Len(Configs) \in Nat /\ left["config"] \in Nat
  BY <1>1, BootstrapAssumption, LenProperties DEF Commands
<1>3. runs + 1 \in 1 .. Len(Configs) /\ runs' + left'["config"] <= Len(Configs)
  BY <1>1, <1>2
<1>4. down' = [c \in Clients |-> down[c] \o Configurations(c)]
  BY <1>1 DEF handle_config, Configurations
<1>5. ASSUME NEW c \in Clients
      PROVE  down'[c] \in Seq(Datagram) /\ Joins(c, Configurations(c))
  <2>1. Configurations(c) \in Seq(Configuration)
    BY <1>1, <1>3, ConfigurationsSent DEF Typed
  <2>2. Configurations(c) \in Seq(Datagram)
    BY <2>1, SeqMonotonic DEF Datagram
  <2>3. down'[c] = down[c] \o Configurations(c)
    BY <1>4
  <2>4. QED BY <2>2, <2>3, JoinEffect
<1>6. down' \in [Clients -> Seq(Datagram)]
  BY <1>4, <1>5
<1>7. QED BY <1>1, <1>3, <1>5, <1>6

LEMMA TableEffect ==
    ASSUME Typed, handle_table
    PROVE  /\ down' \in [Clients -> Seq(Datagram)]
           /\ \A c \in Clients : Joins(c, Tables(c))
<1>1. down' = [c \in Clients |-> down[c] \o Tables(c)]
  BY DEF handle_table, Tables
<1>2. ASSUME NEW c \in Clients
      PROVE  down'[c] \in Seq(Datagram) /\ Joins(c, Tables(c))
  <2>1. Tables(c) \in Seq(Page)
    BY TablesSent DEF Typed
  <2>2. Tables(c) \in Seq(Datagram)
    BY <2>1, SeqMonotonic DEF Datagram
  <2>3. down'[c] = down[c] \o Tables(c)
    BY <1>1
  <2>4. QED BY <2>2, <2>3, JoinEffect
<1>3. QED BY <1>1, <1>2

LEMMA TypedStep ==
    ASSUME Typed, [Next]_vars PROVE Typed'
<1>1. CASE UNCHANGED vars
  BY <1>1 DEF Typed, vars, serverVars, clientVars, history
<1>2. CASE handle_config
  <2>1. told' = [c \in Clients |-> told'[c]]
    BY <1>2 DEF handle_config
  <2>2. UNCHANGED <<db, on, node_list_>>
    BY <1>2 DEF handle_config, clientVars
  <2>3. runs' \in Nat
    BY <1>2, ConfigEffect
  <2>4. QED BY <1>2, <2>1, <2>2, <2>3, ConfigEffect DEF Typed
<1>3. CASE handle_table
  <2>1. told' = [c \in Clients |-> told'[c]]
    BY <1>3 DEF handle_table
  <2>2. UNCHANGED <<db, runs, on, node_list_>>
    BY <1>3 DEF handle_table, clientVars, serverVars
  <2>3. left' \in [Commands -> Nat] /\ left'["config"] = left["config"]
    BY <1>3, SpendEffect DEF handle_table, Commands
  <2>4. QED BY <1>3, <2>1, <2>2, <2>3, TableEffect DEF Typed
<1>4. ASSUME NEW i \in DOMAIN db, Order(i - 1, "BROADCAST") \/ Order(i - 1, "PULL_LOG")
      PROVE  Typed'
  <2>1. i \in Nat /\ (i - 1) + 1 = i
    BY LenProperties DEF Typed
  <2>2. down' \in [Clients -> Seq(Datagram)]
    BY <1>4, <2>1, OrderEffect
  <2>3. UNCHANGED <<db, runs, on, node_list_, told>>
    BY <1>4 DEF Order, clientVars, serverVars
  <2>4. left' \in [Commands -> Nat] /\ left'["config"] = left["config"]
    BY <1>4, SpendEffect DEF Order, Commands
  <2>5. QED BY <2>2, <2>3, <2>4 DEF Typed
<1>5. ASSUME NEW c \in Clients, Start(c) PROVE Typed'
  <2>1. UNCHANGED <<db, runs, down, node_list_, told>> /\ on' = on \cup {c}
    BY <1>5 DEF Start, serverVars
  <2>2. left' \in [Commands -> Nat] /\ left'["config"] = left["config"]
    BY <1>5, SpendEffect DEF Start, Commands
  <2>3. QED BY <2>1, <2>2 DEF Typed
<1>6. ASSUME NEW c \in Clients, Ends(c), UNCHANGED <<db, runs, left>>,
             down' \in [Clients -> Seq(Datagram)]
      PROVE  Typed'
  BY <1>6 DEF Ends, Typed
<1>7. ASSUME NEW c \in Clients, Crash(c) PROVE Typed'
  <2>1. UNCHANGED <<db, runs, left, down>> /\ Ends(c)
    BY <1>7 DEF Crash, serverVars
  <2>2. QED BY <1>6, <2>1 DEF Typed
<1>8. ASSUME NEW c \in Clients, HandleConfig(c) PROVE Typed'
  <2>1. UNCHANGED <<db, runs, on, left, node_list_, told>>
    BY <1>8 DEF HandleConfig, serverVars, history
  <2>2. QED BY <1>8, <2>1, TakesEffect DEF HandleConfig, Typed
<1>9. ASSUME NEW c \in Clients, HandleTable(c) PROVE Typed'
  <2>1. UNCHANGED <<db, runs, on, left, told>>
    BY <1>9 DEF HandleTable, serverVars, history
  <2>2. node_list_' = [d \in Clients |-> node_list_'[d]]
    BY <1>9 DEF HandleTable, Typed
  <2>3. QED BY <1>9, <2>1, <2>2, TakesEffect DEF HandleTable, Typed
<1>10. ASSUME NEW c \in Clients, HandleBroadcast(c) PROVE Typed'
  <2>1. UNCHANGED <<db, runs, on, left, node_list_, told>>
    BY <1>10 DEF HandleBroadcast, serverVars
  <2>2. down' \in [Clients -> Seq(Datagram)]
    BY <1>10, TakesEffect DEF HandleBroadcast
  <2>3. QED BY <2>1, <2>2 DEF Typed
<1>11. ASSUME NEW c \in Clients, HandlePullLog(c) PROVE Typed'
  <2>1. UNCHANGED <<db, runs, left>> /\ down' \in [Clients -> Seq(Datagram)]
    BY <1>11, TakesEffect DEF HandlePullLog, serverVars
  <2>2. CASE Ends(c)
    BY <1>6, <2>1, <2>2
  <2>3. CASE UNCHANGED <<on, node_list_, told>>
    BY <2>1, <2>3 DEF Typed
  <2>4. QED BY <1>11, <2>2, <2>3 DEF HandlePullLog, clientVars
<1>12. ASSUME NEW c \in Clients, ServerReceive(c) PROVE Typed'
  <2>1. UNCHANGED <<runs, on, left, down, node_list_, told>>
        /\ (db' = db \/ db' = Append(db, c))
    BY <1>12 DEF ServerReceive, clientVars, history
  <2>2. db' \in Seq(Clients)
    <3>1. db \in Seq(Clients) /\ Append(db, c) \in Seq(Clients)
      BY DEF Typed
    <3>2. QED BY <2>1, <3>1
  <2>3. QED BY <2>1, <2>2 DEF Typed
<1>13. ASSUME NEW c \in Clients, Disturb(c) PROVE Typed'
  <2>1. UNCHANGED <<db, runs, on, node_list_, told>>
    BY <1>13 DEF Disturb, serverVars, clientVars
  <2>2. left' \in [Commands -> Nat] /\ left'["config"] = left["config"]
    BY <1>13, SpendEffect DEF Disturb, Commands
  <2>3. QED BY <1>13, <2>1, <2>2, DisturbEffect DEF Typed
<1>14. ASSUME NEW c \in Clients, Vanish(c) PROVE Typed'
  <2>1. UNCHANGED <<db, runs, on, left, node_list_, told>>
    BY <1>14 DEF Vanish, serverVars, clientVars, history
  <2>2. QED BY <1>14, <2>1, TailEffect DEF Vanish, Typed
<1>15. QED
  BY <1>1, <1>2, <1>3, <1>4, <1>5, <1>7, <1>8, <1>9, <1>10, <1>11, <1>12, <1>13, <1>14
  DEF Next, Operator, Handle

\* db_ only grows at its end, and runs are counted.
LEMMA GrowsStep ==
    ASSUME Typed, [Next]_vars PROVE Grows
<1>1. Len(db) \in Nat /\ runs \in Nat
  BY LenProperties DEF Typed
<1>2. CASE UNCHANGED db
  <2>1. runs' = runs \/ runs' = runs + 1
    BY DEF Next, Operator, handle_config, handle_table, Order, Start, Crash, Handle,
           HandleConfig, HandleTable, HandleBroadcast, HandlePullLog, ServerReceive,
           Disturb, Vanish, vars, serverVars
  <2>2. QED BY <1>1, <1>2, <2>1 DEF Grows, Numbers
<1>3. ASSUME NEW c \in Clients, ServerReceive(c), db' = Append(db, c) PROVE Grows
  <2>1. runs' = runs
    BY <1>3 DEF ServerReceive
  <2>2. Len(db') = Len(db) + 1 /\ \A i \in 1 .. Len(db) : db'[i] = db[i]
    BY <1>3 DEF Typed
  <2>3. \A id \in 0 .. Len(db) - 1 : id + 1 \in 1 .. Len(db) /\ id \in 0 .. Len(db) + 1 - 1
    BY <1>1
  <2>4. QED BY <1>1, <2>1, <2>2, <2>3 DEF Grows, Numbers
<1>4. db' = db \/ \E c \in Clients : ServerReceive(c) /\ db' = Append(db, c)
  BY DEF Next, Operator, handle_config, handle_table, Order, Start, Crash, Handle,
         HandleConfig, HandleTable, HandleBroadcast, HandlePullLog, ServerReceive,
         Disturb, Vanish, vars, serverVars
<1>5. QED BY <1>2, <1>3, <1>4

\* The client handles what came first.  Nothing but it changes anywhere else.
LEMMA ConfigHandled ==
    ASSUME RInv, NEW c \in Clients, HandleConfig(c)
    PROVE  LET m == down[c][1]
           IN  /\ MovesUp(c) /\ c \in on /\ down' \in [Clients -> Seq(Datagram)]
               /\ IsConfig(m) /\ RightConfig(c, m)
               /\ Configured(c)' /\ eval_config_'[c].run = m.run
               /\ eval_config_'[c].type = m.type /\ eval_config_'[c].shape = m.shape
               /\ eval_config_'[c].str_node_id = Id(m.node_id, m.run)
               /\ \A t \in EvalTypes : managers'[c][t] = Nothing
               /\ \A d \in Clients \ {c} : Keeps(d)
               /\ UNCHANGED <<db, runs, on, node_list_, told, disturbed, hasty, refused>>
<1> DEFINE m == down[c][1]
           cfg == [run |-> m.run, type |-> m.type, shape |-> m.shape,
                   str_node_id |-> convert_ID_int_to_string(m.node_id, m.shape)]
<1>1. /\ MovesUp(c) /\ c \in on /\ down' \in [Clients -> Seq(Datagram)]
      /\ Head(down[c]) = m /\ m \in ToSet(down[c]) /\ m.kind = "CONFIG"
  BY TakesEffect DEF HandleConfig, RInv
<1>2. IsConfig(m) /\ RightConfig(c, m)
  BY <1>1 DEF RInv, Right, RightDatagram, IsConfig
<1>3. eval_config_' = [eval_config_ EXCEPT ![c] = cfg]
  BY <1>1 DEF HandleConfig
<1>4. eval_config_'[c] = cfg /\ \A d \in Clients \ {c} : eval_config_'[d] = eval_config_[d]
  BY <1>3 DEF RInv, IInv, Shaped
<1>5. cfg # Nothing /\ cfg.run = m.run /\ cfg.type = m.type /\ cfg.shape = m.shape
      /\ cfg.str_node_id = Id(m.node_id, m.run)
  <2>1. DOMAIN cfg = {"run", "type", "shape", "str_node_id"} /\ DOMAIN Nothing = {"run"}
    BY DEF Nothing
  <2>2. cfg # Nothing
    BY <2>1
  <2>3. m.shape = Configs[m.run].shape
    BY <1>2 DEF RightConfig
  <2>4. QED BY <2>2, <2>3 DEF Id
<1> HIDE DEF cfg, m
<1>6. \A t \in EvalTypes : managers'[c][t] = Nothing
  BY NoManagerStays DEF RInv
<1>7. UNCHANGED <<db, runs, on, node_list_, told, disturbed, hasty, refused>>
  BY DEF HandleConfig, serverVars, history
<1>8. \A d \in Clients \ {c} : managers'[d] = managers[d]
  BY NoManagerStays DEF RInv, IInv, Shaped
<1>9. \A d \in Clients \ {c} : Keeps(d)
  BY <1>4, <1>7, <1>8 DEF Keeps
<1>10. Configured(c)'
  BY <1>4, <1>5 DEF Configured
<1>11. QED BY <1>1, <1>2, <1>4, <1>5, <1>6, <1>7, <1>9, <1>10 DEF m

\* The first datagram completes the list, and the tables come to an end.
Made(c) ==
    Configured(c) /\ down[c][1].is_end /\ TablesEnd(eval_config_[c])

LEMMA TableHandled ==
    ASSUME RInv, NEW c \in Clients, HandleTable(c)
    PROVE  LET m == down[c][1]
               cfg == eval_config_[c]
               list == Listed(c, m)
           IN  /\ MovesUp(c) /\ c \in on /\ down' \in [Clients -> Seq(Datagram)]
               /\ m.kind = "TABLE" /\ RightPage(m) /\ m \in Datagram
               /\ Configured(c) => node_list_'[c] = list
               /\ \A t \in EvalTypes :
                    IF Made(c) /\ t = cfg.type
                    THEN /\ managers'[c][t] # Nothing
                         /\ managers'[c][t].run = cfg.run
                         /\ managers'[c][t].self = cfg.str_node_id
                         /\ managers'[c][t].list = list
                    ELSE managers'[c][t] = managers[c][t]
               /\ IF Configured(c) /\ m.is_end /\ ~ Made(c) THEN hung' = hung \cup {c}
                  ELSE UNCHANGED hung
               /\ eval_config_'[c] = eval_config_[c]
               /\ \A d \in Clients \ {c} : Keeps(d)
               /\ UNCHANGED <<db, runs, on, eval_config_, told, disturbed, hasty, refused>>
<1> DEFINE m == down[c][1]
           cfg == eval_config_[c]
           list == Listed(c, m)
           manager == [run |-> cfg.run, self |-> cfg.str_node_id, list |-> list]
<1>1. /\ MovesUp(c) /\ c \in on /\ down' \in [Clients -> Seq(Datagram)]
      /\ Head(down[c]) = m /\ m \in ToSet(down[c]) /\ m \in Datagram /\ m.kind = "TABLE"
  BY TakesEffect DEF HandleTable, RInv
<1>2. RightPage(m)
  BY <1>1 DEF RInv, Right, RightDatagram
<1>3. UNCHANGED <<db, runs, on, eval_config_, told, disturbed, hasty, refused>>
  BY DEF HandleTable, serverVars, history
<1>4. /\ IF cfg = Nothing THEN UNCHANGED <<node_list_, managers>>
         ELSE /\ node_list_' = [node_list_ EXCEPT ![c] = list]
              /\ IF m.is_end /\ TablesEnd(cfg)
                 THEN managers' = [managers EXCEPT ![c][cfg.type] = manager]
                 ELSE UNCHANGED managers
      /\ IF cfg # Nothing /\ m.is_end /\ ~ TablesEnd(cfg) THEN hung' = hung \cup {c}
         ELSE UNCHANGED hung
  <2> DEFINE made == [run |-> cfg.run, self |-> cfg.str_node_id, list |-> node_list_'[c]]
  <2>1. \/ cfg = Nothing /\ UNCHANGED <<hung, node_list_, managers>>
        \/ /\ cfg # Nothing /\ node_list_' = [node_list_ EXCEPT ![c] = list]
           /\ \/ ~ m.is_end /\ UNCHANGED <<hung, managers>>
              \/ /\ m.is_end /\ ~ TablesEnd(cfg)
                 /\ hung' = hung \cup {c} /\ UNCHANGED managers
              \/ /\ m.is_end /\ TablesEnd(cfg) /\ UNCHANGED hung
                 /\ managers' = [managers EXCEPT ![c][cfg.type] = made]
    BY <1>1 DEF HandleTable
  <2>2. node_list_ = [d \in Clients |-> node_list_[d]]
    BY DEF RInv, Typed
  <2>3. cfg # Nothing => made = manager
    BY <2>1, <2>2
  <2> HIDE DEF made, manager, cfg, list, m
  <2>4. QED BY <2>1, <2>3
<1>5. manager # Nothing
  <2>1. DOMAIN manager = {"run", "self", "list"} /\ DOMAIN Nothing = {"run"}
    BY DEF Nothing
  <2>2. QED BY <2>1
<1>6. manager.run = cfg.run /\ manager.self = cfg.str_node_id /\ manager.list = list
  OBVIOUS
<1> HIDE DEF m, cfg, list, manager
<1>7. node_list_ = [d \in Clients |-> node_list_[d]]
      /\ managers = [d \in Clients |-> [t \in EvalTypes |-> managers[d][t]]]
  BY DEF RInv, Typed, IInv, Shaped
<1>8. Configured(c) <=> cfg # Nothing
  BY DEF Configured, cfg
<1>9. /\ Configured(c) => node_list_'[c] = list
      /\ \A d \in Clients \ {c} : node_list_'[d] = node_list_[d] /\ managers'[d] = managers[d]
  BY <1>4, <1>7, <1>8
<1>13. Made(c) <=> Configured(c) /\ m.is_end /\ TablesEnd(cfg)
  BY DEF Made, m, cfg
<1>10. ASSUME NEW t \in EvalTypes
       PROVE  managers'[c][t] = IF Made(c) /\ t = cfg.type THEN manager ELSE managers[c][t]
  BY <1>4, <1>7, <1>8, <1>13
<1>14. IF Configured(c) /\ m.is_end /\ ~ Made(c) THEN hung' = hung \cup {c}
       ELSE UNCHANGED hung
  BY <1>4, <1>8, <1>13
<1>11. \A d \in Clients \ {c} : Keeps(d)
  BY <1>3, <1>9 DEF Keeps
<1>12. QED BY <1>1, <1>2, <1>3, <1>5, <1>6, <1>9, <1>10, <1>11, <1>14 DEF m, cfg, list

LEMMA EndsEffect ==
    ASSUME IInv, Typed, NEW c \in Clients, Ends(c)
    PROVE  /\ on' = on \ {c} /\ hung' = hung \ {c}
           /\ ~ Configured(c)' /\ \A t \in EvalTypes : managers'[c][t] = Nothing
           /\ told'[c] = "nothing"
           /\ \A d \in Clients \ {c} : Keeps(d) /\ told'[d] = told[d]
  BY DEF Ends, IInv, Shaped, Typed, Configured, Keeps

\* All that a step does to the clients, short of what was said before.
LEMMA OtherSteps ==
    ASSUME Typed, [Next]_vars, ~ \E c \in Clients : HandleConfig(c) \/ HandleTable(c)
    PROVE  \/ UNCHANGED <<on, eval_config_, managers, node_list_>>
           \/ \E c \in Clients : Start(c)
           \/ \E c \in Clients : (Crash(c) \/ HandlePullLog(c)) /\ Ends(c)
<1>1. CASE Operator
  BY <1>1 DEF Operator, handle_config, handle_table, Order, clientVars
<1>2. CASE UNCHANGED vars
  BY <1>2 DEF vars, clientVars
<1>3. ASSUME NEW c \in Clients, HandleBroadcast(c) \/ ServerReceive(c) \/ Disturb(c) \/ Vanish(c)
      PROVE  UNCHANGED <<on, eval_config_, managers, node_list_>>
  BY <1>3 DEF HandleBroadcast, ServerReceive, Disturb, Vanish, clientVars
<1>4. ASSUME NEW c \in Clients, HandlePullLog(c)
      PROVE  Ends(c) \/ UNCHANGED <<on, eval_config_, managers, node_list_>>
  BY <1>4 DEF HandlePullLog, clientVars
<1>5. QED BY <1>1, <1>2, <1>3, <1>4 DEF Next, Handle, Crash

\* New datagrams are right, and a new configuration is one of a new run; the
\* rest were there before.
LEMMA DatagramsRight ==
    ASSUME RInv, [Next]_vars, Grows, NEW d \in Clients
    PROVE  \A m \in ToSet(down[d])' :
               \/ m \in ToSet(down[d])
               \/ RightDatagram(d, m)' /\ (IsConfig(m) => m.run = runs + 1)
<1> DEFINE New(m) == RightDatagram(d, m)' /\ (IsConfig(m) => m.run = runs + 1)
           Fine == \A m \in ToSet(down[d])' : m \in ToSet(down[d]) \/ New(m)
<1>0. Typed
  BY DEF RInv
<1>1. ToSet(down[d])' \subseteq ToSet(down[d]) => Fine
  OBVIOUS
<1>2. UNCHANGED down => Fine
  BY <1>1 DEF ToSet
<1>3. CASE handle_config
  <2>1. runs \in Nat /\ runs + 1 \in 1 .. Len(Configs) /\ Joins(d, Configurations(d))
        /\ runs' = runs + 1
    BY <1>0, <1>3, ConfigEffect
  <2>2. ASSUME NEW m \in ToSet(Configurations(d)) PROVE New(m)
    <3>1. PICK i \in DOMAIN Configurations(d) : m = Configurations(d)[i]
      BY DEF ToSet
    <3>2. i \in 1 .. Len(Configurations(d))
      BY <1>0, <2>1, <3>1, ConfigurationsSent, LenProperties DEF Typed
    <3>3. IsConfig(m) /\ m.run = runs + 1 /\ m.type = Configs[m.run].type
          /\ m.shape = Configs[m.run].shape /\ m.node_id \in Numbers
          /\ db[m.node_id + 1] = d
      BY <1>0, <2>1, <3>1, <3>2, ConfigurationsSent DEF Typed
    <3>4. RightConfig(d, m)'
      BY <2>1, <3>3 DEF RightConfig, Grows
    <3>5. QED BY <3>3, <3>4 DEF RightDatagram, IsConfig
  <2>3. QED BY <2>1, <2>2 DEF Joins
<1>4. CASE handle_table
  <2>1. Joins(d, Tables(d))
    BY <1>0, <1>4, TableEffect
  <2>2. ASSUME NEW m \in ToSet(Tables(d)) PROVE New(m)
    <3>1. PICK i \in DOMAIN Tables(d) : m = Tables(d)[i]
      BY DEF ToSet
    <3>2. i \in 1 .. Len(Tables(d))
      BY <1>0, <3>1, TablesSent, LenProperties DEF Typed
    <3>3. m.kind = "TABLE" /\ RightPage(m)
      BY <1>0, <3>1, <3>2, TablesSent DEF Typed
    <3>4. RightDatagram(d, m)
      BY <3>3 DEF RightDatagram, IsConfig
    <3>5. QED BY <3>3, <3>4, RightLasts DEF IsConfig
  <2>3. QED BY <2>1, <2>2 DEF Joins
<1>5. ASSUME NEW i \in DOMAIN db, Order(i - 1, "BROADCAST") \/ Order(i - 1, "PULL_LOG")
      PROVE  Fine
  <2>1. i \in Nat /\ (i - 1) + 1 = i
    BY <1>0, LenProperties DEF Typed
  <2>2. PICK c \in Clients, m \in AnOrder :
          Joins(c, <<m>>) /\ \A e \in Clients \ {c} : down'[e] = down[e]
    BY <1>0, <1>5, <2>1, OrderEffect
  <2>3. New(m) /\ ToSet(<<m>>) = {m}
    BY DEF RightDatagram, AnOrder, IsConfig, ToSet
  <2>4. CASE c = d
    BY <2>2, <2>3, <2>4 DEF Joins
  <2>5. CASE c # d
    BY <1>1, <2>2, <2>5 DEF ToSet
  <2>6. QED BY <2>4, <2>5
<1>6. ASSUME NEW c \in Clients, Handle(c) PROVE Fine
  <2>1. MovesUp(c)
    BY <1>0, <1>6, TakesEffect
    DEF Handle, HandleConfig, HandleTable, HandleBroadcast, HandlePullLog
  <2>2. QED BY <1>1, <2>1 DEF MovesUp
<1>7. ASSUME NEW c \in Clients, Vanish(c) PROVE Fine
  BY <1>0, <1>1, <1>7, TailEffect DEF Vanish, MovesUp
<1>8. ASSUME NEW c \in Clients, Disturb(c) PROVE Fine
  BY <1>0, <1>1, <1>8, DisturbEffect
<1>9. ASSUME NEW c \in Clients, Start(c) \/ Crash(c) \/ ServerReceive(c) PROVE Fine
  BY <1>2, <1>9 DEF Start, Crash, ServerReceive
<1>10. CASE UNCHANGED vars
  BY <1>2, <1>10 DEF vars
<1>11. QED
  BY <1>3, <1>4, <1>5, <1>6, <1>7, <1>8, <1>9, <1>10 DEF Next, Operator

LEMMA RightStep ==
    ASSUME RInv, [Next]_vars PROVE RInv'
<1>1. Grows /\ IInv' /\ Typed'
  BY GrowsStep, ManagerStep, TypedStep DEF RInv
<1>2. ASSUME NEW d \in Clients, Keeps(d) PROVE RightClient(d)'
  BY <1>1, <1>2, RightClientLasts DEF RInv, Right
<1>3. ASSUME NEW d \in Clients PROVE RightClient(d)'
  <2>1. ASSUME NEW c \in Clients, HandleConfig(c) PROVE RightClient(d)'
    <3>1. d # c => Keeps(d)
      BY <2>1, ConfigHandled
    <3>2. CASE d = c
      <4> DEFINE m == down[c][1]
      <4>1. RightConfig(c, m) /\ c \in on /\ eval_config_'[c].run = m.run
            /\ eval_config_'[c].type = m.type /\ eval_config_'[c].shape = m.shape
            /\ eval_config_'[c].str_node_id = Id(m.node_id, m.run)
            /\ UNCHANGED <<db, runs, on>>
            /\ \A t \in EvalTypes : managers'[c][t] = Nothing
        BY <2>1, ConfigHandled
      <4> HIDE DEF m
      <4> DEFINE cfg == eval_config_'[c]
      <4>2. /\ cfg.run \in 1 .. runs'
            /\ cfg.type = Configs[cfg.run].type /\ cfg.shape = Configs[cfg.run].shape
        BY <4>1 DEF RightConfig
      <4>3. m.node_id \in Numbers' /\ db'[m.node_id + 1] = c
            /\ cfg.str_node_id = Id(m.node_id, cfg.run)
        BY <4>1 DEF RightConfig, Numbers
      <4>4. c \in on'
        BY <4>1
      <4> HIDE DEF cfg
      <4>5. QED BY <3>2, <4>1, <4>2, <4>3, <4>4 DEF RightClient, Id, cfg
    <3>3. QED BY <1>2, <3>1, <3>2
  <2>2. ASSUME NEW c \in Clients, HandleTable(c) PROVE RightClient(d)'
    <3>1. d # c => Keeps(d)
      BY <2>2, TableHandled
    <3>2. CASE d = c
      <4>1. /\ UNCHANGED <<db, runs, on, eval_config_>>
            /\ \A t \in EvalTypes :
                \/ managers'[c][t] = managers[c][t]
                \/ managers'[c][t].self = eval_config_[c].str_node_id
        BY <2>2, TableHandled, Zenon
      <4>2. RightClient(c)
        BY DEF RInv, Right
      <4>3. QED BY <3>2, <4>1, <4>2 DEF RightClient, Configured, Numbers, Id
    <3>3. QED BY <1>2, <3>1, <3>2
  <2>3. CASE UNCHANGED <<on, eval_config_, managers, node_list_>>
    BY <1>2, <2>3 DEF Keeps
  <2>4. ASSUME NEW c \in Clients, Start(c) PROVE RightClient(d)'
    BY <1>2, <2>4 DEF Start, Keeps
  <2>5. ASSUME NEW c \in Clients, Ends(c) PROVE RightClient(d)'
    <3>1. d # c => Keeps(d)
      BY <2>5, EndsEffect DEF RInv
    <3>2. CASE d = c
      BY <2>5, <3>2, EndsEffect DEF RInv, RightClient, Configured
    <3>3. QED BY <1>2, <3>1, <3>2
  <2>6. QED BY <2>1, <2>2, <2>3, <2>4, <2>5, OtherSteps DEF RInv
<1>4. ASSUME NEW d \in Clients PROVE \A m \in ToSet(down[d])' : RightDatagram(d, m)'
  <2>1. \A m \in ToSet(down[d])' : m \in ToSet(down[d]) \/ RightDatagram(d, m)'
    BY <1>1, DatagramsRight
  <2>2. \A m \in ToSet(down[d]) : RightDatagram(d, m)'
    BY <1>1, RightLasts DEF RInv, Right
  <2>3. QED BY <2>1, <2>2
<1>5. Right'
  BY <1>3, <1>4 DEF Right
<1>6. QED BY <1>1, <1>5 DEF RInv

-----------------------------------------------------------------------------
(***************************************************************************)
(* Orders: whoever was told all before an order has a manager by the time  *)
(* it comes to it.                                                         *)
(***************************************************************************)
ConfigBefore(c, i) == Configured(c) \/ \E j \in 1 .. i - 1 : IsConfig(down[c][j])

\* When c comes to what is at position i it has a manager: it has one and is
\* not to be configured, or it will be configured and then get the last page.
Ready(c, i) ==
    \/ HasManager(c) /\ \A j \in 1 .. i - 1 : ~ IsConfig(down[c][j])
    \/ \E p \in 1 .. i - 1 :
        /\ IsLastPage(down[c][p]) /\ ConfigBefore(c, p)
        /\ \A j \in p + 1 .. i - 1 : ~ IsConfig(down[c][j])

ReadyForOrders(c) ==
    /\ told[c] # "nothing" => c \in on
    /\ c \notin hasty \cup disturbed => c \notin refused
    /\ c \notin hasty \cup disturbed \cup hung =>
        /\ told[c] \in {"config", "table"} => ConfigBefore(c, Len(down[c]) + 1)
        /\ told[c] = "table" => Ready(c, Len(down[c]) + 1)
        /\ c \in on => \A i \in 1 .. Len(down[c]) : IsOrder(down[c][i]) => Ready(c, i)

OrdersInv == refused \subseteq Clients /\ \A c \in Clients : ReadyForOrders(c)

\* What a client is to find in front of it, when the front moves up.
FrontHandled(c) ==
    /\ Configured(c) => Configured(c)'
    /\ IsConfig(down[c][1]) => Configured(c)'
    /\ ~ IsConfig(down[c][1]) => (HasManager(c) => HasManager(c)')
    /\ IsLastPage(down[c][1]) /\ Configured(c) => HasManager(c)'

LEMMA BeforeMoves ==
    ASSUME NEW c \in Clients, MovesUp(c), FrontHandled(c),
           NEW i \in 2 .. Len(down[c]) + 1, ConfigBefore(c, i)
    PROVE  ConfigBefore(c, i - 1)'
<1>1. CASE Configured(c)
  BY <1>1 DEF FrontHandled, ConfigBefore
<1>2. ASSUME NEW j \in 1 .. i - 1, IsConfig(down[c][j]) PROVE ConfigBefore(c, i - 1)'
  <2>1. CASE j = 1
    BY <1>2, <2>1 DEF FrontHandled, ConfigBefore
  <2>2. CASE j # 1
    <3>1. j - 1 \in 1 .. Len(down[c]) - 1 /\ j - 1 \in 1 .. (i - 1) - 1 /\ (j - 1) + 1 = j
      BY <2>2 DEF MovesUp
    <3>2. down'[c][j - 1] = down[c][j]
      BY <3>1 DEF MovesUp
    <3>3. QED BY <1>2, <3>1, <3>2 DEF ConfigBefore, IsConfig
  <2>3. QED BY <2>1, <2>2
<1>3. QED BY <1>1, <1>2 DEF ConfigBefore

LEMMA ReadyMoves ==
    ASSUME NEW c \in Clients, MovesUp(c), FrontHandled(c),
           NEW i \in 2 .. Len(down[c]) + 1, Ready(c, i)
    PROVE  Ready(c, i - 1)'
<1>1. ASSUME NEW p \in 1 .. i - 1, \A j \in p + 1 .. i - 1 : ~ IsConfig(down[c][j])
      PROVE  \A j \in p .. (i - 1) - 1 : ~ IsConfig(down'[c][j])
  <2> SUFFICES ASSUME NEW j \in p .. (i - 1) - 1 PROVE ~ IsConfig(down'[c][j])
    OBVIOUS
  <2>1. j \in 1 .. Len(down[c]) - 1 /\ j + 1 \in p + 1 .. i - 1
    BY DEF MovesUp
  <2>2. down'[c][j] = down[c][j + 1]
    BY <2>1 DEF MovesUp
  <2>3. QED BY <1>1, <2>1, <2>2
<1>2. CASE HasManager(c) /\ \A j \in 1 .. i - 1 : ~ IsConfig(down[c][j])
  <2>1. 1 \in 1 .. i - 1
    BY DEF MovesUp
  <2>2. HasManager(c)'
    BY <1>2, <2>1 DEF FrontHandled
  <2>3. \A j \in 1 .. (i - 1) - 1 : ~ IsConfig(down'[c][j])
    <3>1. \A j \in 1 + 1 .. i - 1 : j \in 1 .. i - 1
      BY <2>1
    <3>2. \A j \in 1 + 1 .. i - 1 : ~ IsConfig(down[c][j])
      BY <1>2, <3>1
    <3>3. QED BY <1>1, <2>1, <3>2
  <2>4. QED BY <2>2, <2>3 DEF Ready, IsConfig
<1>3. ASSUME NEW p \in 1 .. i - 1, IsLastPage(down[c][p]), ConfigBefore(c, p),
             \A j \in p + 1 .. i - 1 : ~ IsConfig(down[c][j])
      PROVE  Ready(c, i - 1)'
  <2>1. \A j \in p .. (i - 1) - 1 : ~ IsConfig(down'[c][j])
    BY <1>1, <1>3
  <2>2. CASE p = 1
    <3>1. Configured(c)
      BY <1>3, <2>2 DEF ConfigBefore
    <3>2. HasManager(c)'
      BY <1>3, <2>2, <3>1 DEF FrontHandled
    <3>3. QED BY <2>1, <2>2, <3>2 DEF Ready, IsConfig
  <2>3. CASE p # 1
    <3>1. /\ p \in 2 .. Len(down[c]) + 1 /\ p - 1 \in 1 .. Len(down[c]) - 1
          /\ p - 1 \in 1 .. (i - 1) - 1 /\ (p - 1) + 1 = p
      BY <2>3 DEF MovesUp
    <3>2. down'[c][p - 1] = down[c][p]
      BY <3>1 DEF MovesUp
    <3>3. ConfigBefore(c, p - 1)'
      BY <1>3, <3>1, BeforeMoves
    <3>4. IsLastPage(down'[c][p - 1])
      BY <1>3, <3>2
    <3>5. QED BY <2>1, <3>1, <3>3, <3>4 DEF Ready, IsConfig, IsLastPage
  <2>4. QED BY <2>2, <2>3
<1>4. QED BY <1>2, <1>3 DEF Ready

\* What joins the end changes nothing in front of it.
LEMMA ReadyJoins ==
    ASSUME NEW c \in Clients, NEW s, Joins(c, s),
           Configured(c) => Configured(c)', HasManager(c) => HasManager(c)'
    PROVE  /\ \A i \in 1 .. Len(down[c]) + 1 :
                /\ ConfigBefore(c, i) => ConfigBefore(c, i)'
                /\ Ready(c, i) => Ready(c, i)'
           /\ ConfigBefore(c, Len(down[c]) + 1) => ConfigBefore(c, Len(down[c]) + 1)'
           /\ (\A k \in 1 .. Len(s) : ~ IsConfig(s[k])) /\ Ready(c, Len(down[c]) + 1)
                => Ready(c, Len(down[c]) + 1)'
<1>0. PICK n \in Nat : n = Len(down[c])
  BY DEF Joins
<1>1. /\ n \in Nat /\ Len(s) \in Nat /\ Len(down'[c]) = n + Len(s)
      /\ \A i \in 1 .. n : down'[c][i] = down[c][i]
      /\ \A i \in n + 1 .. n + Len(s) : down'[c][i] = s[i - n]
  BY <1>0 DEF Joins
<1>2. ASSUME NEW i \in 1 .. n + 1
      PROVE  ConfigBefore(c, i) => ConfigBefore(c, i)'
  <2>1. \A j \in 1 .. i - 1 : j \in 1 .. n /\ down'[c][j] = down[c][j]
    BY <1>1
  <2>2. QED BY <2>1 DEF ConfigBefore, IsConfig
<1>3. ASSUME NEW i \in 1 .. n + 1, NEW p \in 1 .. i - 1,
             IsLastPage(down[c][p]), ConfigBefore(c, p)
      PROVE  IsLastPage(down'[c][p]) /\ ConfigBefore(c, p)'
  <2>1. p \in 1 .. n /\ p \in 1 .. n + 1
    BY <1>1
  <2>2. QED BY <1>1, <1>2, <1>3, <2>1
<1>4. ASSUME NEW i \in 1 .. n + 1, Ready(c, i)
      PROVE  Ready(c, i)'
  <2>1. \A j \in 1 .. i - 1 : j \in 1 .. n /\ down'[c][j] = down[c][j]
    BY <1>1
  <2>2. CASE HasManager(c) /\ \A j \in 1 .. i - 1 : ~ IsConfig(down[c][j])
    BY <2>1, <2>2 DEF Ready, IsConfig
  <2>3. ASSUME NEW p \in 1 .. i - 1, IsLastPage(down[c][p]), ConfigBefore(c, p),
               \A j \in p + 1 .. i - 1 : ~ IsConfig(down[c][j])
        PROVE  Ready(c, i)'
    <3>1. IsLastPage(down'[c][p]) /\ ConfigBefore(c, p)'
      BY <1>3, <2>3
    <3>2. \A j \in p + 1 .. i - 1 : ~ IsConfig(down'[c][j])
      <4>1. \A j \in p + 1 .. i - 1 : j \in 1 .. i - 1
        BY <1>1
      <4>2. QED BY <2>1, <2>3, <4>1
    <3>3. QED BY <3>1, <3>2 DEF Ready, IsConfig, IsLastPage
  <2>4. QED BY <1>4, <2>2, <2>3 DEF Ready
<1>5. ASSUME ConfigBefore(c, n + 1) PROVE ConfigBefore(c, Len(down[c]) + 1)'
  <2>1. n + 1 \in 1 .. n + 1 /\ \A j \in 1 .. (n + 1) - 1 : j \in 1 .. (n + Len(s) + 1) - 1
    BY <1>1
  <2>2. ConfigBefore(c, n + 1)'
    BY <1>2, <1>5, <2>1
  <2>3. QED BY <1>1, <2>1, <2>2 DEF ConfigBefore
<1>6. ASSUME \A k \in 1 .. Len(s) : ~ IsConfig(s[k]), Ready(c, n + 1)
      PROVE  Ready(c, Len(down[c]) + 1)'
  <2>1. \A j \in n + 1 .. n + Len(s) : ~ IsConfig(down'[c][j])
    <3>1. \A j \in n + 1 .. n + Len(s) : j - n \in 1 .. Len(s)
      BY <1>1
    <3>2. QED BY <1>1, <1>6, <3>1
  <2>2. \A p \in 0 .. n : \A j \in p + 1 .. (n + Len(s) + 1) - 1 :
            j \in p + 1 .. (n + 1) - 1 \/ j \in n + 1 .. n + Len(s)
    BY <1>1
  <2>3. Ready(c, n + 1)'
    BY <1>1, <1>4, <1>6
  <2>4. CASE HasManager(c)' /\ \A j \in 1 .. (n + 1) - 1 : ~ IsConfig(down'[c][j])
    <3>1. \A j \in 1 .. (n + Len(s) + 1) - 1 : ~ IsConfig(down'[c][j])
      BY <1>1, <2>1, <2>4
    <3>2. QED BY <1>1, <2>4, <3>1 DEF Ready, IsConfig
  <2>5. ASSUME NEW p \in 1 .. (n + 1) - 1, IsLastPage(down'[c][p]), ConfigBefore(c, p)',
               \A j \in p + 1 .. (n + 1) - 1 : ~ IsConfig(down'[c][j])
        PROVE  Ready(c, Len(down[c]) + 1)'
    <3>1. \A j \in p + 1 .. (n + Len(s) + 1) - 1 : ~ IsConfig(down'[c][j])
      BY <1>1, <2>1, <2>2, <2>5
    <3>2. p \in 1 .. (n + Len(s) + 1) - 1
      BY <1>1
    <3>3. QED BY <1>1, <2>5, <3>1, <3>2 DEF Ready, IsConfig, IsLastPage
  <2>6. QED BY <2>3, <2>4, <2>5 DEF Ready, IsConfig, IsLastPage
<1>7. QED BY <1>0, <1>2, <1>4, <1>5, <1>6

\* A client to which nothing happens, except perhaps to the history.
LEMMA ReadyStays ==
    ASSUME NEW c \in Clients, ReadyForOrders(c), Keeps(c), UNCHANGED down[c],
           c \in on' <=> c \in on, told'[c] = told[c],
           hasty \subseteq hasty', disturbed \subseteq disturbed',
           c \in hung' <=> c \in hung,
           c \in refused' => c \in refused
    PROVE  ReadyForOrders(c)'
<1>1. HasManager(c)' <=> HasManager(c)
  BY DEF HasManager, Keeps
<1>2. Configured(c)' <=> Configured(c)
  BY DEF Configured, Keeps
<1>3. \A i : ConfigBefore(c, i)' <=> ConfigBefore(c, i)
  BY <1>2 DEF ConfigBefore, IsConfig
<1>4. \A i : Ready(c, i)' <=> Ready(c, i)
  BY <1>1, <1>3 DEF Ready, IsConfig, IsLastPage
<1>5. ConfigBefore(c, Len(down[c]) + 1) => ConfigBefore(c, Len(down[c]) + 1)'
  BY <1>2 DEF ConfigBefore, IsConfig
<1>6. Ready(c, Len(down[c]) + 1) => Ready(c, Len(down[c]) + 1)'
  BY <1>1, <1>3 DEF Ready, IsConfig, IsLastPage
<1>7. CASE c \notin hasty \cup disturbed \cup hung
  BY <1>4, <1>5, <1>6, <1>7 DEF ReadyForOrders, IsOrder
<1>8. CASE c \in hasty \cup disturbed \cup hung
  BY <1>8 DEF ReadyForOrders
<1>9. QED BY <1>7, <1>8

\* A client that has handled what came first.
LEMMA ReadyHandled ==
    ASSUME NEW c \in Clients, ReadyForOrders(c), MovesUp(c), FrontHandled(c),
           UNCHANGED <<on, told, hasty, disturbed>>, hung \subseteq hung',
           c \notin hasty \cup disturbed /\ c \in refused' => c \in refused
    PROVE  ReadyForOrders(c)'
<1>1. PICK n \in Nat : Len(down[c]) = n + 1 /\ Len(down'[c]) = n
  <2>1. Len(down[c]) - 1 \in Nat
    BY DEF MovesUp
  <2>2. QED BY <2>1 DEF MovesUp
<1>2. \A i \in 2 .. n + 2 :
        /\ ConfigBefore(c, i) => ConfigBefore(c, i - 1)'
        /\ Ready(c, i) => Ready(c, i - 1)'
  BY <1>1, BeforeMoves, ReadyMoves
<1>3. /\ ConfigBefore(c, Len(down[c]) + 1) => ConfigBefore(c, Len(down[c]) + 1)'
      /\ Ready(c, Len(down[c]) + 1) => Ready(c, Len(down[c]) + 1)'
  <2>1. n + 2 \in 2 .. n + 2 /\ (n + 2) - 1 = n + 1
    OBVIOUS
  <2>2. /\ ConfigBefore(c, n + 2) => ConfigBefore(c, n + 1)'
        /\ Ready(c, n + 2) => Ready(c, n + 1)'
    BY <1>2, <2>1
  <2>3. Len(down[c]) + 1 = n + 2 /\ Len(down'[c]) + 1 = n + 1
    BY <1>1
  <2>4. QED BY <2>2, <2>3
<1>4. ASSUME c \notin hasty \cup disturbed \cup hung, c \in on,
             NEW i \in 1 .. Len(down'[c]), IsOrder(down'[c][i])
      PROVE  Ready(c, i)'
  <2>1. /\ i \in 1 .. n /\ i + 1 \in 2 .. n + 2 /\ (i + 1) - 1 = i
        /\ i + 1 \in 1 .. n + 1 /\ i \in 1 .. Len(down[c]) - 1
    BY <1>1
  <2>2. down'[c][i] = down[c][i + 1]
    BY <2>1 DEF MovesUp
  <2>3. Ready(c, i + 1)
    BY <1>1, <1>4, <2>1, <2>2 DEF ReadyForOrders
  <2>4. QED BY <1>2, <2>1, <2>3
<1>5. CASE c \notin hasty \cup disturbed \cup hung
  BY <1>3, <1>4, <1>5 DEF ReadyForOrders, IsOrder
<1>6. CASE c \in hasty \cup disturbed \cup hung
  BY <1>6 DEF ReadyForOrders
<1>7. QED BY <1>5, <1>6

\* An order that is due finds a manager.
LEMMA DueOrder ==
    ASSUME NEW c \in Clients, ReadyForOrders(c), MovesUp(c), c \in on \ hung,
           c \notin hasty \cup disturbed, IsOrder(down[c][1])
    PROVE  HasManager(c)
<1>1. 1 \in 1 .. Len(down[c])
  BY DEF MovesUp
<1>2. Ready(c, 1)
  BY <1>1 DEF ReadyForOrders
<1>3. QED BY <1>2 DEF Ready

\* "config" and "table" are sent to everybody.
LEMMA ReadyTold ==
    ASSUME Typed, NEW c \in Clients, ReadyForOrders(c), handle_config \/ handle_table
    PROVE  ReadyForOrders(c)'
<1>1. UNCHANGED <<on, hung, eval_config_, managers, node_list_, hasty, disturbed, refused>>
  BY DEF handle_config, handle_table, clientVars
<1>2. /\ Configured(c) => Configured(c)'
      /\ HasManager(c) => HasManager(c)'
  BY <1>1 DEF Configured, HasManager
<1>3. CASE c \in hasty \cup disturbed \cup hung
  <2>1. told'[c] # "nothing" => told[c] # "nothing" \/ c \in on
    BY DEF handle_config, handle_table
  <2>2. QED BY <1>1, <1>3, <2>1 DEF ReadyForOrders
<1>4. CASE handle_config /\ c \notin hasty \cup disturbed \cup hung
  <2> DEFINE s == Configurations(c)
  <2>1. runs \in Nat /\ runs + 1 \in 1 .. Len(Configs) /\ Joins(c, s)
    BY <1>4, ConfigEffect
  <2>2. /\ Len(s) \in Nat
        /\ c \in Addresses <=> Len(s) > 0
        /\ \A i \in 1 .. Len(s) : IsConfig(s[i])
    BY <2>1, ConfigurationsSent DEF Typed
  <2> HIDE DEF s
  <2>3. PICK n \in Nat : n = Len(down[c])
    BY <2>1 DEF Joins
  <2>4. /\ Len(down'[c]) = n + Len(s)
        /\ \A i \in 1 .. n : down'[c][i] = down[c][i]
        /\ \A i \in n + 1 .. n + Len(s) : IsConfig(down'[c][i])
    <3>1. \A i \in n + 1 .. n + Len(s) : i - n \in 1 .. Len(s)
      BY <2>2
    <3>2. QED BY <2>1, <2>2, <2>3, <3>1 DEF Joins
  <2>5. told'[c] = IF c \in on \cap Addresses THEN "config" ELSE told[c]
    BY <1>4 DEF handle_config
  <2>6. told'[c] # "nothing" => c \in on
    BY <2>5 DEF ReadyForOrders
  <2>7. ASSUME told'[c] \in {"config", "table"}
        PROVE  ConfigBefore(c, Len(down[c]) + 1)'
    <3>1. CASE c \in on \cap Addresses
      <4>1. n + Len(s) \in 1 .. (n + Len(s) + 1) - 1 /\ n + Len(s) \in n + 1 .. n + Len(s)
        BY <2>2, <3>1
      <4>2. QED BY <2>4, <4>1 DEF ConfigBefore, IsConfig
    <3>2. CASE c \notin on \cap Addresses
      <4>1. ConfigBefore(c, Len(down[c]) + 1)
        BY <1>4, <2>5, <2>7, <3>2 DEF ReadyForOrders
      <4>2. QED BY <1>2, <2>1, <4>1, ReadyJoins
    <3>3. QED BY <3>1, <3>2
  <2>8. ASSUME told'[c] = "table" PROVE Ready(c, Len(down[c]) + 1)'
    <3>1. told[c] = "table" /\ c \notin on \cap Addresses
      BY <2>5, <2>8
    <3>2. c \in on /\ Ready(c, Len(down[c]) + 1)
      BY <1>4, <3>1 DEF ReadyForOrders
    <3>3. Len(s) = 0
      BY <2>2, <3>1, <3>2
    <3>4. \A k \in 1 .. Len(s) : ~ IsConfig(s[k])
      BY <3>3
    <3>5. QED BY <1>2, <2>1, <3>2, <3>4, ReadyJoins
  <2>9. ASSUME c \in on, NEW i \in 1 .. Len(down'[c]), IsOrder(down'[c][i])
        PROVE  Ready(c, i)'
    <3>1. i \in 1 .. n
      <4>1. i \notin n + 1 .. n + Len(s)
        BY <2>4, <2>9 DEF IsOrder, IsConfig
      <4>2. QED BY <2>2, <2>4, <4>1
    <3>2. Ready(c, i)
      BY <1>4, <2>3, <2>4, <2>9, <3>1 DEF ReadyForOrders
    <3>3. i \in 1 .. Len(down[c]) + 1
      BY <2>3, <3>1
    <3>4. QED BY <1>2, <2>1, <3>2, <3>3, ReadyJoins
  <2>10. QED BY <1>1, <1>4, <2>6, <2>7, <2>8, <2>9 DEF ReadyForOrders, IsOrder
<1>5. CASE handle_table /\ c \notin hasty \cup disturbed \cup hung
  <2> DEFINE s == Tables(c)
  <2>1. Joins(c, s)
    BY <1>5, TableEffect
  <2>2. /\ Len(s) \in Nat
        /\ c \in Addresses => Len(s) > 0 /\ IsLastPage(s[Len(s)])
        /\ \A i \in 1 .. Len(s) : s[i].kind = "TABLE"
    BY TablesSent DEF Typed
  <2> HIDE DEF s
  <2>3. PICK n \in Nat : n = Len(down[c])
    BY <2>1 DEF Joins
  <2>4. /\ Len(down'[c]) = n + Len(s)
        /\ \A i \in 1 .. n : down'[c][i] = down[c][i]
        /\ \A i \in n + 1 .. n + Len(s) : down'[c][i].kind = "TABLE"
        /\ Len(s) > 0 => down'[c][n + Len(s)] = s[Len(s)]
    <3>1. \A i \in n + 1 .. n + Len(s) : i - n \in 1 .. Len(s)
      BY <2>2
    <3>2. Len(s) > 0 => n + Len(s) \in n + 1 .. n + Len(s) /\ (n + Len(s)) - n = Len(s)
      BY <2>2
    <3>3. \A i \in n + 1 .. n + Len(s) : down'[c][i] = s[i - n]
      BY <2>1, <2>3 DEF Joins
    <3>4. QED BY <2>1, <2>2, <2>3, <3>1, <3>2, <3>3 DEF Joins
  <2>5. told'[c] = IF c \in on \cap Addresses /\ told[c] = "config" THEN "table" ELSE told[c]
    BY <1>5 DEF handle_table
  <2>6. told'[c] # "nothing" => c \in on
    BY <2>5 DEF ReadyForOrders
  <2>7. ASSUME told'[c] \in {"config", "table"}
        PROVE  ConfigBefore(c, Len(down[c]) + 1) /\ ConfigBefore(c, Len(down[c]) + 1)'
    <3>1. ConfigBefore(c, Len(down[c]) + 1)
      BY <1>5, <2>5, <2>7 DEF ReadyForOrders
    <3>2. QED BY <1>2, <2>1, <3>1, ReadyJoins
  <2>8. ASSUME told'[c] = "table" PROVE Ready(c, Len(down[c]) + 1)'
    <3>1. CASE c \in on \cap Addresses /\ told[c] = "config"
      <4> DEFINE p == n + Len(s)
      <4>1. Len(s) > 0 /\ IsLastPage(down'[c][p])
        BY <2>2, <2>4, <3>1
      <4>2. p \in 1 .. (p + 1) - 1 /\ \A j \in p + 1 .. (p + 1) - 1 : FALSE
        BY <2>2, <4>1
      <4>3. PICK q \in Nat : q = n + Len(s)
        BY <2>2
      <4>4. ConfigBefore(c, q)'
        <5>1. ConfigBefore(c, n + 1)
          BY <2>3, <2>7, <2>8
        <5>2. n + 1 \in 1 .. Len(down[c]) + 1
          BY <2>3
        <5>3. ConfigBefore(c, n + 1)'
          BY <1>2, <2>1, <5>1, <5>2, ReadyJoins
        <5>4. \A j \in 1 .. (n + 1) - 1 : j \in 1 .. q - 1
          BY <2>2, <4>1, <4>3
        <5>5. QED BY <5>3, <5>4 DEF ConfigBefore
      <4>5. Len(down'[c]) = q /\ IsLastPage(down'[c][q])
            /\ q \in 1 .. (q + 1) - 1 /\ \A j \in q + 1 .. (q + 1) - 1 : FALSE
        BY <2>4, <4>1, <4>2, <4>3
      <4>6. QED BY <4>4, <4>5 DEF Ready, IsLastPage, IsConfig
    <3>2. CASE told[c] = "table"
      <4>1. Ready(c, Len(down[c]) + 1)
        BY <1>5, <3>2 DEF ReadyForOrders
      <4>2. \A k \in 1 .. Len(s) : ~ IsConfig(s[k])
        BY <2>2 DEF IsConfig
      <4>3. QED BY <1>2, <2>1, <4>1, <4>2, ReadyJoins
    <3>3. QED BY <2>5, <2>8, <3>1, <3>2
  <2>9. ASSUME c \in on, NEW i \in 1 .. Len(down'[c]), IsOrder(down'[c][i])
        PROVE  Ready(c, i)'
    <3>1. i \in 1 .. n
      <4>1. i \notin n + 1 .. n + Len(s)
        BY <2>4, <2>9 DEF IsOrder
      <4>2. QED BY <2>2, <2>4, <4>1
    <3>2. Ready(c, i)
      BY <1>5, <2>3, <2>4, <2>9, <3>1 DEF ReadyForOrders
    <3>3. i \in 1 .. Len(down[c]) + 1
      BY <2>3, <3>1
    <3>4. QED BY <1>2, <2>1, <3>2, <3>3, ReadyJoins
  <2>10. QED BY <1>1, <1>5, <2>6, <2>7, <2>8, <2>9 DEF ReadyForOrders, IsOrder
<1>6. QED BY <1>3, <1>4, <1>5

\* An order is appended for one client.
LEMMA ReadyOrdered ==
    ASSUME Typed, NEW d \in Clients, ReadyForOrders(d), NEW i \in DOMAIN db,
           Order(i - 1, "BROADCAST") \/ Order(i - 1, "PULL_LOG")
    PROVE  ReadyForOrders(d)'
<1>1. i \in Nat /\ (i - 1) + 1 = i
  BY LenProperties DEF Typed
<1>2. PICK c \in Clients, m \in AnOrder :
        /\ Joins(c, <<m>>) /\ \A e \in Clients \ {c} : down'[e] = down[e]
        /\ hasty' = IF told[c] = "table" THEN hasty ELSE hasty \cup {c}
  BY <1>1, OrderEffect
<1>3. UNCHANGED <<on, hung, told, eval_config_, managers, node_list_, disturbed, refused>>
  BY DEF Order, clientVars
<1>4. CASE d # c
  BY <1>2, <1>3, <1>4, ReadyStays DEF Keeps
<1>5. CASE d = c
  <2>1. /\ Configured(c) => Configured(c)'
        /\ HasManager(c) => HasManager(c)'
    BY <1>3 DEF Configured, HasManager
  <2>2. Len(<<m>>) = 1 /\ \A k \in 1 .. Len(<<m>>) : ~ IsConfig(<<m>>[k])
    BY DEF AnOrder, IsConfig
  <2>3. CASE c \in hasty \cup disturbed \cup hung
    BY <1>2, <1>3, <1>5, <2>3 DEF ReadyForOrders
  <2>4. CASE c \notin hasty \cup disturbed \cup hung /\ told[c] = "table"
    <3>1. PICK n \in Nat : n = Len(down[c]) /\ Len(down'[c]) = n + 1
      BY <1>2, <2>2 DEF Joins
    <3>2. \A j \in 1 .. n : down'[c][j] = down[c][j]
      BY <1>2, <3>1 DEF Joins
    <3>3. ConfigBefore(c, Len(down[c]) + 1) /\ Ready(c, Len(down[c]) + 1)
      BY <1>5, <2>4 DEF ReadyForOrders
    <3>4. ConfigBefore(c, Len(down[c]) + 1)' /\ Ready(c, Len(down[c]) + 1)'
      BY <1>2, <2>1, <2>2, <3>3, ReadyJoins
    <3>5. ASSUME c \in on, NEW j \in 1 .. n + 1, IsOrder(down'[c][j]) PROVE Ready(c, j)'
      <4>1. j \in 1 .. Len(down[c]) + 1
        BY <3>1
      <4>2. Ready(c, j)
        <5>1. CASE j = n + 1
          BY <3>1, <3>3, <5>1
        <5>2. CASE j \in 1 .. n
          BY <1>5, <2>4, <3>1, <3>2, <3>5, <5>2 DEF ReadyForOrders
        <5>3. QED BY <5>1, <5>2
      <4>3. QED BY <1>2, <2>1, <4>1, <4>2, ReadyJoins
    <3>6. QED BY <1>3, <1>5, <2>4, <3>1, <3>4, <3>5 DEF ReadyForOrders, IsOrder
  <2>5. CASE c \notin hasty \cup disturbed \cup hung /\ told[c] # "table"
    BY <1>2, <1>3, <1>5, <2>5 DEF ReadyForOrders
  <2>6. QED BY <2>3, <2>4, <2>5
<1>6. QED BY <1>4, <1>5

LEMMA OrdersStep ==
    ASSUME RInv, OrdersInv, [Next]_vars PROVE OrdersInv'
<1>0. refused' \subseteq Clients
  <2>1. refused' = refused \/ \E c \in Clients : refused' = refused \cup {c}
    BY DEF Next, Operator, handle_config, handle_table, Order, Start, Crash, Handle,
           HandleConfig, HandleTable, HandleBroadcast, HandlePullLog, ServerReceive,
           Disturb, Vanish, vars, history
  <2>2. QED BY <2>1 DEF OrdersInv
<1> SUFFICES ASSUME NEW d \in Clients PROVE ReadyForOrders(d)'
  BY <1>0 DEF OrdersInv
<1>1. Typed /\ IInv /\ ReadyForOrders(d)
  BY DEF RInv, OrdersInv
<1>2. CASE handle_config \/ handle_table
  BY <1>1, <1>2, ReadyTold
<1>3. ASSUME NEW i \in DOMAIN db, Order(i - 1, "BROADCAST") \/ Order(i - 1, "PULL_LOG")
      PROVE  ReadyForOrders(d)'
  BY <1>1, <1>3, ReadyOrdered
<1>4. ASSUME NEW c \in Clients, HandleConfig(c) PROVE ReadyForOrders(d)'
  <2>1. /\ MovesUp(c) /\ IsConfig(down[c][1]) /\ Configured(c)'
        /\ UNCHANGED <<on, told, disturbed, hasty, refused>>
        /\ \A e \in Clients \ {c} : Keeps(e)
    BY <1>4, ConfigHandled
  <2>5. UNCHANGED hung
    BY <1>4 DEF HandleConfig
  <2>2. CASE d = c
    <3>1. FrontHandled(c)
      BY <2>1 DEF FrontHandled, IsConfig, IsLastPage
    <3>2. QED BY <1>1, <2>1, <2>2, <2>5, <3>1, ReadyHandled
  <2>3. CASE d # c
    BY <1>1, <2>1, <2>3, <2>5, ReadyStays DEF MovesUp
  <2>4. QED BY <2>2, <2>3
<1>5. ASSUME NEW c \in Clients, HandleTable(c) PROVE ReadyForOrders(d)'
  <2>1. /\ MovesUp(c) /\ UNCHANGED <<on, eval_config_, told, disturbed, hasty, refused>>
        /\ \A e \in Clients \ {c} : Keeps(e)
        /\ down[c][1].kind = "TABLE"
    BY <1>5, TableHandled
  <2>2. \A t \in EvalTypes :
            IF Made(c) /\ t = eval_config_[c].type
            THEN managers'[c][t] # Nothing
            ELSE managers'[c][t] = managers[c][t]
    BY <1>5, TableHandled, Zenon
  <2>6. IF Configured(c) /\ down[c][1].is_end /\ ~ Made(c) THEN hung' = hung \cup {c}
        ELSE UNCHANGED hung
    BY <1>5, TableHandled, Zenon
  <2>7. hung \subseteq hung' /\ \A e \in Clients \ {c} : e \in hung' <=> e \in hung
    BY <2>6
  <2>8. CASE d = c /\ c \in hung'
    BY <1>1, <2>1, <2>8 DEF ReadyForOrders
  <2>3. CASE d = c /\ c \notin hung'
    <3>1. Configured(c) => Configured(c)' /\ eval_config_[c].type \in EvalTypes
      <4>1. Configured(c) => eval_config_[c].run \in DOMAIN Configs
                             /\ eval_config_[c].type = Configs[eval_config_[c].run].type
        <5>1. Configured(c) => eval_config_[c].run \in 1 .. runs
                               /\ eval_config_[c].type = Configs[eval_config_[c].run].type
          BY DEF RInv, Right, RightClient
        <5>2. runs \in Nat /\ left["config"] \in Nat /\ runs + left["config"] <= Len(Configs)
          BY DEF RInv, Typed, Commands
        <5>3. DOMAIN Configs = 1 .. Len(Configs) /\ Len(Configs) \in Nat
          BY BootstrapAssumption, LenProperties
        <5>4. QED BY <5>1, <5>2, <5>3
      <4>2. QED BY <2>1, <4>1, BootstrapAssumption DEF Configured
    <3>2. HasManager(c) => HasManager(c)'
      BY <2>2 DEF HasManager
    <3>3. IsLastPage(down[c][1]) /\ Configured(c) => HasManager(c)'
      <4>1. IsLastPage(down[c][1]) /\ Configured(c) => Made(c)
        BY <2>3, <2>6 DEF IsLastPage
      <4>2. QED BY <2>2, <3>1, <4>1 DEF HasManager
    <3>4. ~ IsConfig(down[c][1])
      BY <2>1 DEF IsConfig
    <3>5. FrontHandled(c)
      BY <3>1, <3>2, <3>3, <3>4 DEF FrontHandled
    <3>6. QED BY <1>1, <2>1, <2>3, <2>7, <3>5, ReadyHandled
  <2>4. CASE d # c
    BY <1>1, <2>1, <2>4, <2>7, ReadyStays DEF MovesUp
  <2>5. QED BY <2>3, <2>4, <2>8
<1>6. ASSUME NEW c \in Clients, HandleBroadcast(c) \/ HandlePullLog(c), ~ Ends(c)
      PROVE  ReadyForOrders(d)'
  <2>1. /\ MovesUp(c) /\ c \in on \ hung /\ IsOrder(down[c][1])
    BY <1>1, <1>6, TakesEffect DEF HandleBroadcast, HandlePullLog, IsOrder
  <2>2. /\ UNCHANGED <<on, hung, eval_config_, managers, node_list_, told, disturbed, hasty>>
        /\ refused' = refused \/ (~ HasManager(c) /\ refused' = refused \cup {c})
    <3>1. CASE HandleBroadcast(c)
      <4>1. UNCHANGED <<on, hung, eval_config_, managers, node_list_, told, disturbed, hasty>>
        BY <3>1 DEF HandleBroadcast
      <4>2. IF HasManager(c) THEN UNCHANGED refused ELSE refused' = refused \cup {c}
        BY <3>1, Zenon DEF HandleBroadcast
      <4>3. refused' = refused \/ (~ HasManager(c) /\ refused' = refused \cup {c})
        BY <4>2, Zenon
      <4>4. QED BY <4>1, <4>3, Zenon
    <3>2. CASE HandlePullLog(c)
      <4>1. UNCHANGED <<clientVars, told, refused>>
        BY <1>6, <3>2, Zenon DEF HandlePullLog
      <4>2. UNCHANGED <<hasty, disturbed>>
        BY <3>2 DEF HandlePullLog
      <4>3. UNCHANGED <<on, hung, eval_config_, managers, node_list_, told, disturbed, hasty>>
            /\ refused' = refused
        BY <4>1, <4>2 DEF clientVars
      <4>4. QED BY <4>3, Zenon
    <3>3. QED BY <1>6, <3>1, <3>2
  <2>3. CASE d = c
    <3>1. ~ IsConfig(down[c][1]) /\ ~ IsLastPage(down[c][1])
      BY <2>1 DEF IsOrder, IsConfig, IsLastPage
    <3>2. FrontHandled(c)
      BY <2>2, <3>1 DEF FrontHandled, Configured, HasManager
    <3>3. c \notin hasty \cup disturbed => HasManager(c)
      BY <1>1, <2>1, <2>3, DueOrder
    <3>4. QED BY <1>1, <2>1, <2>2, <2>3, <3>2, <3>3, ReadyHandled
  <2>4. CASE d # c
    BY <1>1, <2>1, <2>2, <2>4, ReadyStays DEF MovesUp, Keeps
  <2>5. QED BY <2>3, <2>4
<1>7. ASSUME NEW c \in Clients, Crash(c) \/ HandlePullLog(c), Ends(c)
      PROVE  ReadyForOrders(d)'
  <2>1. /\ on' = on \ {c} /\ hung' = hung \ {c} /\ told'[c] = "nothing"
        /\ \A e \in Clients \ {c} : Keeps(e) /\ told'[e] = told[e]
    BY <1>1, <1>7, EndsEffect
  <2>2. UNCHANGED <<hasty, disturbed>> /\ \A e \in Clients \ {c} : down'[e] = down[e]
    <3>1. CASE Crash(c)
      BY <3>1 DEF Crash
    <3>2. CASE HandlePullLog(c)
      BY <1>1, <3>2, TakesEffect DEF HandlePullLog, MovesUp
    <3>3. QED BY <1>7, <3>1, <3>2
  <2>3. /\ refused' = refused \/ refused' = refused \cup {c}
        /\ c \notin hasty \cup disturbed /\ c \in refused' => c \in refused
    <3>1. CASE Crash(c)
      BY <3>1 DEF Crash
    <3>2. CASE HandlePullLog(c)
      <4>1. MovesUp(c) /\ c \in on \ hung /\ IsOrder(down[c][1])
        BY <1>1, <3>2, TakesEffect DEF HandlePullLog, IsOrder
      <4>2. c \notin hasty \cup disturbed => HasManager(c)
        BY <4>1, DueOrder DEF OrdersInv
      <4>3. HasManager(c) => ~ Ends(c)
        BY <3>2, <4>1 DEF HandlePullLog, Ends, clientVars
      <4>4. refused' = refused \/ refused' = refused \cup {c}
        BY <3>2 DEF HandlePullLog
      <4>5. QED BY <1>7, <4>2, <4>3, <4>4
    <3>3. QED BY <1>7, <3>1, <3>2
  <2>4. CASE d = c
    BY <1>1, <2>1, <2>2, <2>3, <2>4 DEF ReadyForOrders
  <2>5. CASE d # c
    BY <1>1, <2>1, <2>2, <2>3, <2>5, ReadyStays
  <2>6. QED BY <2>4, <2>5
<1>8. ASSUME NEW c \in Clients, Start(c) PROVE ReadyForOrders(d)'
  <2>1. /\ c \notin on /\ on' = on \cup {c}
        /\ UNCHANGED <<hung, eval_config_, node_list_, managers, down, told, disturbed,
                       refused>>
        /\ hasty' = hasty \/ hasty' = hasty \cup {c}
        /\ (\E i \in DOMAIN down[c] : IsOrder(down[c][i])) => c \in hasty'
    BY <1>8 DEF Start, IsOrder
  <2>2. CASE d = c
    <3>1. told[c] = "nothing" /\ DOMAIN down[c] = 1 .. Len(down[c])
      BY <1>1, <2>1, <2>2, LenProperties DEF ReadyForOrders, Typed
    <3>2. CASE c \in hasty' \cup disturbed
      BY <2>1, <2>2, <3>1, <3>2 DEF ReadyForOrders
    <3>3. CASE c \notin hasty' \cup disturbed
      <4>1. \A i \in 1 .. Len(down'[c]) : ~ IsOrder(down'[c][i])
        BY <2>1, <3>1, <3>3
      <4>2. c \notin hasty \cup disturbed
        BY <2>1, <3>3
      <4>3. c \notin refused'
        BY <1>1, <2>1, <2>2, <4>2 DEF ReadyForOrders
      <4>4. told'[c] = "nothing"
        BY <2>1, <3>1
      <4>5. QED BY <2>1, <2>2, <4>1, <4>3, <4>4 DEF ReadyForOrders, IsOrder
    <3>4. QED BY <2>1, <3>2, <3>3
  <2>3. CASE d # c
    BY <1>1, <2>1, <2>3, ReadyStays DEF Keeps
  <2>4. QED BY <2>2, <2>3
<1>9. ASSUME NEW c \in Clients, Vanish(c) PROVE ReadyForOrders(d)'
  <2>1. /\ MovesUp(c) /\ c \notin on
        /\ UNCHANGED <<on, hung, eval_config_, node_list_, managers, told, disturbed,
                       hasty, refused>>
    BY <1>1, <1>9, TailEffect DEF Vanish, clientVars, history
  <2>2. CASE d = c
    BY <1>1, <2>1, <2>2 DEF ReadyForOrders
  <2>3. CASE d # c
    BY <1>1, <2>1, <2>3, ReadyStays DEF MovesUp, Keeps
  <2>4. QED BY <2>2, <2>3
<1>10. ASSUME NEW c \in Clients, Disturb(c) PROVE ReadyForOrders(d)'
  <2>1. UNCHANGED <<on, hung, eval_config_, node_list_, managers, told, hasty, refused>>
    BY <1>10 DEF Disturb, clientVars
  <2>2. disturbed' = disturbed \cup {c} /\ \A e \in Clients \ {c} : down'[e] = down[e]
    BY <1>1, <1>10, DisturbEffect
  <2>3. CASE d = c
    BY <1>1, <2>1, <2>2, <2>3 DEF ReadyForOrders
  <2>4. CASE d # c
    BY <1>1, <2>1, <2>2, <2>4, ReadyStays DEF Keeps
  <2>5. QED BY <2>3, <2>4
<1>11. ASSUME NEW c \in Clients, ServerReceive(c) PROVE ReadyForOrders(d)'
  <2>1. UNCHANGED <<on, hung, eval_config_, node_list_, managers, down, told, disturbed,
                    hasty, refused>>
    BY <1>11 DEF ServerReceive, clientVars, history
  <2>2. QED BY <1>1, <2>1, ReadyStays DEF Keeps
<1>12. CASE UNCHANGED vars
  <2>1. UNCHANGED <<on, hung, eval_config_, node_list_, managers, down, told, disturbed,
                    hasty, refused>>
    BY <1>12 DEF vars, clientVars, history
  <2>2. QED BY <1>1, <2>1, ReadyStays DEF Keeps
<1>13. CASE Operator
  BY <1>2, <1>3, <1>13 DEF Operator
<1>14. ASSUME NEW c \in Clients, Handle(c) PROVE ReadyForOrders(d)'
  <2>1. CASE Ends(c) /\ HandlePullLog(c)
    BY <1>7, <2>1
  <2>2. CASE ~ Ends(c) /\ HandlePullLog(c)
    BY <1>6, <2>2
  <2>3. CASE HandleBroadcast(c)
    <3>1. CASE Ends(c)
      <4>1. c \in on /\ UNCHANGED on /\ on' = on \ {c}
        BY <2>3, <3>1 DEF HandleBroadcast, Takes, Ends
      <4>2. QED BY <4>1
    <3>2. CASE ~ Ends(c)
      BY <1>6, <2>3, <3>2
    <3>3. QED BY <3>1, <3>2
  <2>4. QED BY <1>4, <1>5, <1>14, <2>1, <2>2, <2>3 DEF Handle
<1>15. ASSUME NEW c \in Clients, Crash(c) PROVE ReadyForOrders(d)'
  BY <1>7, <1>15 DEF Crash
<1>16. QED
  BY <1>8, <1>9, <1>10, <1>11, <1>12, <1>13, <1>14, <1>15 DEF Next

\* Both hold at the start: nobody has anything.
LEMMA RightAtFirst ==
    ASSUME Init PROVE RInv /\ OrdersInv
<1>1. IInv
  BY DEF Init, IInv, Shaped, ConfiguredFirst, OneManager
<1>2. Typed
  <2>1. left \in [Commands -> Nat] /\ 0 + left["config"] <= Len(Configs)
    <3>1. left \in Budgets
      BY DEF Init
    <3>2. left \in [Commands -> Nat] /\ left.config <= Len(Configs)
      BY <3>1, BootstrapAssumption DEF Commands
    <3>3. "config" \in Commands
      BY DEF Commands
    <3>4. left["config"] \in Nat
      BY <3>2, <3>3
    <3>5. 0 + left["config"] = left["config"]
      BY <3>4
    <3>6. QED BY <3>2, <3>5
  <2>2. \A c \in Clients : down[c] = <<>>
    BY DEF Init
  <2>3. down \in [Clients -> Seq(Datagram)]
    BY <2>2 DEF Init
  <2>4. QED BY <2>1, <2>3 DEF Init, Typed
<1>3. ASSUME NEW c \in Clients PROVE RightClient(c) /\ down[c] = <<>> /\ ReadyForOrders(c)
  BY DEF Init, RightClient, Configured, ReadyForOrders
<1>4. Right
  BY <1>3 DEF Right, ToSet
<1>5. refused = {}
  BY DEF Init
<1>6. QED BY <1>1, <1>2, <1>3, <1>4, <1>5 DEF RInv, OrdersInv

(***************************************************************************)
(* Every order given to a client after it was sent its configuration and   *)
(* the node list finds a manager, whatever runs, restarts and crashes of   *)
(* the clients came before, unless the network lost or swapped something   *)
(* on its way to that client or the operator did not wait: no handler      *)
(* dereferences a null pointer.                                            *)
(***************************************************************************)
THEOREM OrdersAreFollowed == Spec => []OrdersFollowed
<1>1. Init => RInv /\ OrdersInv
  BY RightAtFirst
<1>2. RInv /\ OrdersInv /\ [Next]_vars => (RInv /\ OrdersInv)'
  BY RightStep, OrdersStep
<1>3. RInv /\ OrdersInv => OrdersFollowed
  <2> SUFFICES ASSUME OrdersInv, NEW c \in refused PROVE c \in hasty \cup disturbed
    BY DEF OrdersFollowed
  <2>1. c \in Clients
    BY DEF OrdersInv
  <2>2. QED BY <2>1 DEF OrdersInv, ReadyForOrders
<1>4. QED BY <1>1, <1>2, <1>3, PTL DEF Spec

-----------------------------------------------------------------------------
(***************************************************************************)
(* Peers: by the time a client gets a manager, whoever has a number in its *)
(* run, or is just being told one, is on its list, since the number was    *)
(* given before the pages were.                                            *)
(***************************************************************************)
Given(run, id) ==
    \E c \in Clients :
        \/ /\ Configured(c) /\ eval_config_[c].run = run
           /\ eval_config_[c].str_node_id = Id(id, run)
        \/ \E m \in ToSet(down[c]) : IsConfig(m) /\ m.run = run /\ m.node_id = id

Lists(list, run, id) ==
    Id(id, run) \in DOMAIN list /\ list[Id(id, run)] = db[id + 1]

ManagerLists(c) ==
    \A t \in EvalTypes, id \in Numbers :
        managers[c][t] # Nothing /\ Given(managers[c][t].run, id)
            => Lists(managers[c][t].list, managers[c][t].run, id)

\* No configuration comes between two datagrams.
Apart(c, g, i) == \A j \in g + 1 .. i - 1 : ~ IsConfig(down[c][j])

ReadFrom(c, g, i, id) == \E j \in g + 1 .. i : id \in Read(down[c][j])

\* From a configuration to the last page everybody is read.
PagesFollow(c) ==
    \A i \in 1 .. Len(down[c]) : IsLastPage(down[c][i]) =>
        \A g \in 1 .. i - 1, id \in Numbers :
            IsConfig(down[c][g]) /\ Apart(c, g, i) /\ Given(down[c][g].run, id)
                => ReadFrom(c, g, i, id)

\* Once configured, everybody is listed already or yet to be read.
PagesComplete(c) ==
    \A i \in 1 .. Len(down[c]) :
        IsLastPage(down[c][i]) /\ Configured(c) /\ Apart(c, 0, i) =>
            \A id \in Numbers : Given(eval_config_[c].run, id) =>
                \/ Lists(node_list_[c], eval_config_[c].run, id)
                \/ ReadFrom(c, 0, i, id)

FindsPeers(c) == ManagerLists(c) /\ PagesFollow(c) /\ PagesComplete(c)

PeersInv == \A c \in Clients \ disturbed : FindsPeers(c)

\* Different numbers have different ids.
LEMMA IdsTell ==
    ASSUME NEW run \in DOMAIN Configs, NEW i \in Nat, NEW j \in Nat, Id(i, run) = Id(j, run)
    PROVE  i = j
<1>1. IsShape(Configs[run].shape)
  BY BootstrapAssumption
<1>2. QED BY <1>1, IdsDiffer DEF Id

LEMMA RunsAreConfigs ==
    ASSUME Typed
    PROVE  1 .. runs \subseteq DOMAIN Configs /\ Numbers \subseteq Nat /\ runs \in Nat
<1>1. runs \in Nat /\ left["config"] \in Nat /\ runs + left["config"] <= Len(Configs)
  BY DEF Typed, Commands
<1>2. DOMAIN Configs = 1 .. Len(Configs) /\ Len(Configs) \in Nat /\ Len(db) \in Nat
  BY BootstrapAssumption, LenProperties DEF Typed
<1>3. QED BY <1>1, <1>2 DEF Numbers

\* Nobody gets a number in a run that was entered before.
LEMMA NobodyJoins ==
    ASSUME RInv, [Next]_vars, NEW run \in 1 .. runs, NEW id \in Nat, Given(run, id)'
    PROVE  id \in Numbers /\ Given(run, id)
<1>1. Grows /\ Typed
  BY GrowsStep DEF RInv
<1>2. run \in DOMAIN Configs /\ Numbers \subseteq Nat /\ runs \in Nat
  BY <1>1, RunsAreConfigs
<1>3. ASSUME NEW c \in Clients, Configured(c), eval_config_[c].run = run,
             eval_config_[c].str_node_id = Id(id, run)
      PROVE  id \in Numbers /\ Given(run, id)
  <2>1. PICK own \in Numbers : eval_config_[c].str_node_id = Id(own, run)
    BY <1>3 DEF RInv, Right, RightClient
  <2>2. own = id
    BY <1>2, <1>3, <2>1, IdsTell
  <2>3. QED BY <1>3, <2>1, <2>2 DEF Given
<1>4. ASSUME NEW c \in Clients, NEW m \in ToSet(down[c]), IsConfig(m), m.run = run,
             m.node_id \in Nat, Id(m.node_id, run) = Id(id, run)
      PROVE  id \in Numbers /\ Given(run, id)
  <2>1. m.node_id = id
    BY <1>2, <1>4, IdsTell
  <2>2. m.node_id \in Numbers
    BY <1>4 DEF RInv, Right, RightDatagram, RightConfig
  <2>3. QED BY <1>4, <2>1, <2>2 DEF Given
<1>5. ASSUME NEW c \in Clients, Configured(c)', eval_config_'[c].run = run,
             eval_config_'[c].str_node_id = Id(id, run)
      PROVE  id \in Numbers /\ Given(run, id)
  <2>1. CASE Keeps(c)
    BY <1>3, <1>5, <2>1 DEF Keeps, Configured
  <2>2. ASSUME NEW d \in Clients, HandleConfig(d) PROVE id \in Numbers /\ Given(run, id)
    <3>1. d # c => Keeps(c)
      BY <2>2, ConfigHandled
    <3>2. CASE d = c
      <4> DEFINE m == down[c][1]
      <4>1. /\ MovesUp(c) /\ IsConfig(m) /\ RightConfig(c, m)
            /\ eval_config_'[c].run = m.run
            /\ eval_config_'[c].str_node_id = Id(m.node_id, m.run)
        BY <2>2, <3>2, ConfigHandled
      <4>2. m \in ToSet(down[c])
        BY <1>1, <2>2, <3>2, TakesEffect DEF HandleConfig
      <4>3. m.node_id \in Nat
        BY <1>2, <4>1 DEF RightConfig
      <4> HIDE DEF m
      <4>4. QED BY <1>4, <1>5, <4>1, <4>2, <4>3
    <3>3. QED BY <2>1, <3>1, <3>2
  <2>3. ASSUME NEW d \in Clients, HandleTable(d) PROVE id \in Numbers /\ Given(run, id)
    <3>1. UNCHANGED eval_config_
      BY <2>3, TableHandled
    <3>2. QED BY <1>3, <1>5, <3>1 DEF Configured
  <2>4. CASE UNCHANGED <<on, eval_config_, managers, node_list_>>
    BY <2>1, <2>4 DEF Keeps
  <2>5. ASSUME NEW d \in Clients, Start(d) PROVE Keeps(c)
    BY <2>5 DEF Start, Keeps
  <2>6. ASSUME NEW d \in Clients, Ends(d) PROVE Keeps(c)
    BY <1>5, <2>6, EndsEffect DEF RInv
  <2>7. QED BY <1>1, <2>1, <2>2, <2>3, <2>4, <2>5, <2>6, OtherSteps
<1>6. ASSUME NEW c \in Clients, NEW m \in ToSet(down[c])', IsConfig(m), m.run = run,
             m.node_id = id
      PROVE  id \in Numbers /\ Given(run, id)
  <2>1. m.run # runs + 1
    BY <1>2, <1>6
  <2>2. m \in ToSet(down[c])
    BY <1>1, <1>6, <2>1, DatagramsRight
  <2>3. QED BY <1>4, <1>6, <2>2
<1>7. PICK c \in Clients :
        \/ /\ Configured(c)' /\ eval_config_'[c].run = run
           /\ eval_config_'[c].str_node_id = Id(id, run)
        \/ \E m \in ToSet(down[c])' : IsConfig(m) /\ m.run = run /\ m.node_id = id
  BY DEF Given, IsConfig, Id
<1>8. QED BY <1>5, <1>6, <1>7

\* A page adds the entries it has, and keeps the others.
LEMMA ListedFinds ==
    ASSUME RInv, NEW c \in Clients, Configured(c), NEW m \in Datagram, m.kind = "TABLE",
           RightPage(m), NEW id \in Numbers,
           id \in Read(m) \/ Lists(node_list_[c], eval_config_[c].run, id)
    PROVE  Lists(Listed(c, m), eval_config_[c].run, id)
<1> DEFINE shape == eval_config_[c].shape
           run == eval_config_[c].run
           read == {m.entries[i] : i \in 1 .. m.table_size}
           IdOf(e) == convert_ID_int_to_string(e.id, shape)
           new == [s \in {IdOf(e) : e \in read} |-> (CHOOSE e \in read : IdOf(e) = s).address]
           old == node_list_[c]
           own == Id(id, run)
<1>1. run \in DOMAIN Configs /\ shape = Configs[run].shape /\ Numbers \subseteq Nat
  BY RunsAreConfigs DEF RInv, Right, RightClient
<1>2. \A e \in read : IdOf(e) = Id(e.id, run) /\ e.id \in Numbers /\ e.address = db[e.id + 1]
  BY <1>1 DEF Id, RightPage
<1>3. Entries(m, shape) = new
  BY DEF Entries
<1>4. Listed(c, m) = [s \in DOMAIN new \cup DOMAIN old |->
                         IF s \in DOMAIN new THEN new[s] ELSE old[s]]
  <2> HIDE DEF new
  <2> QED BY <1>3 DEF Listed
<1>5. DOMAIN new = {IdOf(e) : e \in read}
  OBVIOUS
<1> HIDE DEF run, shape
<1>6. CASE own \in DOMAIN new
  <2>1. PICK e \in read : IdOf(e) = own
    BY <1>5, <1>6
  <2> DEFINE f == CHOOSE f \in read : IdOf(f) = own
  <2>2. f \in read /\ IdOf(f) = own
    BY <2>1
  <2>3. new[own] = f.address
    BY <1>6
  <2> HIDE DEF f, read
  <2>4. f.id \in Nat /\ id \in Nat /\ Id(f.id, run) = Id(id, run) /\ f.address = db[f.id + 1]
    BY <1>1, <1>2, <2>2
  <2>5. f.id = id
    BY <1>1, <2>4, IdsTell
  <2>6. new[own] = db[id + 1]
    BY <2>3, <2>4, <2>5
  <2> HIDE DEF new, old
  <2>7. own \in DOMAIN Listed(c, m) /\ Listed(c, m)[own] = db[id + 1]
    BY <1>4, <1>6, <2>6
  <2>8. QED BY <2>7 DEF Lists, run
<1>7. CASE own \notin DOMAIN new
  <2>1. id \notin Read(m)
    <3> SUFFICES ASSUME id \in Read(m) PROVE FALSE
      OBVIOUS
    <3>1. PICK i \in 1 .. m.table_size : m.entries[i].id = id
      BY DEF Read
    <3>2. m.entries[i] \in read
      OBVIOUS
    <3>3. IdOf(m.entries[i]) = own
      BY <1>2, <3>1, <3>2
    <3>4. own \in DOMAIN new
      BY <1>5, <3>2, <3>3
    <3>5. QED BY <1>7, <3>4
  <2>2. own \in DOMAIN old /\ old[own] = db[id + 1]
    BY <2>1 DEF Lists, run
  <2> HIDE DEF new, old
  <2>3. own \in DOMAIN Listed(c, m) /\ Listed(c, m)[own] = db[id + 1]
    BY <1>4, <1>7, <2>2
  <2>4. QED BY <2>3 DEF Lists, run
<1>8. QED BY <1>6, <1>7

\* The runs that FindsPeers speaks of were entered.
LEMMA RunsEntered ==
    ASSUME RInv, NEW c \in Clients
    PROVE  /\ Configured(c) => eval_config_[c].run \in 1 .. runs
           /\ \A t \in EvalTypes : managers[c][t] # Nothing => managers[c][t].run \in 1 .. runs
           /\ \A m \in ToSet(down[c]) : IsConfig(m) => m.run \in 1 .. runs
<1>1. Configured(c) => eval_config_[c].run \in 1 .. runs
  BY DEF RInv, Right, RightClient
<1>2. \A t \in EvalTypes : managers[c][t] # Nothing => managers[c][t].run \in 1 .. runs
  BY <1>1 DEF RInv, IInv, OneManager, Configured
<1>3. \A m \in ToSet(down[c]) : IsConfig(m) => m.run \in 1 .. runs
  BY DEF RInv, Right, RightDatagram, RightConfig
<1>4. QED BY <1>1, <1>2, <1>3

\* What a client lists stays listed right.
LEMMA ListsLast ==
    ASSUME Grows, NEW list, NEW run, NEW id \in Numbers, Lists(list, run, id)
    PROVE  Lists(list, run, id)'
  BY DEF Grows, Lists, Id

LEMMA ManagerLasts ==
    ASSUME RInv, [Next]_vars, NEW c \in Clients, ManagerLists(c), NEW t \in EvalTypes,
           managers'[c][t] = managers[c][t], managers'[c][t] # Nothing,
           NEW id \in Numbers', Given(managers[c][t].run, id)'
    PROVE  Lists(managers[c][t].list, managers[c][t].run, id)'
<1>1. Grows /\ Numbers' \subseteq Nat
  <2>1. Typed' /\ Grows
    BY TypedStep, GrowsStep DEF RInv
  <2>2. Numbers' \subseteq Nat
    BY <2>1, LenProperties DEF Typed, Numbers
  <2>3. QED BY <2>1, <2>2
<1> DEFINE m == managers[c][t]
<1>2. PICK run \in 1 .. runs : run = m.run
  BY RunsEntered
<1>3. PICK list : list = m.list
  OBVIOUS
<1>4. Given(run, id)'
  BY <1>2 DEF Given, Id
<1>5. id \in Numbers /\ Given(run, id)
  BY <1>1, <1>4, NobodyJoins
<1>6. Lists(list, run, id)
  BY <1>2, <1>3, <1>5 DEF ManagerLists
<1>7. Lists(list, run, id)'
  BY <1>1, <1>5, <1>6, ListsLast
<1>8. QED BY <1>2, <1>3, <1>7 DEF Lists, Id

LEMMA ManagersLast ==
    ASSUME RInv, [Next]_vars, NEW c \in Clients, ManagerLists(c), managers'[c] = managers[c]
    PROVE  ManagerLists(c)'
  BY ManagerLasts DEF ManagerLists

\* Whatever joins, the last pages in front of it come as before; and a last page
\* that joins, with no configuration before it, comes after all the others.
LEMMA PeersJoin ==
    ASSUME RInv, [Next]_vars, NEW c \in Clients, FindsPeers(c), Keeps(c),
           NEW s \in Seq(Datagram), Joins(c, s),
           \/ \A k \in 1 .. Len(s) : ~ IsLastPage(s[k])
           \/ \A k \in 1 .. Len(s) :
                /\ ~ IsConfig(s[k])
                /\ IsLastPage(s[k]) =>
                       \A id \in Numbers : \E j \in 1 .. k : id \in Read(s[j])
    PROVE  FindsPeers(c)'
<1>1. Grows /\ Typed' /\ Typed
  BY TypedStep, GrowsStep DEF RInv
<1>2. Numbers' \subseteq Nat
  BY <1>1, LenProperties DEF Typed, Numbers
<1>3. PICK n \in Nat : n = Len(down[c])
  BY DEF Joins
<1>4. /\ Len(s) \in Nat /\ Len(down'[c]) = n + Len(s)
      /\ \A i \in 1 .. n : down'[c][i] = down[c][i] /\ down[c][i] \in ToSet(down[c])
      /\ \A k \in 1 .. Len(s) : n + k \in n + 1 .. n + Len(s) /\ down'[c][n + k] = s[k]
  <2>1. Len(s) \in Nat /\ Len(down'[c]) = n + Len(s)
        /\ \A i \in 1 .. n : down'[c][i] = down[c][i]
    BY <1>3 DEF Joins
  <2>2. ASSUME NEW i \in 1 .. n PROVE down[c][i] \in ToSet(down[c])
    <3>1. DOMAIN down[c] = 1 .. n
      BY <1>1, <1>3, LenProperties DEF Typed
    <3>2. QED BY <3>1 DEF ToSet
  <2>3. ASSUME NEW k \in 1 .. Len(s)
        PROVE  n + k \in n + 1 .. n + Len(s) /\ down'[c][n + k] = s[k]
    <3>1. n + k \in n + 1 .. n + Len(s) /\ (n + k) - n = k
      BY <2>1
    <3>2. \A i \in n + 1 .. n + Len(s) : down'[c][i] = s[i - n]
      BY <1>3 DEF Joins
    <3>3. QED BY <3>1, <3>2
  <2>4. QED BY <2>1, <2>2, <2>3
\* A last page that joined.
<1>5. ASSUME NEW i \in 1 .. n + Len(s), i \notin 1 .. n, IsLastPage(down'[c][i]),
             NEW g \in 0 .. i - 1, g = 0 \/ IsConfig(down'[c][g])
      PROVE  g \in 0 .. n
             /\ \A id \in Numbers : \E j \in g + 1 .. i : id \in Read(down'[c][j])
  <2>1. PICK k \in 1 .. Len(s) : i = n + k
    <3>1. i - n \in 1 .. Len(s) /\ i = n + (i - n)
      BY <1>4, <1>5
    <3>2. QED BY <3>1
  <2>2. IsLastPage(s[k])
    BY <1>4, <1>5, <2>1
  <2>3. /\ \A m \in 1 .. Len(s) : ~ IsConfig(s[m])
        /\ \A id \in Numbers : \E j \in 1 .. k : id \in Read(s[j])
    BY <2>2
  <2>4. g \in 0 .. n
    <3>1. CASE g \in n + 1 .. n + Len(s)
      <4>1. g - n \in 1 .. Len(s) /\ n + (g - n) = g
        BY <1>4, <3>1
      <4>2. down'[c][g] = s[g - n]
        BY <1>4, <4>1
      <4>3. g # 0
        BY <3>1
      <4>4. QED BY <1>5, <2>3, <4>1, <4>2, <4>3
    <3>2. g \in 0 .. n \/ g \in n + 1 .. n + Len(s)
      BY <1>4
    <3>3. QED BY <3>1, <3>2
  <2>5. ASSUME NEW id \in Numbers PROVE \E j \in g + 1 .. i : id \in Read(down'[c][j])
    <3>1. PICK j \in 1 .. k : id \in Read(s[j])
      BY <2>3
    <3>2. j \in 1 .. Len(s) /\ n + j \in g + 1 .. i
      BY <1>4, <2>1, <2>4
    <3>3. down'[c][n + j] = s[j]
      BY <1>4, <3>2
    <3>4. QED BY <3>1, <3>2, <3>3
  <2>6. QED BY <2>4, <2>5
<1>6. ManagerLists(c)'
  BY ManagersLast DEF FindsPeers, Keeps
<1>7. ASSUME NEW i \in 1 .. n + Len(s), IsLastPage(down'[c][i]),
             NEW g \in 1 .. i - 1, NEW id \in Numbers',
             IsConfig(down'[c][g]), \A j \in g + 1 .. i - 1 : ~ IsConfig(down'[c][j]),
             NEW run, run = down'[c][g].run, Given(run, id)'
      PROVE  \E j \in g + 1 .. i : id \in Read(down'[c][j])
  <2>1. g \in 1 .. n
    <3>1. CASE i \notin 1 .. n
      <4>1. g \in 0 .. i - 1
        OBVIOUS
      <4>2. g \in 0 .. n
        BY <1>5, <1>7, <3>1, <4>1
      <4>3. QED BY <4>2
    <3>2. CASE i \in 1 .. n
      BY <3>2
    <3>3. QED BY <3>1, <3>2
  <2>2. down'[c][g] = down[c][g] /\ down[c][g] \in ToSet(down[c])
    BY <1>4, <2>1
  <2>3. run \in 1 .. runs
    BY <1>7, <2>2, RunsEntered
  <2>4. id \in Numbers /\ Given(run, id)
    BY <1>2, <1>7, <2>3, NobodyJoins
  <2>5. CASE i \in 1 .. n
    <3>1. \A j \in g .. i : j \in 1 .. n /\ down'[c][j] = down[c][j]
      BY <1>4, <2>1, <2>5
    <3>2. g \in g .. i /\ i \in g .. i /\ \A j \in g + 1 .. i - 1 : j \in g .. i
      OBVIOUS
    <3>3. IsLastPage(down[c][i]) /\ IsConfig(down[c][g]) /\ Apart(c, g, i)
      BY <1>7, <3>1, <3>2 DEF Apart
    <3>4. ReadFrom(c, g, i, id)
      BY <1>3, <1>7, <2>2, <2>4, <2>5, <3>3 DEF FindsPeers, PagesFollow
    <3>5. QED BY <3>1, <3>4 DEF ReadFrom
  <2>6. CASE i \notin 1 .. n
    <3>1. g \in 0 .. i - 1
      OBVIOUS
    <3>2. QED BY <1>5, <1>7, <2>4, <2>6, <3>1
  <2>7. QED BY <2>5, <2>6
<1>8. ASSUME NEW i \in 1 .. n + Len(s), IsLastPage(down'[c][i]), Configured(c)',
             \A j \in 1 .. i - 1 : ~ IsConfig(down'[c][j]),
             NEW id \in Numbers', NEW run, run = eval_config_'[c].run, Given(run, id)'
      PROVE  \/ Lists(node_list_[c], run, id)'
             \/ \E j \in 1 .. i : id \in Read(down'[c][j])
  <2>1. Configured(c) /\ run = eval_config_[c].run
    BY <1>8 DEF Keeps, Configured
  <2>2. run \in 1 .. runs
    BY <2>1, RunsEntered
  <2>3. id \in Numbers /\ Given(run, id)
    BY <1>2, <1>8, <2>2, NobodyJoins
  <2>4. CASE i \in 1 .. n
    <3>1. \A j \in 1 .. i : j \in 1 .. n /\ down'[c][j] = down[c][j]
      BY <1>4, <2>4
    <3>2. IsLastPage(down[c][i]) /\ Apart(c, 0, i)
      BY <1>8, <3>1 DEF Apart
    <3>3. Lists(node_list_[c], run, id) \/ ReadFrom(c, 0, i, id)
      BY <1>3, <2>1, <2>3, <2>4, <3>2 DEF FindsPeers, PagesComplete
    <3>4. PICK list : list = node_list_[c]
      OBVIOUS
    <3>5. Lists(node_list_[c], run, id) => Lists(node_list_[c], run, id)'
      BY <1>1, <2>3, <3>4, ListsLast DEF Keeps, Lists, Id
    <3>6. QED BY <3>1, <3>3, <3>5 DEF ReadFrom
  <2>5. CASE i \notin 1 .. n
    <3>1. 0 \in 0 .. i - 1 /\ 0 + 1 = 1
      OBVIOUS
    <3>2. QED BY <1>5, <1>8, <2>3, <2>5, <3>1
  <2>6. QED BY <2>4, <2>5
<1>9. PagesFollow(c)'
  BY <1>4, <1>7 DEF PagesFollow, IsLastPage, IsConfig, Apart, ReadFrom, Read
<1>10. PagesComplete(c)'
  <2> SUFFICES ASSUME NEW i \in 1 .. Len(down'[c]), IsLastPage(down'[c][i]),
                      Configured(c)', Apart(c, 0, i)', NEW id \in Numbers',
                      Given(eval_config_[c].run, id)'
               PROVE  \/ Lists(node_list_[c], eval_config_[c].run, id)'
                      \/ ReadFrom(c, 0, i, id)'
    BY DEF PagesComplete, IsLastPage
  <2>1. PICK run : run = eval_config_'[c].run
    OBVIOUS
  <2>2. Given(run, id)' /\ \A j \in 1 .. i - 1 : ~ IsConfig(down'[c][j])
    BY <2>1 DEF Given, Id, Apart, IsConfig
  <2>3. Lists(node_list_[c], run, id)' \/ \E j \in 1 .. i : id \in Read(down'[c][j])
    BY <1>4, <1>8, <2>1, <2>2
  <2>4. QED BY <2>1, <2>3 DEF Lists, Id, ReadFrom, Read
<1>11. QED BY <1>6, <1>9, <1>10 DEF FindsPeers

\* The front moves up: a configuration that is handled leaves the pages behind
\* it to be read, and a page that is handled is on the list.
LEMMA PeersMove ==
    ASSUME RInv, [Next]_vars, NEW c \in Clients, FindsPeers(c), MovesUp(c), ManagerLists(c)',
           Configured(c)' =>
             \/ IsConfig(down[c][1]) /\ eval_config_'[c].run = down[c][1].run
             \/ /\ ~ IsConfig(down[c][1]) /\ Configured(c)
                /\ eval_config_'[c].run = eval_config_[c].run
                /\ \A id \in Numbers :
                     id \in Read(down[c][1]) \/ Lists(node_list_[c], eval_config_[c].run, id)
                       => Lists(node_list_'[c], eval_config_[c].run, id)
    PROVE  FindsPeers(c)'
<1>1. Grows /\ Typed' /\ Typed
  BY TypedStep, GrowsStep DEF RInv
<1>2. Numbers' \subseteq Nat
  BY <1>1, LenProperties DEF Typed, Numbers
<1>3. PICK n \in Nat : Len(down[c]) = n + 1 /\ Len(down'[c]) = n
  <2>1. Len(down[c]) - 1 \in Nat
    BY DEF MovesUp
  <2>2. QED BY <2>1 DEF MovesUp
<1>4. /\ \A i \in 1 .. n : down'[c][i] = down[c][i + 1]
      /\ \A i \in 1 .. n + 1 : down[c][i] \in ToSet(down[c])
  <2>1. \A i \in 1 .. n : down'[c][i] = down[c][i + 1]
    BY <1>3 DEF MovesUp
  <2>2. DOMAIN down[c] = 1 .. n + 1
    BY <1>1, <1>3, LenProperties DEF Typed
  <2>3. QED BY <2>1, <2>2 DEF ToSet
\* What is apart, or read, between two places was so one place further back.
<1>5. ASSUME NEW i \in 1 .. n, NEW g \in 0 .. i - 1,
             \A j \in g + 1 .. i - 1 : ~ IsConfig(down'[c][j])
      PROVE  Apart(c, g + 1, i + 1)
  <2> SUFFICES ASSUME NEW j \in (g + 1) + 1 .. (i + 1) - 1 PROVE ~ IsConfig(down[c][j])
    BY DEF Apart
  <2>1. j - 1 \in 1 .. n /\ j - 1 \in g + 1 .. i - 1 /\ (j - 1) + 1 = j
    OBVIOUS
  <2>2. down'[c][j - 1] = down[c][j]
    BY <1>4, <2>1
  <2>3. QED BY <1>5, <2>1, <2>2
<1>6. ASSUME NEW i \in 1 .. n, NEW g \in 0 .. i - 1, NEW id, ReadFrom(c, g + 1, i + 1, id)
      PROVE  \E j \in g + 1 .. i : id \in Read(down'[c][j])
  <2>1. PICK j \in (g + 1) + 1 .. i + 1 : id \in Read(down[c][j])
    BY <1>6 DEF ReadFrom
  <2>2. j - 1 \in 1 .. n /\ j - 1 \in g + 1 .. i /\ (j - 1) + 1 = j
    OBVIOUS
  <2>3. down'[c][j - 1] = down[c][j]
    BY <1>4, <2>2
  <2>4. QED BY <2>1, <2>2, <2>3
<1>7. ASSUME NEW i \in 1 .. n, IsLastPage(down'[c][i]), NEW g \in 0 .. i - 1,
             NEW id \in Numbers', IsConfig(down[c][g + 1]),
             \A j \in g + 1 .. i - 1 : ~ IsConfig(down'[c][j]),
             NEW run, run = down[c][g + 1].run, Given(run, id)'
      PROVE  \E j \in g + 1 .. i : id \in Read(down'[c][j])
  <2>1. i + 1 \in 1 .. Len(down[c]) /\ g + 1 \in 1 .. (i + 1) - 1 /\ g + 1 \in 1 .. n + 1
    BY <1>3
  <2>2. IsLastPage(down[c][i + 1])
    BY <1>4, <1>7
  <2>3. run \in 1 .. runs
    BY <1>4, <1>7, <2>1, RunsEntered
  <2>4. id \in Numbers /\ Given(run, id)
    BY <1>2, <1>7, <2>3, NobodyJoins
  <2>5. Apart(c, g + 1, i + 1)
    BY <1>5, <1>7
  <2>6. ReadFrom(c, g + 1, i + 1, id)
    BY <1>7, <2>1, <2>2, <2>4, <2>5 DEF FindsPeers, PagesFollow
  <2>7. QED BY <1>6, <2>6
<1>8. ASSUME NEW i \in 1 .. n, IsLastPage(down'[c][i]), Configured(c)',
             \A j \in 1 .. i - 1 : ~ IsConfig(down'[c][j]),
             NEW id \in Numbers', NEW run, run = eval_config_'[c].run, Given(run, id)'
      PROVE  \/ Lists(node_list_[c], run, id)'
             \/ \E j \in 1 .. i : id \in Read(down'[c][j])
  <2>0. 0 \in 0 .. i - 1 /\ 0 + 1 = 1
    OBVIOUS
  <2>1. CASE IsConfig(down[c][1]) /\ eval_config_'[c].run = down[c][1].run
    BY <1>7, <1>8, <2>0, <2>1
  <2>2. CASE /\ ~ IsConfig(down[c][1]) /\ Configured(c)
             /\ eval_config_'[c].run = eval_config_[c].run
             /\ \A e \in Numbers :
                  e \in Read(down[c][1]) \/ Lists(node_list_[c], eval_config_[c].run, e)
                    => Lists(node_list_'[c], eval_config_[c].run, e)
    <3>1. run \in 1 .. runs /\ run = eval_config_[c].run
      BY <1>8, <2>2, RunsEntered
    <3>2. id \in Numbers /\ Given(run, id)
      BY <1>2, <1>8, <3>1, NobodyJoins
    <3>3. Apart(c, 0 + 1, i + 1)
      BY <1>5, <1>8, <2>0
    <3>4. Apart(c, 0, i + 1)
      <4>1. \A j \in 0 + 1 .. (i + 1) - 1 : j = 1 \/ j \in (0 + 1) + 1 .. (i + 1) - 1
        OBVIOUS
      <4>2. QED BY <2>2, <3>3, <4>1 DEF Apart
    <3>5. i + 1 \in 1 .. Len(down[c]) /\ IsLastPage(down[c][i + 1])
      BY <1>3, <1>4, <1>8
    <3>6. Lists(node_list_[c], run, id) \/ ReadFrom(c, 0, i + 1, id)
      BY <2>2, <3>1, <3>2, <3>4, <3>5 DEF FindsPeers, PagesComplete
    <3>7. CASE ReadFrom(c, 0 + 1, i + 1, id)
      BY <1>6, <2>0, <3>7
    <3>8. CASE Lists(node_list_[c], run, id) \/ id \in Read(down[c][1])
      <4>1. PICK list : list = node_list_'[c]
        OBVIOUS
      <4>2. Lists(list, run, id)
        BY <2>2, <3>1, <3>2, <3>8, <4>1
      <4>3. Lists(list, run, id)'
        BY <1>1, <3>2, <4>2, ListsLast
      <4>4. QED BY <4>1, <4>3 DEF Lists, Id
    <3>9. ReadFrom(c, 0, i + 1, id) => id \in Read(down[c][1]) \/ ReadFrom(c, 0 + 1, i + 1, id)
      <4>1. \A j \in 0 + 1 .. i + 1 : j = 1 \/ j \in (0 + 1) + 1 .. i + 1
        OBVIOUS
      <4>2. QED BY <4>1 DEF ReadFrom
    <3>10. QED BY <3>6, <3>7, <3>8, <3>9
  <2>3. QED BY <1>8, <2>1, <2>2
<1>9. PagesFollow(c)'
  <2> SUFFICES ASSUME NEW i \in 1 .. Len(down'[c]), IsLastPage(down'[c][i]),
                      NEW g \in 1 .. i - 1, NEW id \in Numbers',
                      IsConfig(down'[c][g]), Apart(c, g, i)', Given(down[c][g].run, id)'
               PROVE  ReadFrom(c, g, i, id)'
    BY DEF PagesFollow, IsLastPage, IsConfig
  <2>1. PICK run : run = down'[c][g].run
    OBVIOUS
  <2>2. Given(run, id)' /\ \A j \in g + 1 .. i - 1 : ~ IsConfig(down'[c][j])
    BY <2>1 DEF Given, Id, Apart, IsConfig
  <2>3. i \in 1 .. n /\ g \in 0 .. i - 1 /\ down'[c][g] = down[c][g + 1]
    BY <1>3, <1>4
  <2>4. \E j \in g + 1 .. i : id \in Read(down'[c][j])
    BY <1>7, <2>1, <2>2, <2>3
  <2>5. QED BY <2>4 DEF ReadFrom, Read
<1>10. PagesComplete(c)'
  <2> SUFFICES ASSUME NEW i \in 1 .. Len(down'[c]), IsLastPage(down'[c][i]),
                      Configured(c)', Apart(c, 0, i)', NEW id \in Numbers',
                      Given(eval_config_[c].run, id)'
               PROVE  \/ Lists(node_list_[c], eval_config_[c].run, id)'
                      \/ ReadFrom(c, 0, i, id)'
    BY DEF PagesComplete, IsLastPage
  <2>1. PICK run : run = eval_config_'[c].run
    OBVIOUS
  <2>2. Given(run, id)' /\ \A j \in 1 .. i - 1 : ~ IsConfig(down'[c][j])
    BY <2>1 DEF Given, Id, Apart, IsConfig
  <2>3. Lists(node_list_[c], run, id)' \/ \E j \in 1 .. i : id \in Read(down'[c][j])
    BY <1>3, <1>8, <2>1, <2>2
  <2>4. CASE Lists(node_list_[c], run, id)'
    BY <2>1, <2>4 DEF Lists, Id
  <2>5. CASE \E j \in 1 .. i : id \in Read(down'[c][j])
    <3>1. ReadFrom(c, 0, i, id)'
      BY <2>5 DEF ReadFrom, Read
    <3>2. QED BY <3>1
  <2>6. QED BY <2>3, <2>4, <2>5
<1>11. QED BY <1>9, <1>10 DEF FindsPeers

\* A client at which nothing arrives and nothing is handled.
LEMMA PeersStay ==
    ASSUME RInv, [Next]_vars, NEW c \in Clients, FindsPeers(c), Keeps(c), down'[c] = down[c]
    PROVE  FindsPeers(c)'
<1>1. Len(down[c]) \in Nat
  BY LenProperties DEF RInv, Typed
<1>2. Len(<<>>) = 0 /\ <<>> \in Seq(Datagram)
  OBVIOUS
<1>3. ToSet(down[c])' = ToSet(down[c])
  BY DEF ToSet
<1>4. Joins(c, <<>>)
  BY <1>1, <1>2, <1>3 DEF Joins
<1>5. \A k \in 1 .. Len(<<>>) : ~ IsLastPage(<<>>[k])
  BY <1>2
<1>6. PICK s \in Seq(Datagram) :
        Joins(c, s) /\ \A k \in 1 .. Len(s) : ~ IsLastPage(s[k])
  BY <1>2, <1>4, <1>5
<1>7. QED BY <1>6, PeersJoin

\* A process that ends while nothing arrives: its pages go on following.
LEMMA PeersEnd ==
    ASSUME RInv, [Next]_vars, NEW c \in Clients, FindsPeers(c), down'[c] = down[c],
           ~ Configured(c)', \A t \in EvalTypes : managers'[c][t] = Nothing
    PROVE  FindsPeers(c)'
<1>1. Numbers' \subseteq Nat
  BY TypedStep, LenProperties DEF RInv, Typed, Numbers
<1>2. ManagerLists(c)' /\ PagesComplete(c)'
  BY DEF ManagerLists, PagesComplete
<1>3. DOMAIN down[c] = 1 .. Len(down[c]) /\ Len(down[c]) \in Nat
  BY LenProperties DEF RInv, Typed
<1>4. ASSUME NEW i \in 1 .. Len(down[c]), IsLastPage(down[c][i]),
             NEW g \in 1 .. i - 1, NEW id \in Numbers',
             IsConfig(down[c][g]), Apart(c, g, i), NEW run, run = down[c][g].run,
             Given(run, id)'
      PROVE  ReadFrom(c, g, i, id)
  <2>1. down[c][g] \in ToSet(down[c])
    <3>1. g \in DOMAIN down[c]
      BY <1>3
    <3>2. QED BY <3>1 DEF ToSet
  <2>2. run \in 1 .. runs
    BY <1>4, <2>1, RunsEntered
  <2>3. id \in Numbers /\ Given(run, id)
    BY <1>1, <1>4, <2>2, NobodyJoins
  <2>4. QED BY <1>4, <2>3 DEF FindsPeers, PagesFollow
<1>5. PagesFollow(c)'
  <2> SUFFICES ASSUME NEW i \in 1 .. Len(down'[c]), IsLastPage(down'[c][i]),
                      NEW g \in 1 .. i - 1, NEW id \in Numbers',
                      IsConfig(down'[c][g]), Apart(c, g, i)', Given(down[c][g].run, id)'
               PROVE  ReadFrom(c, g, i, id)'
    BY DEF PagesFollow, IsLastPage, IsConfig
  <2>1. PICK run : run = down'[c][g].run
    OBVIOUS
  <2>2. Given(run, id)' /\ Apart(c, g, i) /\ IsConfig(down[c][g]) /\ IsLastPage(down[c][i])
    BY <2>1 DEF Given, Id, Apart, IsConfig, IsLastPage
  <2>3. ReadFrom(c, g, i, id)
    BY <1>4, <2>1, <2>2
  <2>4. QED BY <2>3 DEF ReadFrom, Read
<1>6. QED BY <1>2, <1>5 DEF FindsPeers

\* A page is handled: the list it completes is the one a manager gets.
LEMMA PeersTable ==
    ASSUME RInv, [Next]_vars, NEW c \in Clients, FindsPeers(c), HandleTable(c)
    PROVE  FindsPeers(c)'
<1> DEFINE m == down[c][1]
           cfg == eval_config_[c]
           list == Listed(c, m)
<1>1. /\ MovesUp(c) /\ m.kind = "TABLE" /\ RightPage(m) /\ m \in Datagram
      /\ Configured(c) => node_list_'[c] = list
      /\ UNCHANGED eval_config_
  BY TableHandled
<1>2. \A t \in EvalTypes :
        IF Made(c) /\ t = cfg.type
        THEN /\ managers'[c][t] # Nothing
             /\ managers'[c][t].run = cfg.run
             /\ managers'[c][t].list = list
        ELSE managers'[c][t] = managers[c][t]
  BY TableHandled, Zenon
<1>3. Grows /\ Numbers' \subseteq Nat
  <2>1. Typed' /\ Grows
    BY TypedStep, GrowsStep DEF RInv
  <2>2. Numbers' \subseteq Nat
    BY <2>1, LenProperties DEF Typed, Numbers
  <2>3. QED BY <2>1, <2>2
<1>4. ASSUME Configured(c), NEW id \in Numbers,
             id \in Read(m) \/ Lists(node_list_[c], cfg.run, id)
      PROVE  Lists(list, cfg.run, id)
  BY <1>1, <1>4, ListedFinds
<1>5. PICK run : run = cfg.run
  OBVIOUS
<1>6. PICK l : l = list
  OBVIOUS
<1>7. ASSUME Configured(c), m.is_end, NEW id \in Numbers', Given(run, id)'
      PROVE  Lists(l, run, id)'
  <2>1. run \in 1 .. runs
    BY <1>5, <1>7, RunsEntered
  <2>2. id \in Numbers /\ Given(run, id)
    BY <1>3, <1>7, <2>1, NobodyJoins
  <2>3. 1 \in 1 .. Len(down[c]) /\ \A j \in 0 + 1 .. 1 - 1 : FALSE
    BY <1>1 DEF MovesUp
  <2>4. IsLastPage(down[c][1]) /\ Apart(c, 0, 1)
    BY <1>1, <1>7, <2>3 DEF IsLastPage, Apart
  <2>5. Lists(node_list_[c], run, id) \/ ReadFrom(c, 0, 1, id)
    BY <1>5, <1>7, <2>2, <2>3, <2>4 DEF FindsPeers, PagesComplete
  <2>6. \A j \in 0 + 1 .. 1 : j = 1
    OBVIOUS
  <2>7. Lists(node_list_[c], run, id) \/ id \in Read(m)
    BY <2>5, <2>6 DEF ReadFrom
  <2>8. Lists(l, run, id)
    BY <1>4, <1>5, <1>6, <1>7, <2>2, <2>7
  <2>9. QED BY <1>3, <2>2, <2>8, ListsLast
<1>8. ManagerLists(c)'
  <2> SUFFICES ASSUME NEW t \in EvalTypes, NEW id \in Numbers',
                      managers'[c][t] # Nothing, Given(managers[c][t].run, id)'
               PROVE  Lists(managers[c][t].list, managers[c][t].run, id)'
    BY DEF ManagerLists
  <2>1. CASE Made(c) /\ t = cfg.type
    <3>0. Configured(c) /\ m.is_end
      BY <2>1 DEF Made, m
    <3>1. managers'[c][t].run = run /\ managers'[c][t].list = l
      BY <1>2, <1>5, <1>6, <2>1, Zenon
    <3>2. Given(run, id)'
      BY <3>1 DEF Given, Id
    <3>3. Lists(l, run, id)'
      BY <1>7, <3>0, <3>2
    <3>4. QED BY <3>1, <3>3 DEF Lists, Id
  <2>2. CASE ~ (Made(c) /\ t = cfg.type)
    <3>1. managers'[c][t] = managers[c][t]
      BY <1>2, <2>2, Zenon
    <3>2. QED BY <3>1, ManagerLasts DEF FindsPeers
  <2>3. QED BY <2>1, <2>2
<1>9. ~ IsConfig(m) /\ (Configured(c)' <=> Configured(c)) /\ eval_config_'[c].run = cfg.run
  BY <1>1 DEF IsConfig, Configured
<1>10. Configured(c) => \A id \in Numbers :
          id \in Read(m) \/ Lists(node_list_[c], cfg.run, id)
            => Lists(node_list_'[c], cfg.run, id)
  BY <1>1, <1>4
<1>11. QED BY <1>1, <1>8, <1>9, <1>10, PeersMove

LEMMA PeersStep ==
    ASSUME RInv, PeersInv, [Next]_vars PROVE PeersInv'
<1>1. disturbed \subseteq disturbed'
  BY DEF Next, Operator, handle_config, handle_table, Order, Start, Crash, Handle,
         HandleConfig, HandleTable, HandleBroadcast, HandlePullLog, ServerReceive,
         Disturb, Vanish, vars, history
<1> SUFFICES ASSUME NEW d \in Clients \ disturbed' PROVE FindsPeers(d)'
  BY DEF PeersInv
<1>2. d \in Clients /\ FindsPeers(d) /\ Typed /\ IInv /\ Len(down[d]) \in Nat
  BY <1>1, LenProperties DEF PeersInv, RInv, Typed
<1>3. ASSUME Keeps(d), down'[d] = down[d] PROVE FindsPeers(d)'
  BY <1>2, <1>3, PeersStay
<1>4. CASE handle_config
  <2> DEFINE s == Configurations(d)
  <2>1. /\ runs \in Nat /\ runs + 1 \in 1 .. Len(Configs) /\ Joins(d, s)
    BY <1>2, <1>4, ConfigEffect
  <2>2. s \in Seq(Configuration) /\ \A i \in 1 .. Len(s) : IsConfig(s[i])
    BY <1>2, <2>1, ConfigurationsSent DEF Typed
  <2> HIDE DEF s
  <2>3. s \in Seq(Datagram)
    BY <2>2, SeqMonotonic DEF Datagram
  <2>4. \A i \in 1 .. Len(s) : ~ IsLastPage(s[i])
    BY <2>2 DEF IsConfig, IsLastPage
  <2>5. Keeps(d)
    BY <1>4 DEF handle_config, clientVars, Keeps
  <2>6. QED BY <1>2, <2>1, <2>3, <2>4, <2>5, PeersJoin
<1>5. CASE handle_table
  <2> DEFINE s == Tables(d)
  <2>1. Joins(d, s)
    BY <1>2, <1>5, TableEffect
  <2>2. /\ s \in Seq(Page)
        /\ \A i \in 1 .. Len(s) :
             /\ s[i].kind = "TABLE"
             /\ IsLastPage(s[i]) =>
                  \A id \in Numbers : \E k \in 1 .. i : id \in Read(s[k])
    BY <1>2, TablesSent DEF Typed
  <2> HIDE DEF s
  <2>3. s \in Seq(Datagram)
    BY <2>2, SeqMonotonic DEF Datagram
  <2>4. \A i \in 1 .. Len(s) : ~ IsConfig(s[i])
    BY <2>2 DEF IsConfig
  <2>5. Keeps(d)
    BY <1>5 DEF handle_table, clientVars, Keeps
  <2>6. QED BY <1>2, <2>1, <2>2, <2>3, <2>4, <2>5, PeersJoin
<1>6. ASSUME NEW i \in DOMAIN db, Order(i - 1, "BROADCAST") \/ Order(i - 1, "PULL_LOG")
      PROVE  FindsPeers(d)'
  <2>1. i \in Nat /\ (i - 1) + 1 = i
    BY <1>2, LenProperties DEF Typed
  <2>2. PICK c \in Clients, m \in AnOrder :
          Joins(c, <<m>>) /\ \A e \in Clients \ {c} : down'[e] = down[e]
    BY <1>2, <1>6, <2>1, OrderEffect
  <2>3. Keeps(d)
    BY <1>6 DEF Order, clientVars, Keeps
  <2>4. CASE d # c
    BY <1>2, <1>3, <2>2, <2>3, <2>4
  <2>5. CASE d = c
    <3>1. m \in Datagram /\ ~ IsLastPage(m)
      BY DEF AnOrder, Datagram, IsLastPage
    <3>2. PICK s : s = <<m>>
      OBVIOUS
    <3>3. s \in Seq(Datagram) /\ \A k \in 1 .. Len(s) : ~ IsLastPage(s[k])
      BY <3>1, <3>2
    <3>4. QED BY <1>2, <2>2, <2>3, <2>5, <3>2, <3>3, PeersJoin
  <2>6. QED BY <2>4, <2>5
<1>7. ASSUME NEW c \in Clients, HandleConfig(c) PROVE FindsPeers(d)'
  <2>1. /\ MovesUp(c) /\ IsConfig(down[c][1]) /\ eval_config_'[c].run = down[c][1].run
        /\ \A t \in EvalTypes : managers'[c][t] = Nothing
        /\ \A e \in Clients \ {c} : Keeps(e)
    BY <1>7, ConfigHandled
  <2>2. CASE d = c
    <3>1. ManagerLists(c)'
      BY <2>1 DEF ManagerLists
    <3>2. QED BY <1>2, <2>1, <2>2, <3>1, PeersMove
  <2>3. CASE d # c
    BY <1>2, <1>3, <2>1, <2>3 DEF MovesUp
  <2>4. QED BY <2>2, <2>3
<1>8. ASSUME NEW c \in Clients, HandleTable(c) PROVE FindsPeers(d)'
  <2>1. MovesUp(c) /\ \A e \in Clients \ {c} : Keeps(e)
    BY <1>8, TableHandled
  <2>2. CASE d = c
    BY <1>2, <1>8, <2>2, PeersTable
  <2>3. CASE d # c
    BY <1>2, <1>3, <2>1, <2>3 DEF MovesUp
  <2>4. QED BY <2>2, <2>3
\* What else makes the front move up.
<1>9. ASSUME NEW c \in Clients, MovesUp(c), Keeps(d),
             d = c => ~ Configured(d) \/ IsOrder(down[c][1])
      PROVE  FindsPeers(d)'
  <2>1. CASE d # c
    BY <1>2, <1>3, <1>9, <2>1 DEF MovesUp
  <2>2. CASE d = c
    <3>1. ManagerLists(d)'
      BY <1>2, <1>9, ManagersLast DEF FindsPeers, Keeps
    <3>2. Configured(d)' => Configured(d) /\ IsOrder(down[d][1])
      BY <1>9, <2>2 DEF Keeps, Configured
    <3>3. IsOrder(down[d][1]) => ~ IsConfig(down[d][1]) /\ Read(down[d][1]) = {}
      BY DEF IsOrder, IsConfig, Read
    <3>4. eval_config_'[d] = eval_config_[d] /\ node_list_'[d] = node_list_[d]
      BY <1>9 DEF Keeps
    <3>5. QED BY <1>2, <1>9, <2>2, <3>1, <3>2, <3>3, <3>4, PeersMove
  <2>3. QED BY <2>1, <2>2
<1>10. ASSUME NEW c \in Clients, HandleBroadcast(c) \/ HandlePullLog(c), ~ Ends(c)
       PROVE  FindsPeers(d)'
  <2>1. MovesUp(c) /\ IsOrder(down[c][1])
    BY <1>2, <1>10, TakesEffect DEF HandleBroadcast, HandlePullLog, IsOrder
  <2>2. UNCHANGED <<on, eval_config_, managers, node_list_>>
    BY <1>10 DEF HandleBroadcast, HandlePullLog, clientVars
  <2>3. Keeps(d)
    BY <2>2 DEF Keeps
  <2>4. QED BY <1>9, <2>1, <2>3
<1>11. ASSUME NEW c \in Clients, Crash(c) \/ HandlePullLog(c), Ends(c)
       PROVE  FindsPeers(d)'
  <2>1. /\ ~ Configured(c)' /\ \A t \in EvalTypes : managers'[c][t] = Nothing
        /\ \A e \in Clients \ {c} : Keeps(e)
    BY <1>2, <1>11, EndsEffect
  <2>2. CASE Crash(c)
    <3>1. down'[d] = down[d]
      BY <2>2 DEF Crash
    <3>2. QED BY <1>2, <1>3, <2>1, <3>1, PeersEnd
  <2>3. CASE HandlePullLog(c)
    <3>1. MovesUp(c)
      BY <1>2, <2>3, TakesEffect DEF HandlePullLog
    <3>2. CASE d = c
      <4>1. ManagerLists(c)'
        BY <2>1 DEF ManagerLists
      <4>2. QED BY <1>2, <2>1, <3>1, <3>2, <4>1, PeersMove
    <3>3. CASE d # c
      BY <1>2, <1>3, <2>1, <3>1, <3>3 DEF MovesUp
    <3>4. QED BY <3>2, <3>3
  <2>4. QED BY <1>11, <2>2, <2>3
<1>12. ASSUME NEW c \in Clients, Start(c) \/ ServerReceive(c) PROVE FindsPeers(d)'
  <2>1. Keeps(d) /\ down'[d] = down[d]
    BY <1>12 DEF Start, ServerReceive, clientVars, Keeps
  <2>2. QED BY <1>3, <2>1
<1>13. ASSUME NEW c \in Clients, Vanish(c) PROVE FindsPeers(d)'
  <2>1. MovesUp(c) /\ c \notin on
    BY <1>2, <1>13, TailEffect DEF Vanish
  <2>2. ~ Configured(c)
    BY <2>1 DEF RInv, Right, RightClient
  <2>3. Keeps(d)
    BY <1>13 DEF Vanish, clientVars, Keeps
  <2>4. QED BY <1>9, <2>1, <2>2, <2>3
<1>14. ASSUME NEW c \in Clients, Disturb(c) PROVE FindsPeers(d)'
  <2>1. disturbed' = disturbed \cup {c} /\ \A e \in Clients \ {c} : down'[e] = down[e]
    BY <1>2, <1>14, DisturbEffect
  <2>2. Keeps(d)
    BY <1>14 DEF Disturb, clientVars, Keeps
  <2>3. QED BY <1>2, <1>3, <2>1, <2>2
<1>15. CASE UNCHANGED vars
  BY <1>3, <1>15 DEF vars, clientVars, Keeps
<1>16. ASSUME NEW c \in Clients, Handle(c) PROVE FindsPeers(d)'
  <2>1. CASE HandleBroadcast(c) \/ HandlePullLog(c)
    <3>1. HandleBroadcast(c) => ~ Ends(c)
      BY DEF HandleBroadcast, Takes, Ends
    <3>2. QED BY <1>10, <1>11, <2>1, <3>1
  <2>2. QED BY <1>7, <1>8, <1>16, <2>1 DEF Handle
<1>17. ASSUME NEW c \in Clients, Crash(c) PROVE FindsPeers(d)'
  BY <1>11, <1>17 DEF Crash
<1>18. QED
  BY <1>4, <1>5, <1>6, <1>12, <1>13, <1>14, <1>15, <1>16, <1>17 DEF Next, Operator

(***************************************************************************)
(* Two clients that have managers of the same run find each other, in any *)
(* number of runs, of registrations and of pages: by the time a client has *)
(* read the last page it has read, since its configuration, an entry of    *)
(* everybody who got a number in its run; unless the network lost or       *)
(* swapped something on the way of one of them.                            *)
(***************************************************************************)
THEOREM PeersAreFound == Spec => []PeersFindEachOther
<1>1. Init => RInv /\ PeersInv
  <2> SUFFICES ASSUME Init PROVE RInv /\ PeersInv
    OBVIOUS
  <2>1. \A c \in Clients :
          down[c] = <<>> /\ ~ Configured(c) /\ \A t \in EvalTypes : managers[c][t] = Nothing
    BY DEF Init, Configured
  <2>2. ASSUME NEW c \in Clients PROVE FindsPeers(c)
    <3>1. ManagerLists(c)
      BY <2>1 DEF ManagerLists
    <3>2. \A i \in 1 .. Len(down[c]) : FALSE
      BY <2>1
    <3>3. PagesFollow(c) /\ PagesComplete(c)
      BY <3>2 DEF PagesFollow, PagesComplete
    <3>4. QED BY <3>1, <3>3 DEF FindsPeers
  <2>3. QED BY <2>2, RightAtFirst DEF PeersInv
<1>2. RInv /\ PeersInv /\ [Next]_vars => (RInv /\ PeersInv)'
  BY RightStep, PeersStep
<1>3. RInv /\ PeersInv => PeersFindEachOther
  <2> SUFFICES ASSUME RInv, PeersInv, NEW c \in Clients \ disturbed,
                      NEW d \in Clients \ disturbed, NEW t \in EvalTypes,
                      managers[c][t] # Nothing, managers[d][t] # Nothing,
                      managers[c][t].run = managers[d][t].run
               PROVE  /\ managers[d][t].self \in DOMAIN managers[c][t].list
                      /\ managers[c][t].list[managers[d][t].self] = d
    BY DEF PeersFindEachOther
  <2>1. Configured(d) /\ eval_config_[d].run = managers[d][t].run
    BY DEF RInv, IInv, OneManager, Configured
  <2>2. managers[d][t].self = eval_config_[d].str_node_id
    BY DEF RInv, Right, RightClient
  <2>3. PICK id \in Numbers :
          db[id + 1] = d /\ eval_config_[d].str_node_id = Id(id, eval_config_[d].run)
    BY <2>1 DEF RInv, Right, RightClient
  <2>4. Given(managers[c][t].run, id)
    BY <2>1, <2>3 DEF Given
  <2>5. Lists(managers[c][t].list, managers[c][t].run, id)
    BY <2>4 DEF PeersInv, FindsPeers, ManagerLists
  <2>6. QED BY <2>1, <2>2, <2>3, <2>5 DEF Lists
<1>4. QED BY <1>1, <1>2, <1>3, PTL DEF Spec

-----------------------------------------------------------------------------
(***************************************************************************)
(* Parts of sequences: FlattenSeq is a recursive function; what it gives is *)
(* found prefix by prefix.                                                 *)
(***************************************************************************)
\* f is the function FlattenSeq recurs on, as far as n.
Chained(s, n, f) == f = [i \in 1 .. n |-> IF i = 1 THEN s[i] ELSE f[i - 1] \o s[i]]

\* There is such a function for every sequence.
LEMMA ChainExists ==
    ASSUME NEW s, NEW n \in Nat
    PROVE  \E f : Chained(s, n, f)
<1> DEFINE S == {k \in Nat : \E f : Chained(s, k, f)}
<1>1. 0 \in S
  <2>1. Chained(s, 0, [i \in 1 .. 0 |-> s[i]])
    BY DEF Chained
  <2>2. QED BY <2>1
<1>2. ASSUME NEW k \in Nat, k \in S PROVE k + 1 \in S
  <2>1. PICK f : Chained(s, k, f)
    BY <1>2
  <2> DEFINE last == IF k = 0 THEN s[1] ELSE f[k] \o s[k + 1]
             g == [i \in 1 .. k + 1 |-> IF i = k + 1 THEN last ELSE f[i]]
  <2>2. f = [i \in 1 .. k |-> IF i = 1 THEN s[i] ELSE f[i - 1] \o s[i]]
    BY <2>1 DEF Chained
  <2>3. ASSUME NEW i \in 1 .. k + 1
        PROVE  g[i] = IF i = 1 THEN s[i] ELSE g[i - 1] \o s[i]
    <3>1. CASE i = k + 1
      <4>1. g[i] = last
        BY <3>1
      <4>2. CASE k = 0
        BY <3>1, <4>1, <4>2
      <4>3. CASE k # 0
        <5>1. i # 1 /\ i - 1 = k /\ k \in 1 .. k + 1 /\ k # k + 1
          BY <3>1, <4>3
        <5>2. g[i - 1] = f[k]
          BY <5>1
        <5> HIDE DEF g
        <5>3. QED BY <3>1, <4>1, <4>3, <5>1, <5>2
      <4>4. QED BY <4>2, <4>3
    <3>2. CASE i # k + 1
      <4>1. i \in 1 .. k /\ g[i] = f[i]
        BY <3>2
      <4>2. f[i] = IF i = 1 THEN s[i] ELSE f[i - 1] \o s[i]
        BY <2>2, <4>1
      <4>3. ASSUME i # 1 PROVE g[i - 1] = f[i - 1]
        BY <4>1, <4>3
      <4> HIDE DEF g
      <4>4. QED BY <4>1, <4>2, <4>3
    <3>3. QED BY <3>1, <3>2
  <2>4. Chained(s, k + 1, g)
    <3>1. g = [i \in 1 .. k + 1 |-> g[i]]
      OBVIOUS
    <3> HIDE DEF g
    <3>2. QED BY <2>3, <3>1 DEF Chained
  <2>5. QED BY <2>4
<1>3. Nat \subseteq S
  <2> HIDE DEF S
  <2> QED BY <1>1, <1>2, Counted
<1>4. QED BY <1>3

\* What FlattenSeq(s) is.
LEMMA FlattenIs ==
    ASSUME NEW s, Len(s) \in Nat
    PROVE  IF Len(s) = 0 THEN FlattenSeq(s) = s
           ELSE \E f : Chained(s, Len(s), f) /\ FlattenSeq(s) = f[Len(s)]
<1> SUFFICES ASSUME Len(s) # 0
             PROVE  \E f : Chained(s, Len(s), f) /\ FlattenSeq(s) = f[Len(s)]
  BY DEF FlattenSeq
<1> DEFINE n == Len(s)
           F == CHOOSE f : f = [i \in 1 .. n |-> IF i = 1 THEN s[i] ELSE f[i - 1] \o s[i]]
<1>1. \E f : Chained(s, n, f)
  BY ChainExists
<1>2. Chained(s, n, F)
  BY <1>1 DEF Chained
<1>3. FlattenSeq(s) = F[n]
  BY DEF FlattenSeq
<1> HIDE DEF F
<1>4. QED BY <1>2, <1>3

\* P[i] is what the first i parts of s make together.
BuildsUp(s, P) == P[0] = <<>> /\ \A i \in 1 .. Len(s) : P[i] = P[i - 1] \o s[i]

\* FlattenSeq gives the last of the prefixes.
LEMMA FlattenPrefixes ==
    ASSUME NEW R, NEW s \in Seq(Seq(R)), NEW P, BuildsUp(s, P)
    PROVE  /\ FlattenSeq(s) = P[Len(s)]
           /\ \A i \in 0 .. Len(s) : P[i] \in Seq(R)
<1>1. Len(s) \in Nat /\ \A i \in 1 .. Len(s) : s[i] \in Seq(R)
  BY LenProperties, ElementOfSeq
<1> DEFINE S == {i \in Nat : i <= Len(s) => P[i] \in Seq(R)}
<1>2. 0 \in S
  BY EmptySeq DEF BuildsUp
<1>3. ASSUME NEW i \in Nat, i \in S PROVE i + 1 \in S
  <2> SUFFICES ASSUME i + 1 <= Len(s) PROVE P[i + 1] \in Seq(R)
    OBVIOUS
  <2>1. i + 1 \in 1 .. Len(s) /\ (i + 1) - 1 = i /\ P[i] \in Seq(R)
    BY <1>1, <1>3
  <2>2. P[i + 1] = P[i] \o s[i + 1] /\ s[i + 1] \in Seq(R)
    BY <1>1, <2>1 DEF BuildsUp
  <2>3. QED BY <2>1, <2>2, ConcatProperties
<1>4. Nat \subseteq S
  <2> HIDE DEF S
  <2> QED BY <1>2, <1>3, Counted
<1>5. \A i \in 0 .. Len(s) : P[i] \in Seq(R)
  BY <1>1, <1>4
<1>6. CASE Len(s) = 0
  <2>1. FlattenSeq(s) = s
    BY <1>6, FlattenIs
  <2>2. s = <<>>
    BY <1>6, EmptySeq
  <2>3. QED BY <1>5, <1>6, <2>1, <2>2 DEF BuildsUp
<1>7. CASE Len(s) # 0
  <2>1. PICK f : Chained(s, Len(s), f) /\ FlattenSeq(s) = f[Len(s)]
    BY <1>1, <1>7, FlattenIs
  <2>2. \A i \in 1 .. Len(s) : f[i] = IF i = 1 THEN s[i] ELSE f[i - 1] \o s[i]
    BY <2>1 DEF Chained
  <2> DEFINE T == {i \in Nat : i + 1 <= Len(s) => f[i + 1] = P[i + 1]}
  <2>3. 0 \in T
    <3>1. 1 \in 1 .. Len(s) /\ 1 - 1 = 0
      BY <1>1, <1>7
    <3>2. P[1] = <<>> \o s[1] /\ s[1] \in Seq(R)
      BY <1>1, <3>1 DEF BuildsUp
    <3>3. P[1] = s[1]
      BY <3>2, ConcatEmptySeq
    <3>4. f[1] = s[1]
      BY <2>2, <3>1
    <3>5. QED BY <3>3, <3>4
  <2>4. ASSUME NEW i \in Nat, i \in T PROVE i + 1 \in T
    <3> SUFFICES ASSUME (i + 1) + 1 <= Len(s) PROVE f[(i + 1) + 1] = P[(i + 1) + 1]
      OBVIOUS
    <3> DEFINE j == (i + 1) + 1
    <3>1. j \in 1 .. Len(s) /\ j - 1 = i + 1 /\ j # 1 /\ f[i + 1] = P[i + 1]
      BY <1>1, <2>4
    <3> HIDE DEF j
    <3>2. f[j] = f[j - 1] \o s[j] /\ P[j] = P[j - 1] \o s[j]
      BY <2>2, <3>1 DEF BuildsUp
    <3>3. f[j] = P[j]
      BY <3>1, <3>2
    <3>4. QED BY <3>3 DEF j
  <2>5. Nat \subseteq T
    <3> HIDE DEF T
    <3> QED BY <2>3, <2>4, Counted
  <2>6. Len(s) - 1 \in Nat /\ (Len(s) - 1) + 1 = Len(s)
    BY <1>1, <1>7
  <2>7. f[Len(s)] = P[Len(s)]
    <3>1. Len(s) - 1 \in T
      BY <2>5, <2>6
    <3>2. (Len(s) - 1) + 1 <= Len(s)
      BY <1>1, <2>6
    <3>3. f[(Len(s) - 1) + 1] = P[(Len(s) - 1) + 1]
      BY <3>1, <3>2
    <3>4. QED BY <2>6, <3>3
  <2>8. QED BY <1>5, <2>1, <2>7
<1>8. QED BY <1>6, <1>7

\* There always are such prefixes.
LEMMA PrefixesExist ==
    ASSUME NEW R, NEW s \in Seq(Seq(R))
    PROVE  \E P : BuildsUp(s, P)
<1>1. Len(s) \in Nat /\ \A i \in 1 .. Len(s) : s[i] \in Seq(R)
  BY LenProperties, ElementOfSeq
<1>2. PICK f : Chained(s, Len(s), f)
  BY <1>1, ChainExists
<1> DEFINE P == [i \in 0 .. Len(s) |-> IF i = 0 THEN <<>> ELSE f[i]]
<1>3. \A i \in 1 .. Len(s) : f[i] = IF i = 1 THEN s[i] ELSE f[i - 1] \o s[i]
  BY <1>2 DEF Chained
<1>4. ASSUME NEW i \in 1 .. Len(s) PROVE P[i] = P[i - 1] \o s[i]
  <2>1. i \in 0 .. Len(s) /\ i - 1 \in 0 .. Len(s) /\ P[i] = f[i]
    BY <1>1
  <2>2. CASE i = 1
    <3>1. P[i - 1] = <<>> /\ f[i] = s[i] /\ s[i] \in Seq(R)
      BY <1>1, <1>3, <2>1, <2>2
    <3> HIDE DEF P
    <3>2. QED BY <2>1, <3>1, ConcatEmptySeq
  <2>3. CASE i # 1
    <3>1. f[i] = f[i - 1] \o s[i]
      BY <1>3, <2>3
    <3>2. P[i - 1] = f[i - 1]
      <4>1. i - 1 # 0
        BY <1>1, <2>3
      <4>2. QED BY <2>1, <4>1
    <3> HIDE DEF P
    <3>3. QED BY <2>1, <3>1, <3>2
  <2>4. QED BY <2>2, <2>3
<1>5. P[0] = <<>>
  BY <1>1
<1> HIDE DEF P
<1>6. QED BY <1>4, <1>5 DEF BuildsUp

\* Concatenation is associative.
LEMMA Regroup ==
    ASSUME NEW R, NEW a \in Seq(R), NEW b \in Seq(R), NEW c \in Seq(R)
    PROVE  a \o (b \o c) = (a \o b) \o c
BY ConcatAssociative

\* Parts of rows make rows.
LEMMA FlattenType ==
    ASSUME NEW R, NEW s \in Seq(Seq(R))
    PROVE  FlattenSeq(s) \in Seq(R)
<1>1. PICK P : BuildsUp(s, P)
  BY PrefixesExist
<1>2. Len(s) \in 0 .. Len(s)
  BY LenProperties
<1>3. QED BY <1>1, <1>2, FlattenPrefixes

\* Two rows of parts, one after the other.
LEMMA FlattenConcat ==
    ASSUME NEW R, NEW s \in Seq(Seq(R)), NEW t \in Seq(Seq(R))
    PROVE  FlattenSeq(s \o t) = FlattenSeq(s) \o FlattenSeq(t)
<1> DEFINE m == Len(s)
           n == Len(t)
           u == s \o t
<1>1. m \in Nat /\ n \in Nat /\ u \in Seq(Seq(R)) /\ Len(u) = m + n
      /\ (\A i \in 1 .. m : u[i] = s[i])
      /\ (\A i \in m + 1 .. m + n : u[i] = t[i - m])
  BY ConcatKeeps
<1>2. PICK P : BuildsUp(s, P)
  BY PrefixesExist
<1>3. PICK Q : BuildsUp(t, Q)
  BY PrefixesExist
<1>4. FlattenSeq(s) = P[m] /\ \A i \in 0 .. m : P[i] \in Seq(R)
  BY <1>2, FlattenPrefixes
<1>5. FlattenSeq(t) = Q[n] /\ \A i \in 0 .. n : Q[i] \in Seq(R)
  BY <1>3, FlattenPrefixes
<1>6. \A i \in 1 .. n : t[i] \in Seq(R)
  BY ElementOfSeq
<1>7. /\ P[0] = <<>> /\ \A i \in 1 .. m : P[i] = P[i - 1] \o s[i]
      /\ Q[0] = <<>> /\ \A i \in 1 .. n : Q[i] = Q[i - 1] \o t[i]
  BY <1>2, <1>3 DEF BuildsUp
<1> DEFINE U == [i \in 0 .. m + n |-> IF i <= m THEN P[i] ELSE P[m] \o Q[i - m]]
<1> HIDE DEF m, n, u
<1>8. U[0] = <<>>
  BY <1>1, <1>7
<1>9. U[m + n] = P[m] \o Q[n]
  <2>1. m + n \in 0 .. m + n /\ (m + n) - m = n /\ m \in 0 .. m
    BY <1>1
  <2>2. CASE n = 0
    <3>1. U[m + n] = P[m]
      BY <1>1, <2>1, <2>2
    <3>2. P[m] \o Q[n] = P[m]
      BY <1>4, <1>7, <2>1, <2>2, ConcatEmptySeq
    <3>3. QED BY <3>1, <3>2
  <2>3. CASE n # 0
    <3>1. ~ m + n <= m
      BY <1>1, <2>3
    <3>2. ASSUME NEW k \in 0 .. m + n, ~ k <= m PROVE U[k] = P[m] \o Q[k - m]
      BY <3>2
    <3> HIDE DEF U
    <3>3. U[m + n] = P[m] \o Q[(m + n) - m]
      BY <2>1, <3>1, <3>2, Zenon
    <3>4. U[m + n] = P[m] \o Q[n]
      BY <2>1, <3>3, Zenon
    <3>5. QED BY <3>4
  <2>4. QED BY <2>2, <2>3
<1>10. ASSUME NEW i \in 1 .. m + n PROVE U[i] = U[i - 1] \o u[i]
  <2>1. i \in 0 .. m + n /\ i - 1 \in 0 .. m + n
    BY <1>1
  <2>2. CASE i <= m
    <3>1. i \in 1 .. m /\ U[i] = P[i] /\ U[i - 1] = P[i - 1]
      BY <1>1, <2>1, <2>2
    <3> HIDE DEF U
    <3>2. QED BY <1>1, <1>7, <3>1
  <2>3. CASE ~ i <= m
    <3> DEFINE j == i - m
    <3>1. j \in 1 .. n /\ i \in m + 1 .. m + n /\ i - 1 - m = j - 1 /\ m \in 0 .. m
          /\ j - 1 \in 0 .. n
      BY <1>1, <2>3
    <3>2. U[i] = P[m] \o Q[j] /\ u[i] = t[j]
      BY <1>1, <2>1, <2>3, <3>1
    <3>3. U[i - 1] = P[m] \o Q[j - 1]
      <4>1. CASE i - 1 = m
        <5>1. U[i - 1] = P[m] /\ j - 1 = 0
          BY <2>1, <3>1, <4>1
        <5>2. P[m] \o Q[0] = P[m]
          BY <1>4, <1>7, <3>1, ConcatEmptySeq
        <5>3. QED BY <5>1, <5>2
      <4>2. CASE i - 1 # m
        <5>1. ~ i - 1 <= m
          BY <1>1, <2>3, <4>2
        <5>2. QED BY <2>1, <3>1, <5>1
      <4>3. QED BY <4>1, <4>2
    <3> HIDE DEF U, j
    <3>4. Q[j] = Q[j - 1] \o t[j]
      BY <1>7, <3>1
    <3>5. P[m] \in Seq(R) /\ Q[j - 1] \in Seq(R) /\ t[j] \in Seq(R)
      BY <1>4, <1>5, <1>6, <3>1 DEF n
    <3>6. P[m] \o (Q[j - 1] \o t[j]) = (P[m] \o Q[j - 1]) \o t[j]
      <4>1. \A a, b, c \in Seq(R) : a \o (b \o c) = (a \o b) \o c
        BY Regroup
      <4>2. QED BY <3>5, <4>1, Zenon
    <3>7. QED BY <3>2, <3>3, <3>4, <3>6
  <2>4. QED BY <2>2, <2>3
<1> HIDE DEF U
<1>11. BuildsUp(u, U)
  BY <1>1, <1>8, <1>10 DEF BuildsUp
<1>12. FlattenSeq(u) = U[m + n]
  BY <1>1, <1>11, FlattenPrefixes
<1>13. QED BY <1>4, <1>5, <1>9, <1>12 DEF u

\* A single part is the whole.
LEMMA FlattenSingle ==
    ASSUME NEW R, NEW x \in Seq(R)
    PROVE  FlattenSeq(<<x>>) = x
<1> DEFINE s == <<x>>
           P == [i \in 0 .. 1 |-> IF i = 0 THEN <<>> ELSE x]
<1>1. s \in Seq(Seq(R)) /\ Len(s) = 1 /\ s[1] = x
  OBVIOUS
<1>2. <<>> \o x = x
  BY ConcatEmptySeq
<1>3. P[0] = <<>> /\ P[1] = x
  OBVIOUS
<1> HIDE DEF s, P
<1>4. BuildsUp(s, P)
  <2>1. ASSUME NEW i \in 1 .. Len(s) PROVE P[i] = P[i - 1] \o s[i]
    <3>1. i = 1 /\ i - 1 = 0
      BY <1>1
    <3>2. QED BY <1>1, <1>2, <1>3, <3>1
  <2>2. QED BY <1>3, <2>1 DEF BuildsUp
<1>5. QED BY <1>1, <1>3, <1>4, FlattenPrefixes DEF s

\* The pages of a log are the log.
LEMMA PagesAreLog ==
    ASSUME NEW R, NEW rows \in Seq(R)
    PROVE  /\ LogPages(rows) \in Seq(Seq(R))
           /\ FlattenSeq(LogPages(rows)) = rows
<1> DEFINE d == LogPage
           size == Len(rows)
           n == (size + d - 1) \div d
           s == LogPages(rows)
           e(i) == Min({i * d, size})
           P == [i \in 0 .. n |-> SubSeq(rows, 1, e(i))]
<1>1. d \in Nat \ {0} /\ size \in Nat /\ \A i \in 1 .. size : rows[i] \in R
  BY BootstrapAssumption, LenProperties, ElementOfSeq
<1>2. n \in Nat /\ n * d \in Nat /\ size <= n * d /\ n * d < size + d
  BY <1>1, RoundedUp
<1>3. \A a \in Int, b \in Int : Min({a, b}) = IF a <= b THEN a ELSE b
  BY DEF Min
<1>4. s = [i \in 1 .. n |-> SubSeq(rows, (i - 1) * d + 1, e(i))]
  BY DEF LogPages
<1> HIDE DEF d, size, n, s
<1>5. ASSUME NEW i \in 0 .. n PROVE e(i) \in 0 .. size /\ i * d \in Nat
  <2>1. i * d \in Nat
    BY <1>1, <1>2
  <2>2. QED BY <1>1, <1>3, <2>1
<1>6. ASSUME NEW i \in 1 .. n
      PROVE  e(i - 1) = (i - 1) * d /\ e(i - 1) <= e(i) /\ (i - 1) * d \in Nat
  <2>1. i - 1 \in Nat /\ i \in Nat /\ i <= n /\ i - 1 \in 0 .. n /\ i \in 0 .. n
    BY <1>2
  <2>2. i * d \in Nat /\ (i - 1) * d \in Nat /\ i * d = (i - 1) * d + d
    BY <1>1, <2>1
  <2>3. i * d <= n * d
    BY <1>1, <1>2, <2>1, ProductGrows
  <2>4. (i - 1) * d < size /\ (i - 1) * d <= i * d
    BY <1>1, <1>2, <2>2, <2>3
  <2>5. QED BY <1>1, <1>3, <2>2, <2>4
<1>7. e(0) = 0 /\ e(n) = size
  <2>1. 0 * d = 0 /\ 0 <= size
    BY <1>1
  <2>2. QED BY <1>1, <1>2, <1>3, <2>1
<1> HIDE DEF e
<1>8. ASSUME NEW i \in 1 .. n PROVE s[i] \in Seq(R) /\ P[i] = P[i - 1] \o s[i]
  <2>1. i \in 0 .. n /\ i - 1 \in 0 .. n
    BY <1>2
  <2>2. s[i] = SubSeq(rows, e(i - 1) + 1, e(i))
    BY <1>4, <1>6
  <2>3. P[i] = SubSeq(rows, 1, e(i)) /\ P[i - 1] = SubSeq(rows, 1, e(i - 1))
    BY <2>1
  <2>4. e(i - 1) \in 0 .. size /\ e(i) \in e(i - 1) .. size /\ 1 \in 1 .. size + 1
        /\ e(i - 1) \in 1 - 1 .. size
    BY <1>1, <1>5, <1>6, <2>1
  <2>5. SubSeq(rows, 1, e(i - 1)) \o SubSeq(rows, e(i - 1) + 1, e(i)) = SubSeq(rows, 1, e(i))
    BY <2>4, ConcatAdjacentSubSeq DEF size
  <2>6. s[i] \in Seq(R)
    <3>1. e(i - 1) + 1 \in Int /\ e(i) \in Int
          /\ \A j \in e(i - 1) + 1 .. e(i) : rows[j] \in R
      BY <1>1, <2>4
    <3>2. QED BY <2>2, <3>1, SubSeqProperties
  <2> HIDE DEF P
  <2>7. QED BY <2>2, <2>3, <2>5, <2>6
<1>9. s \in Seq(Seq(R)) /\ Len(s) = n
  <2>1. s \in [1 .. n -> Seq(R)]
    BY <1>4, <1>8
  <2>2. QED BY <1>2, <2>1
<1>10. P[0] = <<>> /\ P[n] = rows
  <2>1. SubSeq(rows, 1, 0) = <<>>
    BY SubSeqEmpty
  <2>2. SubSeq(rows, 1, size) = rows
    BY SubSeqFull DEF size
  <2>3. QED BY <1>2, <1>7, <2>1, <2>2
<1> HIDE DEF P
<1>11. BuildsUp(s, P)
  BY <1>8, <1>9, <1>10 DEF BuildsUp
<1>12. QED BY <1>9, <1>10, <1>11, FlattenPrefixes DEF s

-----------------------------------------------------------------------------
(***************************************************************************)
(* Logs: what a client has uploaded, in the server's files or on its way.  *)
(* A file goes by a run and an id, and so belongs to one client.           *)
(***************************************************************************)
\* Rows of logs, and what clients upload.
Row == Clients \X Nat
Upload == [kind : {"INIT"}] \cup
          [kind : {"PUSH_LOG"}, key : {<<run, Id(id, run)>> : run \in Nat, id \in Nat},
           log : Seq(Row)]

\* Files of rows.
Files(files) == \A key \in DOMAIN files : files[key] \in Seq(Row)

\* A log goes by a run that was entered and a number its client has.
Owns(c, key) ==
    \E id \in Numbers, run \in 1 .. runs : db[id + 1] = c /\ key = <<run, Id(id, run)>>

\* Everything that holds rows does.
LogsTyped ==
    /\ up \in [Clients -> Seq(Upload)] /\ Files(filed)
    /\ log = [c \in Clients |-> log[c]] /\ pulled = [c \in Clients |-> pulled[c]]
    /\ \A c \in Clients : Files(log[c]) /\ Files(pulled[c])

\* Nothing is filed or on its way that was not pulled.
LogsOwned ==
    /\ \A c \in Clients : \A key \in DOMAIN pulled[c] : Owns(c, key)
    /\ \A c \in Clients : \A m \in ToSet(up[c]) :
        m.kind = "PUSH_LOG" => m.key \in DOMAIN pulled[c]
    /\ \A key \in DOMAIN filed : \E c \in Clients : key \in DOMAIN pulled[c]

LogsInv == LogsTyped /\ LogsOwned /\ LogsWhole

\* The rows a datagram brings for a file, and those that a sequence brings.
PartOf(m, key) == IF m.kind = "PUSH_LOG" /\ m.key = key THEN m.log ELSE <<>>
Parts(q, key) == [i \in DOMAIN q |-> PartOf(q[i], key)]

\* Part by part.
LEMMA PartsType ==
    ASSUME NEW q \in Seq(Upload), NEW key
    PROVE  /\ Parts(q, key) \in Seq(Seq(Row)) /\ Len(Parts(q, key)) = Len(q)
           /\ Len(q) \in Nat /\ \A i \in 1 .. Len(q) : Parts(q, key)[i] = PartOf(q[i], key)
<1>1. /\ DOMAIN q = 1 .. Len(q) /\ Len(q) \in Nat
      /\ \A i \in 1 .. Len(q) : q[i] \in Upload
  BY LenProperties, ElementOfSeq
<1>2. ASSUME NEW m \in Upload PROVE PartOf(m, key) \in Seq(Row)
  <2>1. m.kind = "PUSH_LOG" => m.log \in Seq(Row)
    BY DEF Upload
  <2>2. QED BY <2>1, EmptySeq DEF PartOf
<1>3. Parts(q, key) \in [1 .. Len(q) -> Seq(Row)]
  BY <1>1, <1>2 DEF Parts
<1>4. \A i \in 1 .. Len(q) : Parts(q, key)[i] = PartOf(q[i], key)
  BY <1>1 DEF Parts
<1>5. Parts(q, key) \in Seq(Seq(Row)) /\ Len(Parts(q, key)) = Len(q)
  BY <1>1, <1>3
<1>6. QED BY <1>1, <1>4, <1>5

\* What is on the way in two sequences is on the way in one after the other.
LEMMA PartsConcat ==
    ASSUME NEW q \in Seq(Upload), NEW r \in Seq(Upload), NEW key
    PROVE  FlattenSeq(Parts(q \o r, key))
               = FlattenSeq(Parts(q, key)) \o FlattenSeq(Parts(r, key))
<1> DEFINE m == Len(q)
           n == Len(r)
           u == q \o r
           a == Parts(q, key)
           b == Parts(r, key)
           c == Parts(u, key)
<1>1. /\ m \in Nat /\ n \in Nat /\ u \in Seq(Upload) /\ Len(u) = m + n
      /\ (\A i \in 1 .. m : u[i] = q[i])
      /\ (\A i \in m + 1 .. m + n : u[i] = r[i - m])
  BY ConcatKeeps
<1>2. /\ a \in Seq(Seq(Row)) /\ Len(a) = m /\ \A i \in 1 .. m : a[i] = PartOf(q[i], key)
      /\ b \in Seq(Seq(Row)) /\ Len(b) = n /\ \A i \in 1 .. n : b[i] = PartOf(r[i], key)
      /\ c \in Seq(Seq(Row)) /\ Len(c) = m + n
      /\ \A i \in 1 .. m + n : c[i] = PartOf(u[i], key)
  BY <1>1, PartsType
<1>3. /\ a \o b \in Seq(Seq(Row)) /\ Len(a \o b) = m + n
      /\ \A i \in 1 .. m : (a \o b)[i] = a[i]
      /\ \A i \in m + 1 .. m + n : (a \o b)[i] = b[i - m]
  <2> HIDE DEF m, n, a, b
  <2>1. /\ a \o b \in Seq(Seq(Row)) /\ Len(a \o b) = Len(a) + Len(b)
        /\ \A i \in 1 .. Len(a) : (a \o b)[i] = a[i]
        /\ \A i \in Len(a) + 1 .. Len(a) + Len(b) : (a \o b)[i] = b[i - Len(a)]
    BY <1>2, ConcatKeeps
  <2>2. QED BY <1>2, <2>1, Zenon
<1> DEFINE ab == a \o b
<1> HIDE DEF m, n, u, a, b, c, ab
<1>4. \A i \in 1 .. m + n : c[i] = ab[i]
  <2> SUFFICES ASSUME NEW i \in 1 .. m + n PROVE c[i] = ab[i]
    OBVIOUS
  <2>1. CASE i <= m
    <3>1. i \in 1 .. m
      BY <1>1, <2>1
    <3>2. QED BY <1>1, <1>2, <1>3, <3>1 DEF ab
  <2>2. CASE ~ i <= m
    <3>1. i \in m + 1 .. m + n /\ i - m \in 1 .. n
      BY <1>1, <2>2
    <3>2. QED BY <1>1, <1>2, <1>3, <3>1 DEF ab
  <2>3. QED BY <2>1, <2>2
<1>5. c = ab
  BY <1>2, <1>3, <1>4, SeqEqual DEF ab
<1>6. FlattenSeq(ab) = FlattenSeq(a) \o FlattenSeq(b)
  BY <1>2, FlattenConcat DEF ab
<1>7. QED BY <1>5, <1>6 DEF u, a, b, c

\* No part, no row.
LEMMA NoParts ==
    ASSUME NEW q \in Seq(Upload), NEW key,
           \A m \in ToSet(q) : m.kind = "PUSH_LOG" => m.key # key
    PROVE  FlattenSeq(Parts(q, key)) = <<>>
<1> DEFINE s == Parts(q, key)
           P == [i \in 0 .. Len(q) |-> <<>>]
<1>1. /\ s \in Seq(Seq(Row)) /\ Len(s) = Len(q) /\ Len(q) \in Nat
      /\ \A i \in 1 .. Len(q) : s[i] = PartOf(q[i], key)
  BY PartsType
<1>2. DOMAIN q = 1 .. Len(q)
  BY LenProperties
<1>3. \A i \in 1 .. Len(q) : s[i] = <<>>
  BY <1>1, <1>2 DEF ToSet, PartOf
<1>4. \A i \in 0 .. Len(q) : P[i] = <<>>
  OBVIOUS
<1> HIDE DEF s, P
<1>5. ASSUME NEW i \in 1 .. Len(s) PROVE P[i] = P[i - 1] \o s[i]
  <2>1. i \in 0 .. Len(q) /\ i - 1 \in 0 .. Len(q)
    BY <1>1
  <2>2. P[i] = <<>> /\ P[i - 1] = <<>> /\ s[i] = <<>>
    BY <1>1, <1>3, <1>4, <2>1
  <2>3. <<>> \o <<>> = <<>>
    BY EmptySeq, ConcatEmptySeq
  <2>4. QED BY <2>2, <2>3, Zenon
<1>6. BuildsUp(s, P) /\ Len(s) \in 0 .. Len(q)
  <2>1. 0 \in 0 .. Len(q) /\ Len(s) \in 0 .. Len(q)
    BY <1>1
  <2>2. QED BY <1>4, <1>5, <2>1 DEF BuildsUp
<1>7. QED BY <1>1, <1>4, <1>6, FlattenPrefixes DEF s

\* What a single datagram brings.
LEMMA OnePart ==
    ASSUME NEW m \in Upload, NEW key
    PROVE  FlattenSeq(Parts(<<m>>, key)) = PartOf(m, key)
<1> DEFINE q == <<m>>
           s == Parts(q, key)
<1>1. q \in Seq(Upload) /\ Len(q) = 1 /\ q[1] = m
  OBVIOUS
<1>2. s \in Seq(Seq(Row)) /\ Len(s) = 1 /\ s[1] = PartOf(m, key)
  <2> HIDE DEF q
  <2>1. 1 \in 1 .. 1
    OBVIOUS
  <2>2. QED BY <1>1, <2>1, PartsType
<1>3. s[1] \in Seq(Row)
  <2>1. 1 \in 1 .. Len(s)
    BY <1>2
  <2> HIDE DEF s
  <2>2. QED BY <1>2, <2>1, ElementOfSeq
<1>4. s = <<PartOf(m, key)>>
  <2> HIDE DEF s
  <2>1. s = <<s[1]>>
    BY <1>2
  <2>2. QED BY <1>2, <2>1
<1>5. QED BY <1>2, <1>3, <1>4, FlattenSingle

\* The first part and the others.
LEMMA FirstPart ==
    ASSUME NEW q \in Seq(Upload), q # <<>>, NEW key
    PROVE  FlattenSeq(Parts(q, key)) = PartOf(Head(q), key) \o FlattenSeq(Parts(Tail(q), key))
<1>1. Head(q) \in Upload /\ Tail(q) \in Seq(Upload) /\ <<Head(q)>> \in Seq(Upload)
  BY HeadTailProperties
<1>2. q = <<Head(q)>> \o Tail(q)
  <2> DEFINE n == Len(q)
  <2>1. n \in Nat \ {0} /\ SubSeq(q, 1, n) = q
    BY EmptySeq, SubSeqFull
  <2>2. 1 \in 1 .. n /\ n \in 1 .. n /\ Tail(q) = SubSeq(q, 2, n) /\ Head(q) = q[1]
    BY <2>1, TailIsSubSeq
  <2>3. SubSeq(q, 1, n) = <<q[1]>> \o SubSeq(q, 1 + 1, n)
    BY <2>2, SubSeqRecursiveFirst
  <2>4. 1 + 1 = 2
    OBVIOUS
  <2> HIDE DEF n
  <2>5. QED BY <2>1, <2>2, <2>3, <2>4, Zenon
<1>3. FlattenSeq(Parts(<<Head(q)>> \o Tail(q), key))
          = FlattenSeq(Parts(<<Head(q)>>, key)) \o FlattenSeq(Parts(Tail(q), key))
  BY <1>1, PartsConcat
<1>4. FlattenSeq(Parts(<<Head(q)>>, key)) = PartOf(Head(q), key)
  BY <1>1, OnePart
<1>5. QED BY <1>2, <1>3, <1>4, Zenon

\* A client keeps its numbers.
LEMMA OwnsLasts ==
    ASSUME Grows, NEW c, NEW key, Owns(c, key)
    PROVE  Owns(c, key)'
<1>1. PICK id \in Numbers, run \in 1 .. runs : db[id + 1] = c /\ key = <<run, Id(id, run)>>
  BY DEF Owns
<1>2. id \in Numbers' /\ db'[id + 1] = c /\ run \in 1 .. runs'
  BY <1>1 DEF Grows
<1>3. QED BY <1>1, <1>2 DEF Owns, Id

\* No two clients have a log of the same name.
LEMMA OneOwner ==
    ASSUME Typed, NEW c, NEW d, NEW key, Owns(c, key), Owns(d, key)
    PROVE  c = d
<1>1. PICK i \in Numbers, run \in 1 .. runs : db[i + 1] = c /\ key = <<run, Id(i, run)>>
  BY DEF Owns
<1>2. PICK j \in Numbers, other \in 1 .. runs : db[j + 1] = d /\ key = <<other, Id(j, other)>>
  BY DEF Owns
<1>3. run = other /\ Id(i, run) = Id(j, run)
  BY <1>1, <1>2
<1>4. run \in DOMAIN Configs /\ i \in Nat /\ j \in Nat
  BY RunsAreConfigs
<1>5. QED BY <1>1, <1>2, <1>3, <1>4, IdsTell

\* A file holds rows, and none if it does not exist.
LEMMA RowsType ==
    ASSUME NEW files, Files(files), NEW key
    PROVE  Rows(files, key) \in Seq(Row)
BY EmptySeq DEF Files, Rows

\* Writing adds rows to one file.
LEMMA Written ==
    ASSUME NEW files, Files(files), NEW key, NEW rows \in Seq(Row)
    PROVE  /\ Files(Write(files, key, rows))
           /\ DOMAIN Write(files, key, rows) = DOMAIN files \cup {key}
           /\ Rows(Write(files, key, rows), key) = Rows(files, key) \o rows
           /\ \A k : k # key => Rows(Write(files, key, rows), k) = Rows(files, k)
<1> DEFINE all == Rows(files, key) \o rows
           f == Write(files, key, rows)
<1>1. all \in Seq(Row)
  BY RowsType, ConcatProperties
<1>3. f = [k \in DOMAIN files \cup {key} |-> IF k = key THEN all ELSE files[k]]
  BY DEF Write
<1> HIDE DEF all, f
<1>4. DOMAIN f = DOMAIN files \cup {key} /\ f[key] = all
      /\ \A k \in DOMAIN files : k # key => f[k] = files[k]
  BY <1>3
<1>5. Files(f)
  BY <1>1, <1>4 DEF Files
<1>6. Rows(f, key) = all /\ \A k : k # key => Rows(f, k) = Rows(files, k)
  BY <1>4 DEF Rows
<1>7. QED BY <1>4, <1>5, <1>6 DEF f, all

\* The rows on the way, now and after a step.
LEMMA InFlightParts ==
    ASSUME NEW c, NEW key
    PROVE  InFlight(c, key) = FlattenSeq(Parts(up[c], key))
BY DEF InFlight, Parts, PartOf

LEMMA InFlightPartsThen ==
    ASSUME NEW c, NEW key
    PROVE  InFlight(c, key)' = FlattenSeq(Parts(up'[c], key))
BY DEF InFlight, Parts, PartOf

\* A step away from the uploads.
LEMMA LogsStay ==
    ASSUME LogsInv, Grows, UNCHANGED <<up, filed, pulled>>, disturbed \subseteq disturbed',
           log' = [c \in Clients |-> log'[c]], \A c \in Clients : Files(log'[c])
    PROVE  LogsInv'
<1>1. LogsTyped'
  BY DEF LogsInv, LogsTyped, Files
<1>2. LogsOwned'
  BY OwnsLasts DEF LogsInv, LogsOwned, ToSet
<1>3. LogsWhole'
  <2> SUFFICES ASSUME NEW c \in Clients \ disturbed', NEW key \in DOMAIN pulled[c]
               PROVE  Rows(filed, key) \o InFlight(c, key)' = pulled[c][key]
    BY DEF LogsWhole
  <2>1. InFlight(c, key)' = InFlight(c, key)
    BY InFlightParts, InFlightPartsThen
  <2>2. QED BY <2>1 DEF LogsInv, LogsWhole
<1>4. QED BY <1>1, <1>2, <1>3 DEF LogsInv

\* Something comes at the end of what a client has on its way.
LEMMA UploadJoins ==
    ASSUME LogsInv, NEW c \in Clients, NEW r \in Seq(Upload),
           up' = [up EXCEPT ![c] = @ \o r]
    PROVE  /\ up' \in [Clients -> Seq(Upload)]
           /\ \A d \in Clients \ {c} : up'[d] = up[d]
           /\ \A m \in ToSet(up[c])' : m \in ToSet(up[c]) \/ m \in ToSet(r)
           /\ \A key : InFlight(c, key)' = InFlight(c, key) \o FlattenSeq(Parts(r, key))
           /\ \A d \in Clients \ {c} : \A key : InFlight(d, key)' = InFlight(d, key)
<1> DEFINE q == up[c]
           u == q \o r
<1>1. up \in [Clients -> Seq(Upload)] /\ q \in Seq(Upload)
  BY DEF LogsInv, LogsTyped
<1>2. /\ u \in Seq(Upload) /\ Len(q) \in Nat /\ Len(r) \in Nat /\ Len(u) = Len(q) + Len(r)
      /\ \A i \in 1 .. Len(q) : u[i] = q[i]
      /\ \A i \in Len(q) + 1 .. Len(q) + Len(r) : u[i] = r[i - Len(q)]
  BY <1>1, ConcatKeeps
<1>3. up' = [up EXCEPT ![c] = u]
  OBVIOUS
<1>4. DOMAIN u = 1 .. Len(u) /\ DOMAIN q = 1 .. Len(q) /\ DOMAIN r = 1 .. Len(r)
  BY <1>1, <1>2, LenProperties
<1> HIDE DEF u
<1>5. up' \in [Clients -> Seq(Upload)] /\ up'[c] = u /\ \A d \in Clients \ {c} : up'[d] = up[d]
  BY <1>1, <1>2, <1>3
<1>6. \A m \in ToSet(u) : m \in ToSet(q) \/ m \in ToSet(r)
  <2> SUFFICES ASSUME NEW i \in 1 .. Len(u) PROVE u[i] \in ToSet(q) \/ u[i] \in ToSet(r)
    BY <1>4 DEF ToSet
  <2>1. CASE i \in 1 .. Len(q)
    BY <1>2, <1>4, <2>1 DEF ToSet
  <2>2. CASE i \notin 1 .. Len(q)
    <3>1. i \in Len(q) + 1 .. Len(q) + Len(r) /\ i - Len(q) \in 1 .. Len(r)
      BY <1>2, <2>2
    <3>2. QED BY <1>2, <1>4, <3>1 DEF ToSet
  <2>3. QED BY <2>1, <2>2
<1>7. ToSet(up[c])' = ToSet(u)
  BY <1>5 DEF ToSet
<1>8. ASSUME NEW key
      PROVE  InFlight(c, key)' = InFlight(c, key) \o FlattenSeq(Parts(r, key))
  <2>1. FlattenSeq(Parts(u, key)) = FlattenSeq(Parts(q, key)) \o FlattenSeq(Parts(r, key))
    BY <1>1, PartsConcat DEF u
  <2>2. InFlight(c, key) = FlattenSeq(Parts(q, key))
        /\ InFlight(c, key)' = FlattenSeq(Parts(u, key))
    BY <1>5, InFlightParts, InFlightPartsThen
  <2>3. QED BY <2>1, <2>2
<1>9. ASSUME NEW d \in Clients \ {c}, NEW key PROVE InFlight(d, key)' = InFlight(d, key)
  BY <1>5, InFlightParts, InFlightPartsThen
<1>10. QED BY <1>5, <1>6, <1>7, <1>8, <1>9

\* Rows are on the way.
LEMMA InFlightType ==
    ASSUME LogsInv, NEW c \in Clients, NEW key
    PROVE  InFlight(c, key) \in Seq(Row)
<1>1. up[c] \in Seq(Upload)
  BY DEF LogsInv, LogsTyped
<1>2. Parts(up[c], key) \in Seq(Seq(Row))
  BY <1>1, PartsType
<1>3. QED BY <1>2, FlattenType, InFlightParts

\* A client that starts leaves its logs alone.
LEMMA LogsAtStart ==
    ASSUME LogsInv, Grows, NEW c \in Clients, Start(c)
    PROVE  LogsInv'
<1> DEFINE m == [kind |-> "INIT"]
           r == <<m>>
<1>1. UNCHANGED <<filed, pulled, log, disturbed>> /\ up' = [up EXCEPT ![c] = Append(@, m)]
  BY DEF Start, serverVars
<1>2. m \in Upload /\ r \in Seq(Upload)
  BY DEF Upload
<1>3. up' = [up EXCEPT ![c] = @ \o r]
  <2>1. up[c] \in Seq(Upload)
    BY DEF LogsInv, LogsTyped
  <2>2. Append(up[c], m) = up[c] \o r
    BY <1>2, <2>1, AppendIsConcat
  <2>3. QED BY <1>1, <2>2
<1>4. /\ up' \in [Clients -> Seq(Upload)]
      /\ \A d \in Clients \ {c} : up'[d] = up[d]
      /\ \A x \in ToSet(up[c])' : x \in ToSet(up[c]) \/ x \in ToSet(r)
      /\ \A key : InFlight(c, key)' = InFlight(c, key) \o FlattenSeq(Parts(r, key))
      /\ \A d \in Clients \ {c} : \A key : InFlight(d, key)' = InFlight(d, key)
  <2> HIDE DEF r
  <2> QED BY <1>2, <1>3, UploadJoins
<1>5. \A x \in ToSet(r) : x.kind = "INIT"
  BY DEF ToSet
<1> HIDE DEF m, r
<1>6. \A d \in Clients : \A key : InFlight(d, key)' = InFlight(d, key)
  <2> SUFFICES ASSUME NEW key PROVE InFlight(c, key)' = InFlight(c, key)
    BY <1>4
  <2>1. FlattenSeq(Parts(r, key)) = <<>>
    BY <1>2, <1>5, NoParts
  <2>2. InFlight(c, key)' = InFlight(c, key) \o <<>>
    BY <1>4, <2>1
  <2>3. QED BY <2>2, InFlightType, ConcatEmptySeq
<1>7. LogsTyped'
  BY <1>1, <1>4 DEF LogsInv, LogsTyped, Files
<1>8. LogsOwned'
  <2>1. \A d \in Clients : \A x \in ToSet(up[d])' :
            x.kind = "PUSH_LOG" => x.key \in DOMAIN pulled[d]
    <3> SUFFICES ASSUME NEW d \in Clients, NEW x \in ToSet(up[d])', x.kind = "PUSH_LOG"
                 PROVE  x.key \in DOMAIN pulled[d]
      OBVIOUS
    <3>1. x \in ToSet(up[d])
      <4>1. CASE d = c
        <5>1. x.kind # "INIT"
          OBVIOUS
        <5>2. QED BY <1>4, <1>5, <4>1, <5>1
      <4>2. CASE d # c
        BY <1>4, <4>2 DEF ToSet
      <4>3. QED BY <4>1, <4>2
    <3>2. QED BY <3>1 DEF LogsInv, LogsOwned
  <2>2. QED BY <1>1, <2>1, OwnsLasts DEF LogsInv, LogsOwned
<1>9. LogsWhole'
  <2> SUFFICES ASSUME NEW d \in Clients \ disturbed, NEW key \in DOMAIN pulled[d]
               PROVE  Rows(filed, key) \o InFlight(d, key)' = pulled[d][key]
    BY <1>1 DEF LogsWhole
  <2>1. InFlight(d, key)' = InFlight(d, key)
    BY <1>6
  <2>2. QED BY <2>1 DEF LogsInv, LogsWhole
<1>10. QED BY <1>7, <1>8, <1>9 DEF LogsInv

\* The name of the log a client with a manager uploads is its own.
LEMMA OwnLog ==
    ASSUME RInv, NEW c \in Clients, HasManager(c)
    PROVE  Owns(c, Key(Manager(c)))
<1> DEFINE cfg == eval_config_[c]
<1>1. PICK t \in EvalTypes : managers[c][t] # Nothing
  BY DEF HasManager
<1>2. cfg # Nothing /\ cfg.type = t /\ cfg.run = managers[c][t].run
  BY <1>1 DEF RInv, IInv, OneManager
<1>3. Manager(c) = managers[c][t]
  BY <1>2 DEF Manager
<1>4. /\ cfg.run \in 1 .. runs
      /\ \E id \in Numbers : db[id + 1] = c /\ cfg.str_node_id = Id(id, cfg.run)
      /\ managers[c][t].self = cfg.str_node_id
  BY <1>1, <1>2 DEF RInv, Right, RightClient, Configured
<1>5. Key(Manager(c)) = <<cfg.run, cfg.str_node_id>>
  BY <1>2, <1>3, <1>4 DEF Key
<1> HIDE DEF cfg
<1>6. QED BY <1>4, <1>5 DEF Owns

\* send_push_log: the pages that join what is on the way make up the log.
LEMMA LogsPulled ==
    ASSUME RInv, LogsInv, Grows, NEW c \in Clients, HandlePullLog(c), HasManager(c)
    PROVE  LogsInv'
<1> DEFINE key == Key(Manager(c))
           rows == Rows(log[c], key)
           pages == LogPages(rows)
           r == [i \in DOMAIN pages |-> [kind |-> "PUSH_LOG", key |-> key, log |-> pages[i]]]
           had == pulled[c]
<1>1. /\ up' = [up EXCEPT ![c] = @ \o r]
      /\ pulled' = [pulled EXCEPT ![c] = Write(@, key, rows)]
      /\ UNCHANGED <<filed, log, disturbed, runs, db>>
  BY DEF HandlePullLog, serverVars, clientVars
<1>2. Owns(c, key)
  BY OwnLog
<1>3. rows \in Seq(Row)
  <2> HIDE DEF key
  <2>1. Files(log[c])
    BY DEF LogsInv, LogsTyped
  <2>2. QED BY <2>1, RowsType
<1>4. pages \in Seq(Seq(Row)) /\ FlattenSeq(pages) = rows
  <2> HIDE DEF rows
  <2> QED BY <1>3, PagesAreLog
<1>5. Files(had) /\ pulled' = [pulled EXCEPT ![c] = Write(had, key, rows)]
      /\ pulled = [d \in Clients |-> pulled[d]]
  BY <1>1 DEF LogsInv, LogsTyped
<1> HIDE DEF key, rows, pages, had
<1>6. r \in Seq(Upload) /\ \A k : Parts(r, k) = IF k = key THEN pages ELSE Parts(r, k)
  <2>1. /\ Len(pages) \in Nat /\ DOMAIN pages = 1 .. Len(pages)
        /\ \A i \in 1 .. Len(pages) : pages[i] \in Seq(Row)
    BY <1>4, LenProperties, ElementOfSeq
  <2>2. key \in {<<run, Id(id, run)>> : run \in Nat, id \in Nat}
    <3>1. PICK id \in Numbers, run \in 1 .. runs : key = <<run, Id(id, run)>>
      BY <1>2 DEF Owns
    <3>2. id \in Nat /\ run \in Nat
      BY RunsAreConfigs DEF RInv
    <3>3. QED BY <3>1, <3>2
  <2>3. ASSUME NEW i \in 1 .. Len(pages)
        PROVE  r[i] \in Upload /\ r[i].kind = "PUSH_LOG" /\ r[i].key = key /\ r[i].log = pages[i]
    <3>1. r[i] = [kind |-> "PUSH_LOG", key |-> key, log |-> pages[i]]
      BY <2>1
    <3> HIDE DEF r
    <3>2. QED BY <2>1, <2>2, <3>1 DEF Upload
  <2>4. r \in Seq(Upload)
    <3>1. r \in [1 .. Len(pages) -> Upload]
      BY <2>1, <2>3
    <3> HIDE DEF r
    <3>2. QED BY <2>1, <3>1
  <2>5. Parts(r, key) = pages
    <3>1. DOMAIN r = 1 .. Len(pages)
      BY <2>1
    <3>2. Len(r) = Len(pages)
      BY <2>1, <2>4, <3>1, LenProperties
    <3> HIDE DEF r
    <3> DEFINE q == Parts(r, key)
    <3>3. q \in Seq(Seq(Row)) /\ Len(q) = Len(pages)
          /\ \A i \in 1 .. Len(pages) : q[i] = PartOf(r[i], key)
      BY <2>4, <3>2, PartsType
    <3>4. \A i \in 1 .. Len(pages) : q[i] = pages[i]
      BY <2>3, <3>3 DEF PartOf
    <3> HIDE DEF q
    <3>5. q = pages
      BY <1>4, <3>3, <3>4, SeqEqual
    <3>6. QED BY <3>5 DEF q
  <2> HIDE DEF r
  <2>6. QED BY <2>4, <2>5
<1>7. \A m \in ToSet(r) : m.kind = "PUSH_LOG" /\ m.key = key
  BY DEF ToSet
<1> HIDE DEF r
<1>8. /\ up' \in [Clients -> Seq(Upload)]
      /\ \A d \in Clients \ {c} : up'[d] = up[d]
      /\ \A x \in ToSet(up[c])' : x \in ToSet(up[c]) \/ x \in ToSet(r)
      /\ \A k : InFlight(c, k)' = InFlight(c, k) \o FlattenSeq(Parts(r, k))
      /\ \A d \in Clients \ {c} : \A k : InFlight(d, k)' = InFlight(d, k)
  BY <1>1, <1>6, UploadJoins
<1>9. /\ FlattenSeq(Parts(r, key)) = rows
      /\ \A k : k # key => FlattenSeq(Parts(r, k)) = <<>>
  <2>1. \A k : k # key => FlattenSeq(Parts(r, k)) = <<>>
    BY <1>6, <1>7, NoParts
  <2>2. Parts(r, key) = pages
    BY <1>6
  <2>3. QED BY <1>4, <2>1, <2>2
<1> DEFINE has == Write(had, key, rows)
<1>10. /\ Files(has) /\ DOMAIN has = DOMAIN had \cup {key}
       /\ Rows(has, key) = Rows(had, key) \o rows
       /\ \A k : k # key => Rows(has, k) = Rows(had, k)
  <2>1. Files(had) /\ rows \in Seq(Row)
    BY <1>3, <1>5
  <2>2. Files(has) /\ DOMAIN has = DOMAIN had \cup {key}
    BY <2>1, Written
  <2>3. Rows(has, key) = Rows(had, key) \o rows
    BY <2>1, Written
  <2>4. \A k : k # key => Rows(has, k) = Rows(had, k)
    BY <2>1, Written
  <2>5. QED BY <2>2, <2>3, <2>4
<1> HIDE DEF has
<1>11. /\ pulled'[c] = has /\ \A d \in Clients \ {c} : pulled'[d] = pulled[d]
       /\ pulled' = [d \in Clients |-> pulled'[d]]
  BY <1>5 DEF has
<1>12. LogsTyped'
  <2>1. Files(filed)' /\ \A d \in Clients : Files(log[d])'
    BY <1>1 DEF LogsInv, LogsTyped, Files
  <2>2. log' = [d \in Clients |-> log'[d]]
    BY <1>1 DEF LogsInv, LogsTyped
  <2>3. ASSUME NEW d \in Clients PROVE Files(pulled[d])'
    <3>1. CASE d = c
      BY <1>10, <1>11, <3>1 DEF Files
    <3>2. CASE d # c
      BY <1>11, <3>2 DEF LogsInv, LogsTyped, Files
    <3>3. QED BY <3>1, <3>2
  <2>4. QED BY <1>8, <1>11, <2>1, <2>2, <2>3 DEF LogsTyped
<1>13. \A d \in Clients : DOMAIN pulled[d] \subseteq DOMAIN pulled'[d]
  BY <1>10, <1>11 DEF had
<1>14. LogsOwned'
  <2>1. ASSUME NEW d \in Clients, NEW k \in DOMAIN pulled'[d] PROVE Owns(d, k)'
    <3>1. CASE k \in DOMAIN pulled[d]
      BY <3>1, OwnsLasts DEF LogsInv, LogsOwned
    <3>2. CASE k \notin DOMAIN pulled[d]
      <4>1. d = c /\ k = key
        BY <1>10, <1>11, <3>2 DEF had
      <4>2. QED BY <1>2, <4>1, OwnsLasts
    <3>3. QED BY <3>1, <3>2
  <2>2. ASSUME NEW d \in Clients, NEW m \in ToSet(up[d])', m.kind = "PUSH_LOG"
        PROVE  m.key \in DOMAIN pulled'[d]
    <3>1. CASE m \in ToSet(up[d])
      <4>1. m.key \in DOMAIN pulled[d]
        BY <2>2, <3>1 DEF LogsInv, LogsOwned
      <4>2. QED BY <1>13, <4>1
    <3>2. CASE m \notin ToSet(up[d])
      <4>1. d = c
        BY <1>8, <3>2 DEF ToSet
      <4>2. m.key = key
        BY <1>7, <1>8, <3>2, <4>1
      <4>3. QED BY <1>10, <1>11, <4>1, <4>2
    <3>3. QED BY <3>1, <3>2
  <2>3. \A k \in DOMAIN filed' : \E d \in Clients : k \in DOMAIN pulled'[d]
    BY <1>1, <1>13 DEF LogsInv, LogsOwned
  <2>4. QED BY <2>1, <2>2, <2>3 DEF LogsOwned
<1>15. LogsWhole'
  <2> SUFFICES ASSUME NEW d \in Clients \ disturbed, NEW k \in DOMAIN pulled'[d]
               PROVE  Rows(filed, k) \o InFlight(d, k)' = pulled'[d][k]
    BY <1>1 DEF LogsWhole
  <2>1. CASE d # c
    <3>1. k \in DOMAIN pulled[d] /\ pulled'[d][k] = pulled[d][k] /\ InFlight(d, k)' = InFlight(d, k)
      BY <1>8, <1>11, <2>1
    <3>2. QED BY <3>1 DEF LogsInv, LogsWhole
  <2>2. CASE d = c /\ k # key
    <3>1. k \in DOMAIN had /\ pulled'[d][k] = had[k]
      BY <1>10, <1>11, <2>2 DEF Rows
    <3>2. InFlight(c, k)' = InFlight(c, k) \o <<>>
      BY <1>8, <1>9, <2>2
    <3>3. InFlight(c, k)' = InFlight(c, k)
      BY <3>2, InFlightType, ConcatEmptySeq
    <3>4. Rows(filed, k) \o InFlight(c, k) = had[k]
      BY <2>2, <3>1 DEF LogsInv, LogsWhole, had
    <3>5. QED BY <2>2, <3>1, <3>3, <3>4
  <2>3. CASE d = c /\ k = key
    <3>1. pulled'[d][k] = Rows(had, key) \o rows
      BY <1>10, <1>11, <2>3 DEF Rows
    <3>2. InFlight(c, k)' = InFlight(c, key) \o rows
      BY <1>8, <1>9, <2>3
    <3>3. Rows(filed, key) \o InFlight(c, key) = Rows(had, key)
      <4>1. CASE key \in DOMAIN had
        <5>1. Rows(had, key) = had[key]
          BY <4>1 DEF Rows
        <5>2. Rows(filed, key) \o InFlight(c, key) = had[key]
          BY <2>3, <4>1 DEF LogsInv, LogsWhole, had
        <5>3. QED BY <5>1, <5>2
      <4>2. CASE key \notin DOMAIN had
        <5>1. key \notin DOMAIN filed
          <6> SUFFICES ASSUME key \in DOMAIN filed PROVE FALSE
            OBVIOUS
          <6>1. PICK e \in Clients : key \in DOMAIN pulled[e]
            BY DEF LogsInv, LogsOwned
          <6>2. Owns(e, key)
            BY <6>1 DEF LogsInv, LogsOwned
          <6>3. e = c
            BY <1>2, <6>2, OneOwner DEF RInv
          <6>4. QED BY <4>2, <6>1, <6>3 DEF had
        <5>2. InFlight(c, key) = <<>>
          <6>1. up[c] \in Seq(Upload)
            BY DEF LogsInv, LogsTyped
          <6>2. \A m \in ToSet(up[c]) : m.kind = "PUSH_LOG" => m.key # key
            BY <4>2 DEF LogsInv, LogsOwned, had
          <6>3. QED BY <6>1, <6>2, NoParts, InFlightParts
        <5>3. Rows(filed, key) = <<>> /\ Rows(had, key) = <<>>
          BY <4>2, <5>1 DEF Rows
        <5>4. <<>> \o <<>> = <<>>
          BY EmptySeq, ConcatEmptySeq
        <5>5. QED BY <5>2, <5>3, <5>4, Zenon
      <4>3. QED BY <4>1, <4>2
    <3>4. Rows(filed, key) \in Seq(Row) /\ InFlight(c, key) \in Seq(Row)
      BY RowsType, InFlightType DEF LogsInv, LogsTyped
    <3>5. Rows(filed, key) \o (InFlight(c, key) \o rows)
              = (Rows(filed, key) \o InFlight(c, key)) \o rows
      <4>1. \A a, b, e \in Seq(Row) : a \o (b \o e) = (a \o b) \o e
        BY Regroup
      <4>2. QED BY <1>3, <3>4, <4>1, Zenon
    <3>6. QED BY <2>3, <3>1, <3>2, <3>3, <3>5, Zenon
  <2>4. QED BY <2>1, <2>2, <2>3
<1>16. QED BY <1>12, <1>14, <1>15 DEF LogsInv

\* The server registers a client, or files what is first on its way.
LEMMA LogsReceived ==
    ASSUME RInv, LogsInv, Grows, NEW c \in Clients, ServerReceive(c)
    PROVE  LogsInv'
<1> DEFINE q == up[c]
           m == Head(q)
<1>1. /\ q \in Seq(Upload) /\ q # <<>> /\ up' = [up EXCEPT ![c] = Tail(q)]
      /\ up \in [Clients -> Seq(Upload)]
      /\ UNCHANGED <<runs, log, disturbed, pulled>>
      /\ \/ m.kind = "INIT" /\ UNCHANGED filed
         \/ m.kind # "INIT" /\ filed' = Write(filed, m.key, m.log)
  BY DEF ServerReceive, LogsInv, LogsTyped, clientVars, history
<1>2. /\ Tail(q) \in Seq(Upload) /\ m \in Upload
      /\ m \in ToSet(q) /\ ToSet(Tail(q)) \subseteq ToSet(q)
  <2>1. /\ Tail(q) \in Seq(Upload) /\ Len(q) \in Nat \ {0} /\ Len(Tail(q)) = Len(q) - 1
        /\ Head(q) = q[1] /\ q[1] \in Upload
        /\ \A i \in 1 .. Len(q) - 1 : Tail(q)[i] = q[i + 1]
    BY <1>1, TailMovesUp
  <2>2. DOMAIN q = 1 .. Len(q) /\ DOMAIN Tail(q) = 1 .. Len(q) - 1
    BY <1>1, <2>1, LenProperties
  <2>3. 1 \in DOMAIN q /\ \A i \in DOMAIN Tail(q) : i + 1 \in DOMAIN q
    BY <2>1, <2>2
  <2>4. QED BY <2>1, <2>2, <2>3 DEF ToSet
<1>3. /\ up' \in [Clients -> Seq(Upload)] /\ up'[c] = Tail(q)
      /\ \A d \in Clients \ {c} : up'[d] = up[d]
  BY <1>1, <1>2
<1>4. ASSUME NEW d \in Clients PROVE ToSet(up[d])' \subseteq ToSet(up[d])
  <2>1. CASE d = c
    <3>1. ToSet(up[d])' = ToSet(Tail(q))
      BY <1>3, <2>1 DEF ToSet
    <3>2. QED BY <1>2, <2>1, <3>1
  <2>2. CASE d # c
    BY <1>3, <2>2 DEF ToSet
  <2>3. QED BY <2>1, <2>2
<1>5. \A d \in Clients \ {c} : \A k : InFlight(d, k)' = InFlight(d, k)
  BY <1>3, InFlightParts, InFlightPartsThen
<1>6. \A k : InFlight(c, k) = PartOf(m, k) \o InFlight(c, k)'
  BY <1>1, <1>3, FirstPart, InFlightParts, InFlightPartsThen
<1>7. \A k : InFlight(c, k)' \in Seq(Row)
  <2> SUFFICES ASSUME NEW k PROVE InFlight(c, k)' \in Seq(Row)
    OBVIOUS
  <2>1. Parts(Tail(q), k) \in Seq(Seq(Row))
    BY <1>2, PartsType
  <2>2. QED BY <1>3, <2>1, FlattenType, InFlightPartsThen
<1> HIDE DEF m
<1>8. CASE m.kind = "INIT"
  <2>1. UNCHANGED filed
    BY <1>1, <1>8
  <2>2. ASSUME NEW k PROVE InFlight(c, k)' = InFlight(c, k)
    <3>1. PartOf(m, k) = <<>>
      BY <1>8 DEF PartOf
    <3>2. InFlight(c, k) = <<>> \o InFlight(c, k)'
      BY <1>6, <3>1
    <3>3. QED BY <1>7, <3>2, ConcatEmptySeq
  <2>3. LogsTyped'
    BY <1>1, <1>3, <2>1 DEF LogsInv, LogsTyped, Files
  <2>4. LogsOwned'
    BY <1>1, <1>4, <2>1, OwnsLasts DEF LogsInv, LogsOwned
  <2>5. LogsWhole'
    <3> SUFFICES ASSUME NEW d \in Clients \ disturbed, NEW k \in DOMAIN pulled[d]
                 PROVE  Rows(filed', k) \o InFlight(d, k)' = pulled[d][k]
      BY <1>1 DEF LogsWhole
    <3>1. Rows(filed, k) \o InFlight(d, k) = pulled[d][k]
      BY DEF LogsInv, LogsWhole
    <3>2. InFlight(d, k)' = InFlight(d, k)
      BY <1>5, <2>2
    <3>3. QED BY <2>1, <3>1, <3>2
  <2>6. QED BY <2>3, <2>4, <2>5 DEF LogsInv
<1>9. CASE m.kind # "INIT"
  <2>0. PICK key, rows : key = m.key /\ rows = m.log
    OBVIOUS
  <2>1. m.kind = "PUSH_LOG" /\ rows \in Seq(Row)
    BY <1>2, <1>9, <2>0 DEF Upload
  <2>2. key \in DOMAIN pulled[c]
    BY <1>2, <2>0, <2>1 DEF LogsInv, LogsOwned
  <2>3. filed' = Write(filed, key, rows)
    BY <1>1, <1>9, <2>0
  <2>4. /\ Files(filed') /\ DOMAIN filed' = DOMAIN filed \cup {key}
        /\ Rows(filed', key) = Rows(filed, key) \o rows
        /\ \A k : k # key => Rows(filed', k) = Rows(filed, k)
    <3>1. Files(filed)
      BY DEF LogsInv, LogsTyped
    <3> DEFINE f == Write(filed, key, rows)
    <3>2. rows \in Seq(Row)
      BY <2>1
    <3>3. Files(f) /\ DOMAIN f = DOMAIN filed \cup {key}
      BY <3>1, <3>2, Written
    <3>4. Rows(f, key) = Rows(filed, key) \o rows
      BY <3>1, <3>2, Written
    <3>5. \A k : k # key => Rows(f, k) = Rows(filed, k)
      BY <3>1, <3>2, Written
    <3> HIDE DEF f
    <3>6. filed' = f
      BY <2>3 DEF f
    <3>7. QED BY <3>3, <3>4, <3>5, <3>6
  <2>5. PartOf(m, key) = rows /\ \A k : k # key => PartOf(m, k) = <<>>
    BY <2>0, <2>1 DEF PartOf
  <2>6. LogsTyped'
    BY <1>1, <1>3, <2>4 DEF LogsInv, LogsTyped, Files
  <2>7. LogsOwned'
    <3>1. \A k \in DOMAIN filed' : \E d \in Clients : k \in DOMAIN pulled[d]
      BY <2>2, <2>4 DEF LogsInv, LogsOwned
    <3>2. QED BY <1>1, <1>4, <3>1, OwnsLasts DEF LogsInv, LogsOwned
  <2>8. LogsWhole'
    <3> SUFFICES ASSUME NEW d \in Clients \ disturbed, NEW k \in DOMAIN pulled[d]
                 PROVE  Rows(filed', k) \o InFlight(d, k)' = pulled[d][k]
      BY <1>1 DEF LogsWhole
    <3>1. Rows(filed, k) \o InFlight(d, k) = pulled[d][k]
      BY DEF LogsInv, LogsWhole
    <3>2. CASE d = c /\ k = key
      <4>1. Rows(filed', k) = Rows(filed, k) \o rows
        BY <2>4, <3>2
      <4>2. InFlight(c, k) = rows \o InFlight(c, k)'
        BY <1>6, <2>5, <3>2
      <4>3. Rows(filed, k) \in Seq(Row) /\ InFlight(c, k)' \in Seq(Row)
        BY <1>7, RowsType DEF LogsInv, LogsTyped
      <4>4. \A a, b, e \in Seq(Row) : a \o (b \o e) = (a \o b) \o e
        BY Regroup
      <4>5. Rows(filed, k) \o (rows \o InFlight(c, k)')
                = (Rows(filed, k) \o rows) \o InFlight(c, k)'
        BY <2>1, <4>3, <4>4, Zenon
      <4>6. QED BY <3>1, <3>2, <4>1, <4>2, <4>5, Zenon
    <3>3. CASE d = c /\ k # key
      <4>1. InFlight(c, k) = <<>> \o InFlight(c, k)'
        BY <1>6, <2>5, <3>3
      <4>2. InFlight(c, k) = InFlight(c, k)'
        BY <1>7, <4>1, ConcatEmptySeq
      <4>3. Rows(filed', k) = Rows(filed, k)
        BY <2>4, <3>3
      <4>4. QED BY <3>1, <3>3, <4>2, <4>3
    <3>4. CASE d # c
      <4>1. k # key
        <5> SUFFICES ASSUME k = key PROVE FALSE
          OBVIOUS
        <5>1. Owns(d, k) /\ Owns(c, k)
          BY <2>2 DEF LogsInv, LogsOwned
        <5>2. QED BY <3>4, <5>1, OneOwner DEF RInv
      <4>2. Rows(filed', k) = Rows(filed, k) /\ InFlight(d, k)' = InFlight(d, k)
        BY <1>5, <2>4, <3>4, <4>1
      <4>3. QED BY <3>1, <4>2
    <3>5. QED BY <3>2, <3>3, <3>4
  <2>9. QED BY <2>6, <2>7, <2>8 DEF LogsInv
<1>10. QED BY <1>8, <1>9

\* A client whose datagrams got lost or overtook each other no longer counts,
\* but what is on its way still is its own.
LEMMA LogsDisturbed ==
    ASSUME LogsInv, Grows, NEW c \in Clients, Disturb(c)
    PROVE  LogsInv'
<1>1. /\ disturbed' = disturbed \cup {c} /\ UNCHANGED <<filed, log, pulled>>
      /\ \/ UNCHANGED up
         \/ up[c] # <<>> /\ \E s \in Disturbances(up[c]) : up' = [up EXCEPT ![c] = s]
      /\ up \in [Clients -> Seq(Upload)] /\ up[c] \in Seq(Upload)
  BY DEF Disturb, LogsInv, LogsTyped, serverVars, clientVars
<1>2. CASE UNCHANGED up
  <2>1. log' = [d \in Clients |-> log'[d]] /\ \A d \in Clients : Files(log'[d])
    BY <1>1 DEF LogsInv, LogsTyped
  <2>2. QED BY <1>1, <1>2, <2>1, LogsStay
<1>3. ASSUME NEW s \in Disturbances(up[c]), up[c] # <<>>, up' = [up EXCEPT ![c] = s]
      PROVE  LogsInv'
  <2>1. s \in Seq(Upload) /\ \A i \in DOMAIN s : \E j \in DOMAIN up[c] : s[i] = up[c][j]
    BY <1>1, <1>3, DisturbancesBringNothing
  <2>2. /\ up' \in [Clients -> Seq(Upload)] /\ up'[c] = s
        /\ \A d \in Clients \ {c} : up'[d] = up[d]
    BY <1>1, <1>3, <2>1
  <2>3. ASSUME NEW d \in Clients PROVE ToSet(up[d])' \subseteq ToSet(up[d])
    <3>1. CASE d = c
      BY <2>1, <2>2, <3>1 DEF ToSet
    <3>2. CASE d # c
      BY <2>2, <3>2 DEF ToSet
    <3>3. QED BY <3>1, <3>2
  <2>4. \A d \in Clients \ {c} : \A k : InFlight(d, k)' = InFlight(d, k)
    BY <2>2, InFlightParts, InFlightPartsThen
  <2>5. LogsTyped'
    BY <1>1, <2>2 DEF LogsInv, LogsTyped, Files
  <2>6. LogsOwned'
    BY <1>1, <2>3, OwnsLasts DEF LogsInv, LogsOwned
  <2>7. LogsWhole'
    <3> SUFFICES ASSUME NEW d \in Clients \ disturbed', NEW k \in DOMAIN pulled[d]
                 PROVE  Rows(filed, k) \o InFlight(d, k)' = pulled[d][k]
      BY <1>1 DEF LogsWhole
    <3>1. d \in Clients \ disturbed /\ d # c
      BY <1>1
    <3>2. Rows(filed, k) \o InFlight(d, k) = pulled[d][k]
      BY <3>1 DEF LogsInv, LogsWhole
    <3>3. QED BY <2>4, <3>1, <3>2
  <2>8. QED BY <2>5, <2>6, <2>7 DEF LogsInv
<1>4. QED BY <1>1, <1>2, <1>3

\* Hearing or sending a broadcast adds rows to logs.
LEMMA LogsWritten ==
    ASSUME LogsInv, NEW c \in Clients, HandleBroadcast(c)
    PROVE  log' = [d \in Clients |-> log'[d]] /\ \A d \in Clients : Files(log'[d])
<1>1. CASE UNCHANGED log
  BY <1>1 DEF LogsInv, LogsTyped
<1>2. CASE ~ UNCHANGED log
  <2> DEFINE sent == [i \in 1 .. RowsSent |-> <<c, i>>]
             heard == <<<<c, 0>>>>
  <2>1. PICK hearers :
            log' = [d \in Clients |->
                      CASE d = c -> Write(log[c], Key(Manager(c)), sent)
                        [] d \in hearers -> Write(log[d], Key(port[d]), heard)
                        [] OTHER -> log[d]]
    BY <1>2 DEF HandleBroadcast
  <2>2. sent \in Seq(Row) /\ heard \in Seq(Row)
    <3>1. RowsSent \in Nat /\ \A i \in 0 .. RowsSent : <<c, i>> \in Row
      BY BootstrapAssumption DEF Row
    <3>2. <<c, 0>> \in Row
      BY DEF Row
    <3>3. sent \in [1 .. RowsSent -> Row]
      BY <3>1
    <3>4. QED BY <3>1, <3>2, <3>3
  <2> HIDE DEF sent, heard
  <2>3. ASSUME NEW d \in Clients PROVE Files(log'[d])
    <3>1. Files(log[d])
      BY DEF LogsInv, LogsTyped
    <3>2. Files(Write(log[d], Key(Manager(c)), sent)) /\ Files(Write(log[d], Key(port[d]), heard))
      BY <2>2, <3>1, Written
    <3>3. \/ log'[d] = Write(log[d], Key(Manager(c)), sent)
          \/ log'[d] = Write(log[d], Key(port[d]), heard)
          \/ log'[d] = log[d]
      BY <2>1
    <3>4. QED BY <3>1, <3>2, <3>3
  <2>4. QED BY <2>1, <2>3
<1>3. QED BY <1>1, <1>2

\* Logs stay whole in every step.
LEMMA LogsStep ==
    ASSUME RInv, LogsInv, [Next]_vars PROVE LogsInv'
<1>1. Grows
  BY GrowsStep DEF RInv
<1>2. ASSUME UNCHANGED <<up, filed, pulled, log>>, disturbed \subseteq disturbed' PROVE LogsInv'
  <2>1. log' = [d \in Clients |-> log'[d]] /\ \A d \in Clients : Files(log'[d])
    BY <1>2 DEF LogsInv, LogsTyped
  <2>2. QED BY <1>1, <1>2, <2>1, LogsStay
<1>3. CASE UNCHANGED vars
  BY <1>2, <1>3 DEF vars, serverVars, clientVars, history
<1>4. CASE Operator
  BY <1>2, <1>4 DEF Operator, handle_config, handle_table, Order, serverVars, clientVars
<1>5. ASSUME NEW c \in Clients, Start(c) PROVE LogsInv'
  BY <1>1, <1>5, LogsAtStart
<1>6. ASSUME NEW c \in Clients, Crash(c) PROVE LogsInv'
  BY <1>2, <1>6 DEF Crash, Ends, serverVars
<1>7. ASSUME NEW c \in Clients, Handle(c) PROVE LogsInv'
  <2>1. CASE HandleConfig(c) \/ HandleTable(c)
    BY <1>2, <2>1 DEF HandleConfig, HandleTable, serverVars, history
  <2>2. CASE HandleBroadcast(c)
    <3>1. UNCHANGED <<up, filed, pulled, disturbed>>
      BY <2>2 DEF HandleBroadcast, serverVars
    <3>2. QED BY <1>1, <2>2, <3>1, LogsWritten, LogsStay
  <2>3. CASE HandlePullLog(c) /\ HasManager(c)
    BY <1>1, <2>3, LogsPulled
  <2>4. CASE HandlePullLog(c) /\ ~ HasManager(c)
    BY <1>2, <2>4 DEF HandlePullLog, Ends, serverVars
  <2>5. QED BY <1>7, <2>1, <2>2, <2>3, <2>4 DEF Handle
<1>8. ASSUME NEW c \in Clients, ServerReceive(c) PROVE LogsInv'
  BY <1>1, <1>8, LogsReceived
<1>9. ASSUME NEW c \in Clients, Disturb(c) PROVE LogsInv'
  BY <1>1, <1>9, LogsDisturbed
<1>10. ASSUME NEW c \in Clients, Vanish(c) PROVE LogsInv'
  BY <1>2, <1>10 DEF Vanish, serverVars, clientVars, history
<1>11. QED
  BY <1>3, <1>4, <1>5, <1>6, <1>7, <1>8, <1>9, <1>10 DEF Next

(***************************************************************************)
(* Whatever a client has uploaded is in the server's file or on its way,   *)
(* whole and in order, however often it was pulled, in whichever runs and  *)
(* under however many numbers, unless the network lost or swapped something*)
(* on its way to or from that client: the pages make up the log, and no    *)
(* two clients write to one file.                                          *)
(***************************************************************************)
THEOREM LogsArriveWhole == Spec => []LogsWhole
<1>1. Init => RInv /\ LogsInv
  <2> SUFFICES ASSUME Init PROVE LogsInv
    BY RightAtFirst
  <2>1. filed = Empty /\ DOMAIN Empty = {} /\ up = [c \in Clients |-> <<>>]
        /\ log = [c \in Clients |-> Empty] /\ pulled = [c \in Clients |-> Empty]
    BY DEF Init, Empty
  <2> HIDE DEF Empty
  <2>2. \A c \in Clients : up[c] = <<>> /\ log[c] = Empty /\ pulled[c] = Empty
    BY <2>1
  <2>3. Files(Empty)
    BY <2>1 DEF Files
  <2>4. LogsTyped
    BY <2>1, <2>2, <2>3, EmptySeq DEF LogsTyped
  <2>5. LogsOwned
    BY <2>1, <2>2 DEF LogsOwned, ToSet
  <2>6. LogsWhole
    BY <2>1, <2>2 DEF LogsWhole
  <2>7. QED BY <2>4, <2>5, <2>6 DEF LogsInv
<1>2. RInv /\ LogsInv /\ [Next]_vars => (RInv /\ LogsInv)'
  BY RightStep, LogsStep
<1>3. LogsInv => LogsWhole
  BY DEF LogsInv
<1>4. QED BY <1>1, <1>2, <1>3, PTL DEF Spec

=============================================================================
