----------------------------- MODULE Arithmetic -----------------------------
(***************************************************************************)
(* Facts that the proofs of several components use: quotients and          *)
(* remainders by a number that is not fixed, the least element of a set,   *)
(* functions defined by recursion on a counter, and sequences in a row.    *)
(***************************************************************************)
EXTENDS Integers, FiniteSetsExt, SequenceTheorems, WellFoundedInduction, TLAPS

(* Every set of naturals with an element has a least one, and Min is it:   *)
(* the first free frame, slot or name that a loop of the code finds.       *)
LEMMA MinNat ==
  ASSUME NEW S \in SUBSET Nat, S # {}
  PROVE  Min(S) \in S /\ \A y \in S : Min(S) <= y
<1> DEFINE Less == {p \in Nat \X Nat : p[1] < p[2]}
<1>1. OpToRel(<, Nat) = Less
  BY Zenon DEF OpToRel
<1>2. IsWellFoundedOn(Less, Nat)
  BY <1>1, NatLessThanWellFounded, Zenon
<1>3. \A x, y \in Nat : y < x => <<y, x>> \in Less
  OBVIOUS
<1> HIDE DEF Less
<1>4. PICK x \in S : \A y \in S : ~(<<y, x>> \in Less)
  BY <1>2, WFMin, Zenon
<1>5. \A y \in S : ~(y < x)
  BY <1>3, <1>4, Zenon
<1>6. \A y \in S : x <= y
  BY <1>5
<1> QED
  BY <1>6 DEF Min

(* Quotient and remainder, as div and mod of the processor define them.    *)
LEMMA DivMod ==
  ASSUME NEW n \in Nat, NEW b \in Nat \ {0}
  PROVE  /\ n \div b \in Nat /\ n % b \in Nat
         /\ n = b * (n \div b) + (n % b) /\ n % b < b
  OBVIOUS

(* A product is not below another with a larger factor.                    *)
LEMMA MulMono ==
  ASSUME NEW a \in Nat, NEW b \in Nat, NEW c \in Nat, a <= b
  PROVE  c * a <= c * b /\ c * b = c * a + c * (b - a)
  OBVIOUS

(* There is one way only to divide with a remainder.                       *)
LEMMA DivUnique ==
  ASSUME NEW n \in Nat, NEW b \in Nat \ {0}, NEW q \in Nat, NEW r \in Nat,
         n = b * q + r, r < b
  PROVE  n \div b = q /\ n % b = r
<1> DEFINE d == n \div b
<1>1. d \in Nat /\ n % b \in Nat /\ n = b * d + (n % b) /\ n % b < b
  BY DivMod
<1> HIDE DEF d
<1>2. ~(d < q)
  <2> SUFFICES ASSUME d + 1 <= q PROVE FALSE
    BY <1>1
  <2>1. b * (d + 1) <= b * q
    BY <1>1, MulMono
  <2>2. b * (d + 1) = b * d + b
    BY <1>1
  <2> QED
    BY <1>1, <2>1, <2>2
<1>3. ~(q < d)
  <2> SUFFICES ASSUME q + 1 <= d PROVE FALSE
    BY <1>1
  <2>1. b * (q + 1) <= b * d
    BY <1>1, MulMono
  <2>2. b * (q + 1) = b * q + b
    OBVIOUS
  <2> QED
    BY <1>1, <2>1, <2>2
<1>4. d = q
  BY <1>1, <1>2, <1>3
<1> QED
  BY <1>1, <1>4 DEF d

(* Larger numbers have larger quotients.                                   *)
LEMMA DivMono ==
  ASSUME NEW m \in Nat, NEW n \in Nat, NEW b \in Nat \ {0}, m <= n
  PROVE  m \div b <= n \div b
<1> DEFINE p == m \div b
           q == n \div b
<1>1. p \in Nat /\ m % b \in Nat /\ m = b * p + (m % b) /\ m % b < b
  BY DivMod
<1>2. q \in Nat /\ n % b \in Nat /\ n = b * q + (n % b) /\ n % b < b
  BY DivMod
<1> HIDE DEF p, q
<1>3. ~(q < p)
  <2> SUFFICES ASSUME q + 1 <= p PROVE FALSE
    BY <1>1, <1>2
  <2>1. b * (q + 1) <= b * p /\ b * (q + 1) = b * q + b
    BY <1>1, <1>2, MulMono
  <2> QED
    BY <1>1, <1>2, <2>1
<1>4. p <= q
  BY <1>1, <1>2, <1>3
<1> QED
  BY <1>4 DEF p, q

(* Dividing twice is dividing by the product.                              *)
LEMMA DivDiv ==
  ASSUME NEW n \in Nat, NEW b \in Nat \ {0}, NEW c \in Nat \ {0}
  PROVE  n \div (b * c) = (n \div b) \div c
<1> DEFINE q == n \div b
           p == q \div c
<1>1. q \in Nat /\ n % b \in Nat /\ n = b * q + (n % b) /\ n % b < b
  BY DivMod
<1>2. p \in Nat /\ q % c \in Nat /\ q = c * p + (q % c) /\ q % c < c
  BY <1>1, DivMod
<1> HIDE DEF q, p
<1> DEFINE r == b * (q % c) + (n % b)
<1>3. b * (c * p + (q % c)) = (b * c) * p + b * (q % c)
  BY <1>2
<1>4. n = (b * c) * p + r
  BY <1>1, <1>2, <1>3
<1>5. b * ((q % c) + 1) <= b * c /\ b * ((q % c) + 1) = b * (q % c) + b
  BY <1>2, MulMono
<1>6. r \in Nat /\ r < b * c /\ b * c \in Nat \ {0}
  BY <1>1, <1>2, <1>5
<1> HIDE DEF r
<1>7. n \div (b * c) = p
  BY <1>2, <1>4, <1>6, DivUnique
<1> QED
  BY <1>7 DEF p, q
-----------------------------------------------------------------------------
(* Functions defined by recursion on a bounded counter.                    *)

Steps(N, V) == [1 .. N -> [V -> V]]

Solvable(N, V, base, step) ==
  \E g \in [0 .. N -> V] : g[0] = base /\ \A n \in 1 .. N : g[n] = step[n][g[n - 1]]

(* A recurrence over 0 .. N with values in V has a solution.               *)
LEMMA RecursionExists ==
  ASSUME NEW N \in Nat, NEW V, NEW base \in V, NEW step \in Steps(N, V)
  PROVE  Solvable(N, V, base, step)
<1>0. SUFFICES \E g \in [0 .. N -> V] :
                 g[0] = base /\ \A n \in 1 .. N : g[n] = step[n][g[n - 1]]
  BY DEF Solvable
<1> USE DEF Steps
<1> DEFINE Good(m) == \E g \in [0 .. m -> V] :
                        g[0] = base /\ \A n \in 1 .. m : g[n] = step[n][g[n - 1]]
<1> DEFINE Bad == {m \in 0 .. N : ~Good(m)}
<1>1. SUFFICES ASSUME Bad # {} PROVE FALSE
  BY DEF Bad
<1>2. Bad \in SUBSET Nat
  BY DEF Bad
<1> DEFINE m == Min(Bad)
<1>3. m \in Bad /\ \A y \in Bad : m <= y
  BY <1>1, <1>2, MinNat
<1>4. m \in 0 .. N /\ ~Good(m)
  BY <1>3
<1> HIDE DEF m
<1>5. CASE m = 0
  <2>1. [n \in 0 .. 0 |-> base] \in [0 .. 0 -> V]
    OBVIOUS
  <2>2. [n \in 0 .. 0 |-> base][0] = base
    OBVIOUS
  <2>3. \A n \in 1 .. 0 : FALSE
    OBVIOUS
  <2>4. Good(0)
    BY <2>1, <2>2, <2>3
  <2> QED
    BY <2>4, <1>4, <1>5
<1>6. CASE m > 0
  <2>1. m \in Nat /\ m - 1 \in 0 .. N /\ ~(m <= m - 1)
    BY <1>4, <1>6
  <2>2. Good(m - 1)
    <3>1. m - 1 \notin Bad
      BY <1>3, <2>1, Zenon
    <3> QED
      BY <3>1, <2>1, Zenon DEF Bad
  <2>3. PICK g \in [0 .. m - 1 -> V] : g[0] = base /\ \A n \in 1 .. m - 1 : g[n] = step[n][g[n - 1]]
    BY <2>2
  <2> DEFINE h == [n \in 0 .. m |-> IF n = m THEN step[m][g[m - 1]] ELSE g[n]]
  <2>4. m \in 1 .. N /\ g[m - 1] \in V
    BY <2>3, <1>4, <1>6
  <2>5. step[m][g[m - 1]] \in V
    BY <2>4
  <2>6. \A n \in 0 .. m : n # m => n \in 0 .. m - 1
    BY <1>4
  <2>7. h \in [0 .. m -> V]
    BY <2>5, <2>6
  <2>8. h[0] = base
    BY <2>3, <1>4, <1>6
  <2>9. ASSUME NEW n \in 1 .. m PROVE h[n] = step[n][h[n - 1]]
    <3>1. n - 1 \in 0 .. m /\ n - 1 # m /\ h[n - 1] = g[n - 1]
      BY <1>4, <1>6
    <3>2. CASE n = m
      BY <3>1, <3>2
    <3>3. CASE n # m
      BY <3>1, <3>3, <2>3, <1>4
    <3> QED
      BY <3>2, <3>3
  <2>10. Good(m)
    BY <2>7, <2>8, <2>9
  <2> QED
    BY <2>10, <1>4
<1> QED
  BY <1>5, <1>6, <1>4

(* Two sequences in a row, and three with one element in the middle.       *)
LEMMA TwoParts ==
  ASSUME NEW S, NEW x \in Seq(S), NEW y \in Seq(S), Len(x) >= 1, Len(y) >= 1
  PROVE  /\ SubSeq(x \o y, 1, Len(x)) = x
         /\ SubSeq(x \o y, Len(x) + 1, Len(x) + Len(y)) = y
         /\ (x \o y)[1] = x[1] /\ (x \o y)[Len(x) + 1] = y[1]
  OBVIOUS

Row(S, x, y, c) ==
  /\ c \in Seq(S) /\ Len(c) = Len(x) + Len(y)
  /\ \A i \in 1 .. Len(x) : c[i] = x[i]
  /\ \A i \in 1 .. Len(y) : c[Len(x) + i] = y[i]

LEMMA RowOf ==
  ASSUME NEW S, NEW x \in Seq(S), NEW y \in Seq(S)
  PROVE  Row(S, x, y, x \o y)
<1> DEFINE c == x \o y
<1>1. /\ c \in Seq(S) /\ Len(c) = Len(x) + Len(y)
      /\ \A i \in 1 .. Len(x) + Len(y) : c[i] = IF i <= Len(x) THEN x[i] ELSE y[i - Len(x)]
  BY ConcatProperties
<1> HIDE DEF c
<1>2. Len(x) \in Nat /\ Len(y) \in Nat
  OBVIOUS
<1>3. ASSUME NEW i \in 1 .. Len(x) PROVE c[i] = x[i]
  BY <1>1, <1>2
<1>4. ASSUME NEW i \in 1 .. Len(y) PROVE c[Len(x) + i] = y[i]
  <2>1. Len(x) + i \in 1 .. Len(x) + Len(y) /\ ~(Len(x) + i <= Len(x)) /\ (Len(x) + i) - Len(x) = i
    BY <1>2
  <2>2. c[Len(x) + i] = y[(Len(x) + i) - Len(x)]
    BY <2>1, <1>1, Zenon
  <2> QED
    BY <2>1, <2>2, Zenon
<1>5. Row(S, x, y, c)
  BY <1>1, <1>3, <1>4 DEF Row
<1> QED
  BY <1>5 DEF c

Rows(S, x, m, y, p) ==
  /\ p \in Seq(S) /\ Len(p) = Len(x) + 1 + Len(y)
  /\ p[Len(x) + 1] = m[1]
  /\ \A i \in 1 .. Len(x) : p[i] = x[i]
  /\ \A i \in 1 .. Len(y) : p[Len(x) + 1 + i] = y[i]

LEMMA ThreeParts ==
  ASSUME NEW S, NEW x \in Seq(S), NEW m \in Seq(S), NEW y \in Seq(S), Len(m) = 1
  PROVE  Rows(S, x, m, y, (x \o m) \o y)
<1> DEFINE q == x \o m  p == q \o y
<1>1. Row(S, x, m, q)
  BY RowOf
<1>2. /\ q \in Seq(S) /\ Len(q) = Len(x) + Len(m)
      /\ \A i \in 1 .. Len(x) : q[i] = x[i]
      /\ \A i \in 1 .. Len(m) : q[Len(x) + i] = m[i]
  BY <1>1, Zenon DEF Row
<1> HIDE DEF q
<1>3. Row(S, q, y, p)
  BY <1>2, RowOf
<1> HIDE DEF p
<1>4. /\ p \in Seq(S) /\ Len(p) = Len(q) + Len(y)
      /\ \A i \in 1 .. Len(q) : p[i] = q[i]
      /\ \A i \in 1 .. Len(y) : p[Len(q) + i] = y[i]
  BY <1>3, Zenon DEF Row
<1>5. Len(x) \in Nat /\ Len(y) \in Nat /\ 1 \in 1 .. Len(m)
  OBVIOUS
<1>6. Len(q) = Len(x) + 1 /\ q[Len(x) + 1] = m[1]
  BY <1>2, <1>5
<1>7. Rows(S, x, m, y, p)
  BY <1>2, <1>4, <1>5, <1>6 DEF Rows
<1> QED
  BY <1>7 DEF p, q
=============================================================================
