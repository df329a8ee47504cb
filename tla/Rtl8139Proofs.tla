--------------------------- MODULE Rtl8139Proofs ---------------------------
(***************************************************************************)
(* The receive ring of rtl8139.c implements a queue of frames, stays in    *)
(* its block and refuses a frame only when it is full, and sends keep      *)
(* their buffer, for every size of the ring, every set of frame lengths    *)
(* and any interleaving of card and driver.                                *)
(*                                                                         *)
(* The argument: seen from the driver's offset, the frames that were not   *)
(* given back follow each other without a gap (Chained), and the card      *)
(* writes behind the last of them; all together are shorter than the ring, *)
(* so a frame that fits does not touch them.  Chained says how far each    *)
(* frame is from the offset, which makes every argument about the          *)
(* wrap-around one about sums of two numbers below RxBufSize.              *)
(***************************************************************************)
EXTENDS Rtl8139, FiniteSetTheorems, Arithmetic

R == RxBufSize

InMem == [at : Nat, len : Lengths, tag : Tags]

(* The place at distance d from place x of the ring.                       *)
Place(x, d) == IF x + d < R THEN x + d ELSE x + d - R

IsPlace(x) == x \in 0 .. R - 1 /\ x % 4 = 0

Typed == /\ mem \in Seq(InMem) /\ IsPlace(rx_offset) /\ ptr = rx_offset
         /\ pc \in {"idle", "handling", "sending", "advance"}
         /\ resume \in {"idle", "advance"}

(* The frames s lie one behind the other, frame i at distance d[i] from    *)
(* place x, the last before distance d[Len(s) + 1].                        *)
Dist(s, x, d) ==
  /\ d \in [1 .. Len(s) + 1 -> Nat]
  /\ d[1] = 0 /\ d[Len(s) + 1] < R
  /\ \A i \in 1 .. Len(s) : /\ d[i + 1] = d[i] + Space(s[i].len)
                            /\ s[i].at = Place(x, d[i])
  /\ \A i, j \in 1 .. Len(s) + 1 : i < j => d[i] < d[j]
  /\ \A i \in 1 .. Len(s) + 1 : d[i] % 4 = 0

Chained == \E d : Dist(mem, rx_offset, d) /\ addr = Place(rx_offset, d[Len(mem) + 1])

(* The frame that rtl8139_poll looks at is the first in the ring.          *)
Looking == pc = "handling" \/ Handed => mem # <<>> /\ hdr = mem[1]

(* The descriptor is the one of the first send, which waits for the bit    *)
(* the card sets, or of the second, which waits for a bit nobody sets.     *)
Sending ==
  /\ isr \subseteq {ROK, TOK, RXOVW}
  /\ current_tx_descriptor \in {0, 1}
  /\ owed \subseteq {current_tx_descriptor} /\ (owed # {} => pc = "sending")
  /\ current_tx_descriptor = 0 /\ TOK \in isr => pc = "sending" /\ owed = {}

IInv == Typed /\ Chained /\ Looking /\ Sending
-----------------------------------------------------------------------------
(* Sizes and places.                                                       *)

LEMMA Sizes == R \in Nat /\ R > 16 /\ R % 8 = 0 /\ R % 4 = 0 /\ Lengths \subseteq Nat
<1>1. R \in Nat /\ R > 16 /\ R % 8 = 0 /\ Lengths \subseteq Nat
  BY Rtl8139Assumption DEF R
<1> QED
  BY <1>1

(* The bytes a frame takes up in the ring: the header, the frame and at    *)
(* most three more.                                                        *)
LEMMA SpaceFacts ==
  ASSUME NEW l \in Lengths
  PROVE  /\ l \in Nat /\ l <= Mtu + 18 /\ Mtu \in Nat /\ Space(l) \in Nat /\ Space(l) % 4 = 0
         /\ l + 4 <= Space(l) /\ Space(l) <= l + 7 /\ Space(l) < R
<1>1. l \in Nat /\ l <= Mtu + 18 /\ Mtu \in Nat /\ l + 8 < R
  BY Rtl8139Assumption DEF R
<1>2. Space(l) = ((l + 7) \div 4) * 4
  BY <1>1 DEF Space, Align
<1> QED
  BY <1>1, <1>2, Sizes

LEMMA ModPlace ==
  ASSUME NEW n \in 0 .. 2 * R - 1
  PROVE  n % R = IF n < R THEN n ELSE n - R
<1>0. R \in Nat \ {0} /\ n \in Nat
  BY Sizes
<1>1. CASE n < R
  <2>1. n = R * 0 + n
    BY <1>0
  <2> QED
    BY <1>0, <1>1, <2>1, DivUnique
<1>2. CASE n >= R
  <2>1. n = R * 1 + (n - R) /\ n - R \in Nat /\ n - R < R
    BY <1>0, <1>2
  <2> QED
    BY <1>0, <1>2, <2>1, DivUnique
<1> QED
  BY <1>0, <1>1, <1>2

LEMMA PlaceIsPlace ==
  ASSUME NEW x, IsPlace(x), NEW d \in 0 .. R - 1, d % 4 = 0
  PROVE  IsPlace(Place(x, d))
  BY Sizes DEF IsPlace, Place

LEMMA PlaceOfPlace ==
  ASSUME NEW x, IsPlace(x), NEW d \in Nat, NEW e \in Nat, d + e < R
  PROVE  Place(Place(x, d), e) = Place(x, d + e)
  BY Sizes DEF IsPlace, Place

(* Where the card, and where the driver, expects the frame after one at x. *)
LEMMA NextPlace ==
  ASSUME NEW x, IsPlace(x), NEW l \in Lengths
  PROVE  Align(x + 4 + l, 4) % R = Place(x, Space(l))
<1>1. x \in Nat /\ x < R /\ x % 4 = 0 /\ l \in Nat /\ Space(l) \in Nat /\ Space(l) < R
  BY SpaceFacts, Sizes DEF IsPlace
<1>2. Align(x + 4 + l, 4) = x + Space(l)
  BY <1>1 DEF Align, Space
<1>3. x + Space(l) \in 0 .. 2 * R - 1
  BY <1>1, Sizes
<1>4. (x + Space(l)) % R = IF x + Space(l) < R THEN x + Space(l) ELSE x + Space(l) - R
  <2> DEFINE y == x + Space(l)
  <2> HIDE DEF y
  <2>1. y \in 0 .. 2 * R - 1 => y % R = IF y < R THEN y ELSE y - R
    BY ModPlace
  <2> QED
    BY <1>1, <1>3, <2>1, Sizes DEF y
<1> QED
  BY <1>2, <1>4 DEF Place

(* The 0x10 that the driver takes off CAPR is the one that the card adds,  *)
(* also where it goes below zero.                                          *)
LEMMA PtrAfterIs ==
  ASSUME NEW o, IsPlace(o)
  PROVE  PtrAfter(o) = o
<1>1. o \in Nat /\ o < R /\ R \in Nat \ {0} /\ R = RxBufSize
  BY Sizes DEF IsPlace, R
<1>2. R <= 65536 /\ 65536 = R * (65536 \div R)
  <2>0. ASSUME NEW m \in Nat
        PROVE  m \div R \in Nat /\ m = R * (m \div R) + (m % R)
    BY <1>1, DivMod
  <2>1. 65536 % R = 0 /\ 65536 \in Nat
    BY Rtl8139Assumption DEF R
  <2>2. 65536 \div R \in Nat /\ 65536 = R * (65536 \div R) + (65536 % R)
    BY <2>0, <2>1
  <2>3. 65536 = R * (65536 \div R)
    BY <1>1, <2>1, <2>2
  <2>4. 65536 \div R # 0
    BY <1>1, <2>3
  <2>5. R * 1 <= R * (65536 \div R)
    BY <1>1, <2>2, <2>4, MulMono
  <2> QED
    BY <1>1, <2>3, <2>5
<1>3. 65536 \div R \in Nat
  BY <1>1, DivMod
<1>4. CASE o >= 16
  <2>1. (o - 16) % 65536 = o - 16
    BY <1>1, <1>2, <1>4
  <2>2. PtrAfter(o) = o % R
    BY <1>1, <2>1 DEF PtrAfter
  <2>3. o \in 0 .. 2 * R - 1
    BY <1>1
  <2> QED
    BY <1>1, <2>2, <2>3, ModPlace
<1>5. CASE o < 16
  <2>1. (o - 16) % 65536 = o - 16 + 65536
    BY <1>1, <1>5
  <2>2. PtrAfter(o) = (65536 + o) % R
    BY <1>1, <2>1 DEF PtrAfter
  <2>3. 65536 + o = R * (65536 \div R) + o /\ 65536 + o \in Nat
    BY <1>1, <1>2
  <2> QED
    BY <1>1, <1>3, <2>2, <2>3, DivUnique
<1> QED
  BY <1>1, <1>4, <1>5

(* What the card takes for free: the ring without what is between the      *)
(* driver's offset and its own.                                            *)
LEMMA AvailIs ==
  ASSUME IsPlace(ptr), NEW D \in 0 .. R - 1, addr = Place(ptr, D)
  PROVE  /\ Avail = IF D = 0 THEN 0 ELSE R - D
         /\ BufferEmpty <=> D = 0
<1>1. ptr \in Nat /\ ptr < R /\ D \in Nat /\ D < R /\ R \in Nat
  BY Sizes DEF IsPlace
<1>2. R + ptr - addr \in 0 .. 2 * R - 1
  BY <1>1 DEF Place
<1>3. (R + ptr - addr) % R = IF D = 0 THEN 0 ELSE R - D
  BY <1>1, <1>2, ModPlace DEF Place
<1>4. addr = ptr <=> D = 0
  BY <1>1 DEF Place
<1> QED
  BY <1>3, <1>4 DEF Avail, BufferEmpty, R
-----------------------------------------------------------------------------
(* The chain of frames.                                                    *)

(* Frame i of the chain, and where it ends.                                *)
LEMMA InChain ==
  ASSUME NEW s \in Seq(InMem), NEW x, IsPlace(x), NEW d, Dist(s, x, d), NEW i \in 1 .. Len(s)
  PROVE  /\ s[i].len \in Lengths /\ s[i].tag \in Tags /\ s[i].at = Place(x, d[i])
         /\ d[i] \in 0 .. R - 1 /\ d[i] % 4 = 0 /\ d[Len(s) + 1] \in 0 .. R - 1
         /\ d[i] + Space(s[i].len) <= d[Len(s) + 1] /\ d[Len(s) + 1] % 4 = 0
         /\ Space(s[i].len) \in Nat /\ IsPlace(s[i].at)
<1>1. s[i] \in InMem
  OBVIOUS
<1>2. s[i].len \in Lengths /\ s[i].tag \in Tags
  BY <1>1 DEF InMem
<1>3. Space(s[i].len) \in Nat
  BY <1>2, SpaceFacts
<1>4. Len(s) \in Nat /\ i \in 1 .. Len(s) + 1 /\ i + 1 \in 1 .. Len(s) + 1 /\ Len(s) + 1 \in 1 .. Len(s) + 1
  OBVIOUS
<1>5. /\ d[i] \in Nat /\ d[i + 1] \in Nat /\ d[Len(s) + 1] \in Nat /\ d[Len(s) + 1] < R
      /\ d[i + 1] = d[i] + Space(s[i].len) /\ s[i].at = Place(x, d[i])
      /\ d[i] % 4 = 0 /\ d[Len(s) + 1] % 4 = 0
  BY <1>4 DEF Dist
<1>6. d[i + 1] <= d[Len(s) + 1]
  <2>1. CASE i = Len(s)
    BY <1>5, <2>1
  <2>2. CASE i # Len(s)
    <3>1. i + 1 < Len(s) + 1
      BY <1>4, <2>2
    <3> QED
      BY <1>4, <1>5, <3>1 DEF Dist
  <2> QED
    BY <2>1, <2>2
<1>7. d[i] \in 0 .. R - 1 /\ d[Len(s) + 1] \in 0 .. R - 1 /\ d[i] + Space(s[i].len) <= d[Len(s) + 1]
  BY <1>3, <1>5, <1>6, Sizes
<1> QED
  BY <1>2, <1>3, <1>5, <1>7, PlaceIsPlace

(* A frame that fits does not touch the frames before it, on whichever     *)
(* side of the end of the ring they are.                                   *)
LEMMA NoOverlap ==
  ASSUME NEW s \in Seq(InMem), NEW x, IsPlace(x), NEW d, Dist(s, x, d), NEW i \in 1 .. Len(s),
         NEW f, f.len \in Lengths, f.at = Place(x, d[Len(s) + 1]),
         d[Len(s) + 1] + Space(f.len) < R
  PROVE  ~Overlap(f, s[i])
<1> DEFINE D == d[Len(s) + 1]
           e == d[i]
           g == s[i]
<1>1. /\ g.len \in Lengths /\ g.at = Place(x, e) /\ e \in Nat /\ D \in Nat
      /\ e + Space(g.len) <= D /\ D < R /\ Space(g.len) \in Nat
  BY InChain, Sizes
<1> HIDE DEF D, e, g
<1>2. /\ x \in Nat /\ x < R /\ R \in Nat /\ Space(f.len) \in Nat /\ f.len \in Nat /\ g.len \in Nat
      /\ f.len + 4 <= Space(f.len) /\ g.len + 4 <= Space(g.len)
  <2>1. f.len \in Nat /\ Space(f.len) \in Nat /\ f.len + 4 <= Space(f.len)
    BY SpaceFacts
  <2>2. g.len \in Nat /\ g.len + 4 <= Space(g.len)
    BY <1>1, SpaceFacts
  <2>3. x \in Nat /\ x < R /\ R \in Nat
    BY Sizes DEF IsPlace
  <2> QED
    BY <2>1, <2>2, <2>3
<1>3. f.at = Place(x, D) /\ D + Space(f.len) < R
  BY DEF D
<1>4. ~(f.at < g.at + 4 + g.len /\ g.at < f.at + 4 + f.len)
  <2> DEFINE a == f.len
             b == g.len
             u == Space(a)
             v == Space(b)
  <2>1. /\ a \in Nat /\ b \in Nat /\ u \in Nat /\ v \in Nat /\ a + 4 <= u /\ b + 4 <= v
        /\ e + v <= D /\ D + u < R
    BY <1>1, <1>2, <1>3
  <2> HIDE DEF a, b, u, v
  <2>2. CASE x + D < R
    <3>1. f.at = x + D /\ g.at = x + e
      BY <1>1, <1>2, <1>3, <2>1, <2>2 DEF Place
    <3>2. ~(f.at < g.at + 4 + b)
      BY <1>1, <1>2, <2>1, <3>1
    <3> QED
      BY <3>2 DEF b
  <2>3. CASE x + D >= R /\ x + e < R
    <3>1. f.at = x + D - R /\ g.at = x + e
      BY <1>1, <1>2, <1>3, <2>3 DEF Place
    <3>2. ~(g.at < f.at + 4 + a)
      BY <1>1, <1>2, <2>1, <3>1
    <3> QED
      BY <3>2 DEF a
  <2>4. CASE x + e >= R
    <3>1. f.at = x + D - R /\ g.at = x + e - R
      BY <1>1, <1>2, <1>3, <2>1, <2>4 DEF Place
    <3>2. ~(f.at < g.at + 4 + b)
      BY <1>1, <1>2, <2>1, <3>1
    <3> QED
      BY <3>2 DEF b
  <2> QED
    BY <1>1, <1>2, <2>2, <2>3, <2>4
<1> QED
  BY <1>4 DEF Overlap, EndOf, g

LEMMA ChainGrows ==
  ASSUME NEW s \in Seq(InMem), NEW x, IsPlace(x), NEW d, Dist(s, x, d),
         NEW f \in InMem, f.at = Place(x, d[Len(s) + 1]), d[Len(s) + 1] + Space(f.len) < R
  PROVE  \E e : Dist(Append(s, f), x, e) /\ e[Len(Append(s, f)) + 1] = d[Len(s) + 1] + Space(f.len)
<1> DEFINE n == Len(s)
           t == Append(s, f)
           e == [i \in 1 .. n + 2 |-> IF i <= n + 1 THEN d[i] ELSE d[n + 1] + Space(f.len)]
<1>1. n \in Nat /\ Len(t) = n + 1 /\ t[n + 1] = f /\ \A i \in 1 .. n : t[i] = s[i]
  OBVIOUS
<1>2. f.len \in Lengths /\ Space(f.len) \in Nat /\ Space(f.len) % 4 = 0 /\ Space(f.len) > 0
  <2>1. f.len \in Lengths
    BY DEF InMem
  <2> QED
    BY <2>1, SpaceFacts
<1> HIDE DEF t, n
<1>3. /\ d \in [1 .. n + 1 -> Nat] /\ d[1] = 0
      /\ \A i \in 1 .. n : d[i + 1] = d[i] + Space(s[i].len) /\ s[i].at = Place(x, d[i])
      /\ \A i, j \in 1 .. n + 1 : i < j => d[i] < d[j]
      /\ \A i \in 1 .. n + 1 : d[i] % 4 = 0
  BY DEF Dist, n
<1>4. d[n + 1] \in Nat /\ f.at = Place(x, d[n + 1]) /\ d[n + 1] + Space(f.len) < R
  BY <1>1, <1>3 DEF n
<1>5. /\ e \in [1 .. n + 2 -> Nat] /\ e[n + 2] = d[n + 1] + Space(f.len)
      /\ \A i \in 1 .. n + 1 : e[i] = d[i]
  BY <1>1, <1>2, <1>3, <1>4
<1> HIDE DEF e
<1>6. \A i \in 1 .. n + 1 : e[i + 1] = e[i] + Space(t[i].len) /\ t[i].at = Place(x, e[i])
  <2> SUFFICES ASSUME NEW i \in 1 .. n + 1
               PROVE  e[i + 1] = e[i] + Space(t[i].len) /\ t[i].at = Place(x, e[i])
    OBVIOUS
  <2>1. CASE i = n + 1
    BY <1>1, <1>4, <1>5, <2>1
  <2>2. CASE i # n + 1
    <3>1. i \in 1 .. n /\ i + 1 \in 1 .. n + 1
      BY <1>1, <2>2
    <3> QED
      BY <1>1, <1>3, <1>5, <3>1
  <2> QED
    BY <2>1, <2>2
<1>7. \A i, j \in 1 .. n + 2 : i < j => e[i] < e[j]
  <2> SUFFICES ASSUME NEW i \in 1 .. n + 2, NEW j \in 1 .. n + 2, i < j
               PROVE  e[i] < e[j]
    OBVIOUS
  <2>1. i \in 1 .. n + 1 /\ e[i] = d[i] /\ d[i] \in Nat
    BY <1>1, <1>3, <1>5
  <2>2. CASE j # n + 2
    BY <1>1, <1>3, <1>5, <2>1, <2>2
  <2>3. CASE j = n + 2
    <3>1. d[i] <= d[n + 1]
      BY <1>1, <1>3, <2>1
    <3> QED
      BY <1>2, <1>4, <1>5, <2>1, <2>3, <3>1
  <2> QED
    BY <2>2, <2>3
<1>8. \A i \in 1 .. n + 2 : e[i] % 4 = 0
  <2>0. d[n + 1] % 4 = 0
    BY <1>1, <1>3
  <2>1. e[n + 2] % 4 = 0
    BY <1>2, <1>4, <1>5, <2>0
  <2>2. \A i \in 1 .. n + 1 : e[i] % 4 = 0
    BY <1>3, <1>5
  <2> QED
    BY <1>1, <2>1, <2>2
<1>9. e[1] = 0 /\ e[n + 2] < R
  BY <1>1, <1>3, <1>4, <1>5
<1>10. Dist(t, x, e)
  BY <1>1, <1>5, <1>6, <1>7, <1>8, <1>9 DEF Dist
<1>11. e[Len(t) + 1] = d[n + 1] + Space(f.len)
  BY <1>1, <1>5
<1> QED
  BY <1>10, <1>11 DEF t, n

(* Without its first frame, seen from the place behind it.                 *)
LEMMA ChainShrinks ==
  ASSUME NEW s \in Seq(InMem), s # <<>>, NEW x, IsPlace(x), NEW d, Dist(s, x, d)
  PROVE  \E e : /\ Dist(Tail(s), Place(x, d[2]), e)
                /\ Place(Place(x, d[2]), e[Len(Tail(s)) + 1]) = Place(x, d[Len(s) + 1])
<1> DEFINE n == Len(s)
           t == Tail(s)
           y == Place(x, d[2])
           e == [i \in 1 .. n |-> d[i + 1] - d[2]]
<1>1. n \in Nat /\ n >= 1 /\ Len(t) = n - 1 /\ \A i \in 1 .. n - 1 : t[i] = s[i + 1]
  OBVIOUS
<1> HIDE DEF t, n
<1>2. /\ d \in [1 .. n + 1 -> Nat] /\ d[1] = 0 /\ d[n + 1] < R
      /\ \A i \in 1 .. n : d[i + 1] = d[i] + Space(s[i].len) /\ s[i].at = Place(x, d[i])
      /\ \A i, j \in 1 .. n + 1 : i < j => d[i] < d[j]
      /\ \A i \in 1 .. n + 1 : d[i] % 4 = 0
  BY DEF Dist, n
<1>3. /\ \A i \in 1 .. n : i + 1 \in 1 .. n + 1 /\ d[i + 1] \in Nat
      /\ d[2] \in Nat /\ d[2] % 4 = 0 /\ d[n + 1] \in Nat
  BY <1>1, <1>2
<1>4. \A i \in 1 .. n : d[2] <= d[i + 1] /\ d[i + 1] <= d[n + 1]
  <2> SUFFICES ASSUME NEW i \in 1 .. n PROVE d[2] <= d[i + 1] /\ d[i + 1] <= d[n + 1]
    OBVIOUS
  <2>1. 2 \in 1 .. n + 1 /\ i + 1 \in 1 .. n + 1 /\ n + 1 \in 1 .. n + 1
    BY <1>1
  <2>2. i = 1 \/ 2 < i + 1
    OBVIOUS
  <2>3. i = n \/ i + 1 < n + 1
    BY <1>1
  <2>4. d[2] <= d[i + 1]
    BY <1>2, <1>3, <2>1, <2>2
  <2>5. d[i + 1] <= d[n + 1]
    BY <1>2, <1>3, <2>1, <2>3
  <2> QED
    BY <2>4, <2>5
<1>5. e \in [1 .. n -> Nat] /\ \A i \in 1 .. n : e[i] = d[i + 1] - d[2] /\ d[2] + e[i] = d[i + 1]
  BY <1>3, <1>4
<1> HIDE DEF e
<1>6. e[1] = 0 /\ e[n] < R
  <2>1. 1 \in 1 .. n /\ n \in 1 .. n
    BY <1>1
  <2>2. e[1] = d[1 + 1] - d[2] /\ e[n] \in Nat /\ d[2] + e[n] = d[n + 1]
    BY <1>5, <2>1
  <2> QED
    BY <1>2, <1>3, <2>2, Sizes
<1>7. \A i \in 1 .. n : Place(y, e[i]) = Place(x, d[i + 1])
  <2> SUFFICES ASSUME NEW i \in 1 .. n PROVE Place(y, e[i]) = Place(x, d[i + 1])
    OBVIOUS
  <2>1. e[i] \in Nat /\ d[2] + e[i] = d[i + 1] /\ d[2] + e[i] < R
    BY <1>2, <1>3, <1>4, <1>5, Sizes
  <2> QED
    BY <1>3, <2>1, PlaceOfPlace
<1>8. \A i \in 1 .. n - 1 : e[i + 1] = e[i] + Space(t[i].len) /\ t[i].at = Place(y, e[i])
  <2> SUFFICES ASSUME NEW i \in 1 .. n - 1
               PROVE  e[i + 1] = e[i] + Space(t[i].len) /\ t[i].at = Place(y, e[i])
    OBVIOUS
  <2>1. i \in 1 .. n /\ i + 1 \in 1 .. n /\ t[i] = s[i + 1]
    BY <1>1
  <2>2. d[(i + 1) + 1] = d[i + 1] + Space(s[i + 1].len) /\ s[i + 1].at = Place(x, d[i + 1])
    BY <1>2, <2>1
  <2>3. e[i + 1] = d[(i + 1) + 1] - d[2] /\ e[i] = d[i + 1] - d[2]
    BY <1>5, <2>1
  <2>4. d[(i + 1) + 1] \in Nat /\ d[i + 1] \in Nat /\ Space(s[i + 1].len) \in Nat
    <3>1. s[i + 1] \in InMem
      BY <2>1 DEF n
    <3>2. s[i + 1].len \in Lengths
      BY <3>1 DEF InMem
    <3> QED
      BY <1>3, <2>1, <3>2, SpaceFacts
  <2>5. t[i].at = Place(y, e[i])
    BY <1>7, <2>1, <2>2
  <2> QED
    BY <1>3, <2>1, <2>2, <2>3, <2>4, <2>5
<1>9. \A i, j \in 1 .. n : i < j => e[i] < e[j]
  <2> SUFFICES ASSUME NEW i \in 1 .. n, NEW j \in 1 .. n, i < j PROVE e[i] < e[j]
    OBVIOUS
  <2>1. d[i + 1] < d[j + 1]
    BY <1>1, <1>2, <1>3
  <2> QED
    BY <1>3, <1>5, <2>1
<1>10. \A i \in 1 .. n : e[i] % 4 = 0
  <2> SUFFICES ASSUME NEW i \in 1 .. n PROVE e[i] % 4 = 0
    OBVIOUS
  <2>1. d[i + 1] % 4 = 0 /\ d[i + 1] \in Nat /\ e[i] = d[i + 1] - d[2]
    BY <1>2, <1>3, <1>5
  <2> DEFINE p == d[i + 1]
             q == d[2]
  <2>2. p \in Nat /\ q \in Nat /\ p % 4 = 0 /\ q % 4 = 0
    BY <1>3, <2>1
  <2> HIDE DEF p, q
  <2>3. (p - q) % 4 = 0
    BY <2>2
  <2> QED
    BY <2>1, <2>3 DEF p, q
<1>11. Dist(t, y, e)
  <2>1. Len(t) + 1 = n
    BY <1>1
  <2> QED
    BY <1>1, <1>5, <1>6, <1>8, <1>9, <1>10, <2>1 DEF Dist
<1>12. Place(y, e[Len(t) + 1]) = Place(x, d[n + 1])
  BY <1>1, <1>7
<1> QED
  BY <1>11, <1>12 DEF t, n, y

(* The first frame of the chain is the only one at its place.              *)
LEMMA FirstInChain ==
  ASSUME NEW s \in Seq(InMem), NEW x, IsPlace(x), NEW d, Dist(s, x, d), NEW i \in 1 .. Len(s)
  PROVE  s[i].at = x <=> i = 1
<1>1. d[i] \in 0 .. R - 1 /\ s[i].at = Place(x, d[i])
  BY InChain
<1>2. d[i] = 0 <=> i = 1
  <2>1. 1 \in 1 .. Len(s) + 1 /\ i \in 1 .. Len(s) + 1 /\ (i = 1 \/ 1 < i)
    OBVIOUS
  <2>2. d[1] = 0 /\ (1 < i => d[1] < d[i])
    BY <2>1 DEF Dist
  <2> QED
    BY <2>1, <2>2
<1> QED
  BY <1>1, <1>2, Sizes DEF Place, IsPlace
-----------------------------------------------------------------------------
(* The steps.                                                              *)

LEMMA InitIInv == Init => IInv
<1> SUFFICES ASSUME Init PROVE IInv
  OBVIOUS
<1>1. Typed
  BY Sizes DEF Init, Typed, IsPlace
<1>2. Chained
  <2> DEFINE d == [i \in 1 .. 1 |-> 0]
  <2>1. mem = <<>> /\ Len(mem) = 0 /\ rx_offset = 0 /\ addr = 0
    BY DEF Init
  <2>2. d \in [1 .. 1 -> Nat] /\ d[1] = 0
    OBVIOUS
  <2> HIDE DEF d
  <2>3. Dist(mem, rx_offset, d)
    BY <2>1, <2>2, Sizes DEF Dist
  <2>4. addr = Place(rx_offset, d[Len(mem) + 1])
    BY <2>1, <2>2, Sizes DEF Place
  <2> QED
    BY <2>3, <2>4 DEF Chained
<1>3. Looking /\ Sending
  BY DEF Init, Looking, Handed, Sending
<1> QED
  BY <1>1, <1>2, <1>3 DEF IInv

(* What a received frame finds: the place behind the last one, and room.   *)
LEMMA ReceiveFacts ==
  ASSUME IInv, NEW l \in Lengths, NEW t \in Tags, CardReceive(l, t)
  PROVE  LET f == [at |-> addr, len |-> l, tag |-> t]
         IN f \in InMem /\ mem' = Append(mem, f) /\ Chained'
<1> DEFINE f == [at |-> addr, len |-> l, tag |-> t]
           D(d) == d[Len(mem) + 1]
<1>0. mem \in Seq(InMem) /\ IsPlace(rx_offset) /\ ptr = rx_offset
  BY DEF IInv, Typed
<1>1. PICK d : Dist(mem, rx_offset, d) /\ addr = Place(rx_offset, D(d))
  BY DEF IInv, Chained
<1>2. D(d) \in 0 .. R - 1 /\ D(d) % 4 = 0
  BY <1>0, <1>1, Sizes DEF Dist
<1> DEFINE E == D(d)
<1>3. E \in 0 .. R - 1 /\ E % 4 = 0 /\ addr = Place(rx_offset, E)
  BY <1>1, <1>2
<1>4. IsPlace(addr)
  BY <1>0, <1>3, PlaceIsPlace
<1>5. f \in InMem /\ f.at = addr /\ f.len = l
  BY <1>4, Sizes DEF InMem, IsPlace
<1> HIDE DEF D, E, f
<1>6. E + Space(l) < R
  <2>1. Avail = IF E = 0 THEN 0 ELSE R - E
    BY <1>0, <1>3, AvailIs
  <2>2. Avail = 0 \/ Space(l) < Avail
    BY DEF CardReceive, Fits
  <2> QED
    BY <1>3, <2>1, <2>2, SpaceFacts, Sizes
<1>7. E = d[Len(mem) + 1] /\ f.at = Place(rx_offset, d[Len(mem) + 1])
      /\ d[Len(mem) + 1] + Space(f.len) < R
  BY <1>3, <1>5, <1>6 DEF D, E
<1>8. \A i \in 1 .. Len(mem) : ~Overlap(f, mem[i])
  BY <1>0, <1>1, <1>5, <1>7, NoOverlap
<1>9. Spoilt(f) = mem
  <2>1. Spoilt(f) = [i \in 1 .. Len(mem) |-> mem[i]]
    BY <1>8 DEF Spoilt
  <2> QED
    BY <1>0, <2>1
<1>10. mem' = Append(mem, f) /\ addr' = Align(EndOf(f), 4) % RxBufSize /\ rx_offset' = rx_offset
  BY <1>9 DEF CardReceive, f, driver
<1>11. addr' = Place(rx_offset, E + Space(l))
  <2>1. EndOf(f) = addr + 4 + l
    BY <1>5 DEF EndOf
  <2>2. addr' = Place(addr, Space(l))
    BY <1>4, <1>10, <2>1, NextPlace DEF R
  <2>3. E \in Nat /\ Space(l) \in Nat
    BY <1>3, SpaceFacts, Sizes
  <2> QED
    BY <1>0, <1>3, <1>6, <2>2, <2>3, PlaceOfPlace
<1>12. PICK e : Dist(Append(mem, f), rx_offset, e) /\ e[Len(Append(mem, f)) + 1] = d[Len(mem) + 1] + Space(f.len)
  BY <1>0, <1>1, <1>5, <1>7, ChainGrows
<1>13. Dist(mem', rx_offset', e) /\ addr' = Place(rx_offset', e[Len(mem') + 1])
  BY <1>5, <1>7, <1>10, <1>11, <1>12
<1>14. Chained'
  BY <1>13 DEF Chained
<1> QED
  BY <1>5, <1>10, <1>14 DEF f

LEMMA ReceiveKeeps ==
  ASSUME IInv, NEW l \in Lengths, NEW t \in Tags, CardReceive(l, t)
  PROVE  IInv'
<1>1. PICK f \in InMem : mem' = Append(mem, f)
  BY ReceiveFacts
<1>2. /\ mem' \in Seq(InMem) /\ (mem # <<>> => mem'[1] = mem[1]) /\ mem' # <<>>
  BY <1>1 DEF IInv, Typed
<1>3. /\ rx_offset' = rx_offset /\ ptr' = ptr /\ pc' = pc /\ resume' = resume /\ hdr' = hdr
      /\ owed' = owed /\ current_tx_descriptor' = current_tx_descriptor /\ isr' = isr \cup {ROK}
  BY DEF CardReceive, driver
<1>4. Typed'
  BY <1>2, <1>3 DEF IInv, Typed
<1>5. Looking'
  BY <1>2, <1>3 DEF IInv, Looking, Handed
<1>6. Sending'
  BY <1>3 DEF IInv, Sending, ROK, TOK, RXOVW
<1> QED
  BY <1>4, <1>5, <1>6, ReceiveFacts DEF IInv

(* A step that moves neither frames nor offsets keeps the chain.           *)
LEMMA ChainUnmoved ==
  ASSUME Chained, mem' = mem, addr' = addr, rx_offset' = rx_offset
  PROVE  Chained'
<1>1. PICK d : Dist(mem, rx_offset, d) /\ addr = Place(rx_offset, d[Len(mem) + 1])
  BY DEF Chained
<1>2. Dist(mem', rx_offset', d) /\ addr' = Place(rx_offset', d[Len(mem') + 1])
  BY <1>1
<1> QED
  BY <1>2 DEF Chained

LEMMA CardKeeps ==
  ASSUME IInv, CardTransmit \/ \E l \in Lengths : CardDrop(l)
  PROVE  IInv'
<1>1. /\ mem' = mem /\ addr' = addr /\ rx_offset' = rx_offset /\ ptr' = ptr /\ pc' = pc
      /\ resume' = resume /\ hdr' = hdr /\ current_tx_descriptor' = current_tx_descriptor
  BY DEF CardTransmit, CardDrop, card, driver
<1>2. \/ isr' = isr \cup {RXOVW} /\ owed' = owed
      \/ isr' = isr \cup {TOK} /\ \E d \in owed : owed' = owed \ {d}
  BY DEF CardTransmit, CardDrop, card
<1>3. Typed' /\ Looking'
  BY <1>1 DEF IInv, Typed, Looking, Handed
<1>4. Sending'
  <2>0. /\ isr \subseteq {ROK, TOK, RXOVW} /\ current_tx_descriptor \in {0, 1}
        /\ owed \subseteq {current_tx_descriptor} /\ (owed # {} => pc = "sending")
        /\ current_tx_descriptor = 0 /\ TOK \in isr => pc = "sending" /\ owed = {}
    BY DEF IInv, Sending
  <2>1. CASE isr' = isr \cup {RXOVW} /\ owed' = owed
    <3>1. isr' \subseteq {ROK, TOK, RXOVW} /\ (TOK \in isr' => TOK \in isr)
      BY <2>0, <2>1 DEF ROK, TOK, RXOVW
    <3> QED
      BY <1>1, <2>0, <2>1, <3>1 DEF Sending
  <2>2. CASE isr' = isr \cup {TOK} /\ \E d \in owed : owed' = owed \ {d}
    <3>1. isr' \subseteq {ROK, TOK, RXOVW}
      BY <2>0, <2>2
    <3>2. owed # {} /\ owed' = {}
      BY <2>0, <2>2
    <3> QED
      BY <1>1, <2>0, <3>1, <3>2 DEF Sending
  <2> QED
    BY <1>2, <2>1, <2>2
<1> QED
  BY <1>1, <1>3, <1>4, ChainUnmoved DEF IInv

LEMMA PingKeeps ==
  ASSUME IInv, command_ping
  PROVE  IInv'
<1>1. /\ mem' = mem /\ addr' = addr /\ rx_offset' = rx_offset /\ ptr' = ptr /\ hdr' = hdr
      /\ isr' = isr /\ current_tx_descriptor' = current_tx_descriptor
      /\ pc = "idle" /\ pc' = "sending" /\ resume' = "idle"
      /\ owed' = owed \cup {current_tx_descriptor}
  BY DEF command_ping, StartSend
<1>2. Typed' /\ Looking' /\ Sending'
  BY <1>1 DEF IInv, Typed, Looking, Handed, Sending
<1> QED
  BY <1>1, <1>2, ChainUnmoved DEF IInv

(* Only the first send returns: bit 3, for which the second one waits, is  *)
(* never set.                                                              *)
LEMMA SendReturnsKeeps ==
  ASSUME IInv, SendReturns
  PROVE  IInv'
<1>1. /\ mem' = mem /\ addr' = addr /\ rx_offset' = rx_offset /\ ptr' = ptr /\ hdr' = hdr
      /\ pc = "sending" /\ pc' = resume /\ resume' = resume /\ owed' = owed
      /\ isr' = isr \ {WaitBit} /\ WaitBit \in isr
      /\ current_tx_descriptor' = (current_tx_descriptor + 1) % 4
  BY DEF SendReturns, card
<1>2. current_tx_descriptor = 0 /\ current_tx_descriptor' = 1 /\ TOK \in isr
  BY <1>1 DEF IInv, Sending, WaitBit, ROK, TOK, RXOVW
<1>3. owed = {}
  BY <1>2 DEF IInv, Sending
<1>4. Sending'
  BY <1>1, <1>2, <1>3 DEF IInv, Sending
<1>5. Typed' /\ Looking'
  BY <1>1 DEF IInv, Typed, Looking, Handed
<1> QED
  BY <1>1, <1>4, <1>5, ChainUnmoved DEF IInv

(* The driver finds the frame that has waited longest.                     *)
LEMMA PollHeaderKeeps ==
  ASSUME IInv, PollHeader
  PROVE  IInv'
<1>1. /\ mem' = mem /\ addr' = addr /\ rx_offset' = rx_offset /\ ptr' = ptr /\ resume' = resume
      /\ isr' = isr /\ current_tx_descriptor' = current_tx_descriptor /\ owed' = owed
      /\ pc = "idle" /\ pc' = "handling" /\ hdr' \in HeaderAt(rx_offset) /\ ~BufferEmpty
  BY DEF PollHeader, card
<1>2. mem \in Seq(InMem) /\ IsPlace(rx_offset) /\ ptr = rx_offset
  BY DEF IInv, Typed
<1>3. PICK d : Dist(mem, rx_offset, d) /\ addr = Place(rx_offset, d[Len(mem) + 1])
  BY DEF IInv, Chained
<1>4. d[Len(mem) + 1] \in 0 .. R - 1
  BY <1>2, <1>3, Sizes DEF Dist
<1>5. d[Len(mem) + 1] # 0
  BY <1>1, <1>2, <1>3, <1>4, AvailIs
<1>6. Len(mem) # 0 /\ 1 \in 1 .. Len(mem) /\ mem # <<>>
  BY <1>2, <1>3, <1>5 DEF Dist
<1>7. \A i \in 1 .. Len(mem) : mem[i].at = rx_offset <=> i = 1
  BY <1>2, <1>3, FirstInChain
<1>8. mem[1].tag # Garbage
  <2>1. mem[1].tag \in Tags
    BY <1>2, <1>3, <1>6, InChain
  <2> QED
    BY <2>1, Rtl8139Assumption
<1>9. hdr' = mem[1]
  <2>1. Range(mem) = {mem[i] : i \in 1 .. Len(mem)}
    BY <1>2 DEF Range
  <2>2. {f \in Range(mem) : f.at = rx_offset /\ f.tag # Garbage} = {mem[1]}
    BY <1>6, <1>7, <1>8, <2>1
  <2>3. HeaderAt(rx_offset) = {mem[1]}
    BY <2>2 DEF HeaderAt
  <2> QED
    BY <1>1, <2>3
<1>10. Typed' /\ Looking'
  BY <1>1, <1>6, <1>9 DEF IInv, Typed, Looking, Handed
<1>11. Sending'
  BY <1>1 DEF IInv, Sending
<1> QED
  BY <1>1, <1>10, <1>11, ChainUnmoved DEF IInv

LEMMA HandlePacketKeeps ==
  ASSUME IInv, HandlePacket
  PROVE  IInv'
<1>1. /\ mem' = mem /\ addr' = addr /\ rx_offset' = rx_offset /\ ptr' = ptr /\ hdr' = hdr
      /\ isr' = isr /\ current_tx_descriptor' = current_tx_descriptor /\ pc = "handling"
  BY DEF HandlePacket
<1>2. \/ pc' = "sending" /\ resume' = "advance" /\ owed' = owed \cup {current_tx_descriptor}
      \/ pc' = "advance" /\ resume' = resume /\ owed' = owed
  BY DEF HandlePacket, StartSend
<1>3. Typed' /\ Looking' /\ Sending'
  BY <1>1, <1>2 DEF IInv, Typed, Looking, Handed, Sending
<1> QED
  BY <1>1, <1>3, ChainUnmoved DEF IInv

LEMMA PollAdvanceKeeps ==
  ASSUME IInv, PollAdvance
  PROVE  IInv' /\ mem # <<>> /\ mem' = Tail(mem)
<1>1. mem \in Seq(InMem) /\ IsPlace(rx_offset) /\ ptr = rx_offset
  BY DEF IInv, Typed
<1>2. mem # <<>> /\ hdr = mem[1] /\ Head(mem) = hdr /\ 1 \in 1 .. Len(mem)
  BY <1>1 DEF IInv, Looking, Handed, PollAdvance
<1>3. mem' = Tail(mem) /\ mem' \in Seq(InMem)
  BY <1>1, <1>2 DEF PollAdvance
<1>4. PICK d : Dist(mem, rx_offset, d) /\ addr = Place(rx_offset, d[Len(mem) + 1])
  BY DEF IInv, Chained
<1>5. hdr.len \in Lengths
  BY <1>1, <1>2, <1>4, InChain
<1>6. d[2] = Space(hdr.len)
  <2>1. d[1 + 1] = d[1] + Space(mem[1].len) /\ d[1] = 0
    BY <1>2, <1>4 DEF Dist
  <2> QED
    BY <1>2, <1>5, <2>1, SpaceFacts
<1>7. NextOffset = Place(rx_offset, d[2])
  <2>1. rx_offset + hdr.len + 4 = rx_offset + 4 + hdr.len
    <3>1. hdr.len \in Nat
      BY <1>5, SpaceFacts
    <3>2. rx_offset \in Nat
      BY <1>1, Sizes DEF IsPlace
    <3> QED
      BY <3>1, <3>2
  <2> QED
    BY <1>1, <1>5, <1>6, <2>1, NextPlace DEF NextOffset, R
<1>8. IsPlace(NextOffset)
  <2>1. Space(hdr.len) \in Nat /\ Space(hdr.len) < R /\ Space(hdr.len) % 4 = 0
    BY <1>5, SpaceFacts
  <2>2. d[2] \in 0 .. R - 1 /\ d[2] % 4 = 0
    BY <1>6, <2>1, Sizes
  <2> QED
    BY <1>1, <1>7, <2>2, PlaceIsPlace
<1>9. /\ rx_offset' = NextOffset /\ ptr' = NextOffset /\ addr' = addr /\ owed' = owed
      /\ pc = "advance" /\ pc' = "idle" /\ resume' = resume /\ isr' = isr \ {ROK}
      /\ current_tx_descriptor' = current_tx_descriptor
  BY <1>8, PtrAfterIs DEF PollAdvance, card
<1>10. PICK e : /\ Dist(Tail(mem), Place(rx_offset, d[2]), e)
                /\ Place(Place(rx_offset, d[2]), e[Len(Tail(mem)) + 1]) = Place(rx_offset, d[Len(mem) + 1])
  BY <1>1, <1>2, <1>4, ChainShrinks
<1>11. Dist(mem', rx_offset', e) /\ addr' = Place(rx_offset', e[Len(mem') + 1])
  BY <1>3, <1>4, <1>7, <1>9, <1>10
<1>12. Chained'
  BY <1>11 DEF Chained
<1>13. Typed' /\ Looking'
  BY <1>3, <1>8, <1>9 DEF IInv, Typed, Looking, Handed
<1>14. Sending'
  BY <1>9 DEF IInv, Sending
<1> QED
  BY <1>2, <1>3, <1>12, <1>13, <1>14 DEF IInv

LEMMA NextKeeps == IInv /\ [Next]_vars => IInv'
<1> SUFFICES ASSUME IInv, [Next]_vars PROVE IInv'
  OBVIOUS
<1>1. ASSUME NEW l \in Lengths, NEW t \in Tags, CardReceive(l, t) PROVE IInv'
  BY <1>1, ReceiveKeeps
<1>2. CASE CardTransmit \/ \E l \in Lengths : CardDrop(l)
  BY <1>2, CardKeeps
<1>3. CASE command_ping
  BY <1>3, PingKeeps
<1>4. CASE SendReturns
  BY <1>4, SendReturnsKeeps
<1>5. CASE PollHeader
  BY <1>5, PollHeaderKeeps
<1>6. CASE HandlePacket
  BY <1>6, HandlePacketKeeps
<1>7. CASE PollAdvance
  BY <1>7, PollAdvanceKeeps
<1>8. CASE UNCHANGED vars
  <2>1. /\ mem' = mem /\ addr' = addr /\ rx_offset' = rx_offset /\ ptr' = ptr /\ hdr' = hdr
        /\ isr' = isr /\ current_tx_descriptor' = current_tx_descriptor /\ owed' = owed
        /\ pc' = pc /\ resume' = resume
    BY <1>8 DEF vars, card, driver
  <2>2. Typed' /\ Looking' /\ Sending'
    BY <2>1 DEF IInv, Typed, Looking, Handed, Sending
  <2> QED
    BY <2>1, <2>2, ChainUnmoved DEF IInv
<1> QED
  BY <1>1, <1>2, <1>3, <1>4, <1>5, <1>6, <1>7, <1>8 DEF Next, Driver

(* Card and driver agree on where the frames are, whoever moves next.      *)
THEOREM RingInv == Spec => []IInv
  BY InitIInv, NextKeeps, PTL DEF Spec
-----------------------------------------------------------------------------
(* What the card writes stays inside the block of rtl8139_init: the        *)
(* padding of RX_TOTAL_SIZE is two bytes short of the longest frame at the *)
(* last offset, and kmalloc's rounding adds four.                          *)
THEOREM RingStaysInBlock == Spec => []StaysInBlock
<1>1. IInv => StaysInBlock
  <2> SUFFICES ASSUME IInv, NEW i \in 1 .. Len(mem) PROVE EndOf(mem[i]) <= BlockBytes
    BY DEF StaysInBlock
  <2>1. mem \in Seq(InMem) /\ IsPlace(rx_offset)
    BY DEF IInv, Typed
  <2>2. PICK d : Dist(mem, rx_offset, d)
    BY DEF IInv, Chained
  <2>3. mem[i].len \in Lengths /\ IsPlace(mem[i].at)
    BY <2>1, <2>2, InChain
  <2> DEFINE a == mem[i].at
             l == mem[i].len
  <2>4. a \in Nat /\ a < R /\ a % 4 = 0 /\ l \in Nat /\ l <= Mtu + 18 /\ Mtu \in Nat
    <3>1. l \in Nat /\ l <= Mtu + 18 /\ Mtu \in Nat
      BY <2>3, SpaceFacts
    <3>2. a \in Nat /\ a < R /\ a % 4 = 0
      BY <2>3, Sizes DEF IsPlace
    <3> QED
      BY <3>1, <3>2
  <2>5. EndOf(mem[i]) = a + 4 + l
    BY DEF EndOf
  <2> HIDE DEF a, l
  <2>6. a <= R - 4
    BY <2>4, Sizes
  <2>7. BlockBytes = ((R + 16 + Mtu + 7) \div 8) * 8 /\ Mtu % 8 = 4
    <3>1. Mtu % 8 = 4
      BY Rtl8139Assumption
    <3>2. R + 16 + Mtu + 8 - 1 = R + 16 + Mtu + 7
      BY <2>4, Sizes
    <3> QED
      BY <3>1, <3>2 DEF BlockBytes, Align, RX_TOTAL_SIZE, R
  <2>8. BlockBytes >= R + Mtu + 18
    BY <2>4, <2>7, Sizes
  <2>9. BlockBytes \in Int
    BY <2>4, <2>7, Sizes
  <2> QED
    BY <2>4, <2>5, <2>6, <2>8, <2>9, Sizes
<1> QED
  BY <1>1, RingInv, PTL

(* rtl8139_send_packet does not return, and so does not give the frame's   *)
(* buffer back, before the card has transmitted it: the bit that it waits  *)
(* for is never one left over from an earlier send or from reception.      *)
THEOREM SendHoldsBuffer == Spec => []BufferHeldUntilSent
<1>1. IInv => BufferHeldUntilSent
  BY DEF IInv, Sending, BufferHeldUntilSent
<1> QED
  BY <1>1, RingInv, PTL
-----------------------------------------------------------------------------
Unread(s) == UNION {RingBytes(s[i]) : i \in 1 .. Len(s)}

(* Every distance before the last one lies in some frame.                  *)
LEMMA SomeFrame ==
  ASSUME NEW s \in Seq(InMem), NEW x, IsPlace(x), NEW d, Dist(s, x, d),
         NEW k \in Nat, k < d[Len(s) + 1]
  PROVE  \E i \in 1 .. Len(s) : d[i] <= k /\ k < d[i] + Space(s[i].len)
<1> DEFINE n == Len(s)
           S == {i \in 1 .. n + 1 : k < d[i]}
           m == Min(S)
<1>1. n \in Nat /\ n + 1 \in 1 .. n + 1 /\ d[1] = 0
  BY DEF Dist
<1>2. S \in SUBSET Nat /\ S # {}
  BY <1>1
<1>3. m \in S /\ \A y \in S : m <= y
  BY <1>2, MinNat
<1> HIDE DEF m
<1>4. m \in 1 .. n + 1 /\ k < d[m] /\ m # 1
  BY <1>1, <1>3
<1>5. m - 1 \in 1 .. n /\ (m - 1) + 1 = m /\ m - 1 \in 1 .. n + 1 /\ ~(m <= m - 1)
  BY <1>1, <1>4
<1>6. ~(k < d[m - 1])
  BY <1>3, <1>5
<1>7. d[m - 1] \in Nat /\ d[(m - 1) + 1] = d[m - 1] + Space(s[m - 1].len)
  BY <1>5 DEF Dist
<1>8. d[m - 1] <= k /\ k < d[m - 1] + Space(s[m - 1].len)
  BY <1>4, <1>5, <1>6, <1>7
<1> QED
  BY <1>5, <1>8

(* Byte k of frame i, seen from the offset.                                *)
LEMMA ByteOfFrame ==
  ASSUME NEW s \in Seq(InMem), NEW x, IsPlace(x), NEW d, Dist(s, x, d), NEW i \in 1 .. Len(s),
         NEW k \in 0 .. Space(s[i].len) - 1
  PROVE  /\ (s[i].at + k) % RxBufSize = Place(x, d[i] + k)
         /\ d[i] + k \in 0 .. d[Len(s) + 1] - 1
<1> DEFINE a == s[i].at
           e == d[i]
           D == d[Len(s) + 1]
           z == Space(s[i].len)
<1>1. /\ a = Place(x, e) /\ IsPlace(a) /\ e \in Nat /\ D \in Nat /\ D < R /\ z \in Nat
      /\ e + z <= D
  BY InChain, Sizes
<1>2. k \in 0 .. z - 1
  OBVIOUS
<1> HIDE DEF a, e, D, z
<1>3. k \in Nat /\ k < z /\ e + k < D /\ e + k \in 0 .. D - 1 /\ e + k < R
  BY <1>1, <1>2, Sizes
<1>4. a \in Nat /\ a < R /\ a + k \in 0 .. 2 * R - 1
  BY <1>1, <1>3, Sizes DEF IsPlace
<1>5. (a + k) % R = Place(a, k)
  <2> DEFINE y == a + k
  <2> HIDE DEF y
  <2>1. y \in 0 .. 2 * R - 1 => y % R = IF y < R THEN y ELSE y - R
    BY ModPlace
  <2> QED
    BY <1>3, <1>4, <2>1, Sizes DEF y, Place
<1>6. Place(a, k) = Place(x, e + k)
  BY <1>1, <1>3, PlaceOfPlace
<1> QED
  BY <1>3, <1>5, <1>6 DEF a, e, D, R

(* The frames in the ring take up as many of its bytes as there are from   *)
(* the driver's offset to the card's.                                      *)
LEMMA UnreadCount ==
  ASSUME NEW s \in Seq(InMem), NEW x, IsPlace(x), NEW d, Dist(s, x, d)
  PROVE  Cardinality(Unread(s)) = d[Len(s) + 1]
<1> DEFINE D == d[Len(s) + 1]
           U == Unread(s)
           f == [k \in 0 .. D - 1 |-> Place(x, k)]
<1>1. D \in Nat /\ D < R
  BY Sizes DEF Dist
<1>2. \A k \in 0 .. D - 1 : Place(x, k) \in U
  <2> SUFFICES ASSUME NEW k \in 0 .. D - 1 PROVE Place(x, k) \in U
    OBVIOUS
  <2>1. k \in Nat /\ k < D
    BY <1>1
  <2>2. PICK i \in 1 .. Len(s) : d[i] <= k /\ k < d[i] + Space(s[i].len)
    BY <2>1, SomeFrame
  <2>3. d[i] \in Nat /\ Space(s[i].len) \in Nat
    BY InChain, Sizes
  <2>4. k - d[i] \in 0 .. Space(s[i].len) - 1 /\ d[i] + (k - d[i]) = k
    BY <2>1, <2>2, <2>3
  <2> DEFINE j == k - d[i]
  <2> HIDE DEF j
  <2>5. j \in 0 .. Space(s[i].len) - 1 /\ d[i] + j = k
    BY <2>4 DEF j
  <2>6. (s[i].at + j) % RxBufSize = Place(x, k)
    BY <2>5, ByteOfFrame
  <2>7. Place(x, k) \in RingBytes(s[i])
    BY <2>5, <2>6 DEF RingBytes
  <2> QED
    BY <2>7 DEF Unread
<1>3. \A y \in U : \E k \in 0 .. D - 1 : y = Place(x, k)
  <2> SUFFICES ASSUME NEW y \in U PROVE \E k \in 0 .. D - 1 : y = Place(x, k)
    OBVIOUS
  <2>1. PICK i \in 1 .. Len(s) : y \in RingBytes(s[i])
    BY DEF Unread
  <2>2. PICK k \in 0 .. Space(s[i].len) - 1 : y = (s[i].at + k) % RxBufSize
    BY <2>1 DEF RingBytes
  <2> QED
    BY <2>2, ByteOfFrame
<1>4. \A j, k \in 0 .. D - 1 : Place(x, j) = Place(x, k) => j = k
  BY <1>1, Sizes DEF Place, IsPlace
<1> HIDE DEF D, U
<1>5. f \in [0 .. D - 1 -> U]
  BY <1>2
<1>6. f \in Surjection(0 .. D - 1, U)
  BY <1>3, <1>5 DEF Surjection
<1>7. f \in Injection(0 .. D - 1, U)
  BY <1>4, <1>5 DEF Injection, IsInjective
<1>8. IsFiniteSet(0 .. D - 1) /\ Cardinality(0 .. D - 1) = D
  <2>1. 0 \in Int /\ D - 1 \in Int
    BY <1>1
  <2>2. /\ IsFiniteSet(0 .. D - 1)
        /\ Cardinality(0 .. D - 1) = IF 0 > D - 1 THEN 0 ELSE (D - 1) - 0 + 1
    BY <2>1, FS_Interval
  <2> QED
    BY <1>1, <2>2
<1>9. Cardinality(U) = D
  BY <1>6, <1>7, <1>8, FS_Surjection
<1> QED
  BY <1>9 DEF D, U

(* The driver gives back all that it has read, at once: a frame is refused *)
(* only when those that were not read leave no room for it.                *)
THEOREM LossesMeanFull == Spec => []LossOnlyWhenFull
<1>1. IInv => LossOnlyWhenFull
  <2> SUFFICES ASSUME IInv, NEW l \in Lengths
               PROVE  Fits(l) \/ Cardinality(Unread(mem)) + Space(l) >= RxBufSize
    BY DEF LossOnlyWhenFull, Unread
  <2>1. mem \in Seq(InMem) /\ IsPlace(rx_offset) /\ ptr = rx_offset
    BY DEF IInv, Typed
  <2>2. PICK d : Dist(mem, rx_offset, d) /\ addr = Place(rx_offset, d[Len(mem) + 1])
    BY DEF IInv, Chained
  <2> DEFINE D == d[Len(mem) + 1]
  <2>3. D \in 0 .. R - 1
    BY <2>1, <2>2, Sizes DEF Dist
  <2>4. Cardinality(Unread(mem)) = D
    BY <2>1, <2>2, UnreadCount
  <2>5. addr = Place(rx_offset, D)
    BY <2>2
  <2> HIDE DEF D
  <2>6. Avail = IF D = 0 THEN 0 ELSE R - D
    BY <2>1, <2>3, <2>5, AvailIs
  <2>7. Space(l) \in Nat
    BY SpaceFacts
  <2>8. Avail = 0 \/ Space(l) < Avail \/ D + Space(l) >= R
    BY <2>3, <2>6, <2>7, Sizes
  <2> QED
    BY <2>4, <2>8 DEF Fits, R
<1> QED
  BY <1>1, RingInv, PTL
-----------------------------------------------------------------------------
(* The ring implements a queue.                                            *)

(* The frames s without the first, if that one was handed over.            *)
Rest(s, handed) == LET k == IF handed THEN 1 ELSE 0
                   IN [i \in 1 .. Len(s) - k |-> Content(s[i + k])]

LEMMA RestIs ==
  ASSUME NEW s \in Seq(InMem)
  PROVE  /\ Rest(s, FALSE) = [i \in 1 .. Len(s) |-> Content(s[i])]
         /\ Rest(s, TRUE) = [i \in 1 .. Len(s) - 1 |-> Content(s[i + 1])]
<1>1. Rest(s, FALSE) = [i \in 1 .. Len(s) - 0 |-> Content(s[i + 0])]
  BY DEF Rest
<1>2. Len(s) - 0 = Len(s) /\ \A i \in 1 .. Len(s) : i + 0 = i
  OBVIOUS
<1>3. Rest(s, TRUE) = [i \in 1 .. Len(s) - 1 |-> Content(s[i + 1])]
  BY DEF Rest
<1> QED
  BY <1>1, <1>2, <1>3

LEMMA WaitingIs ==
  ASSUME mem \in Seq(InMem), mem' \in Seq(InMem)
  PROVE  /\ ~Handed => Waiting = [i \in 1 .. Len(mem) |-> Content(mem[i])]
         /\ Handed => Waiting = [i \in 1 .. Len(mem) - 1 |-> Content(mem[i + 1])]
         /\ ~Handed' => Waiting' = [i \in 1 .. Len(mem') |-> Content(mem'[i])]
         /\ Handed' => Waiting' = [i \in 1 .. Len(mem') - 1 |-> Content(mem'[i + 1])]
<1>1. (~Handed => Waiting = Rest(mem, FALSE)) /\ (Handed => Waiting = Rest(mem, TRUE))
  BY DEF Waiting, Rest
<1>2. (~Handed' => Waiting' = Rest(mem', FALSE)) /\ (Handed' => Waiting' = Rest(mem', TRUE))
  BY DEF Waiting, Rest
<1>3. /\ Rest(mem, FALSE) = [i \in 1 .. Len(mem) |-> Content(mem[i])]
      /\ Rest(mem, TRUE) = [i \in 1 .. Len(mem) - 1 |-> Content(mem[i + 1])]
  BY RestIs
<1>4. /\ Rest(mem', FALSE) = [i \in 1 .. Len(mem') |-> Content(mem'[i])]
      /\ Rest(mem', TRUE) = [i \in 1 .. Len(mem') - 1 |-> Content(mem'[i + 1])]
  BY RestIs
<1> QED
  BY <1>1, <1>2, <1>3, <1>4

LEMMA InitAbstract == Init => Abstract!Init
<1> SUFFICES ASSUME Init PROVE Waiting = <<>> /\ last = NoFrame
  BY DEF Abstract!Init
<1>1. mem = <<>> /\ ~Handed /\ last = NoFrame
  BY DEF Init, Handed
<1>2. Waiting = Rest(mem, FALSE)
  BY <1>1 DEF Waiting, Rest
<1>3. mem \in Seq(InMem)
  BY InitIInv DEF IInv, Typed
<1>4. Waiting = [i \in 1 .. Len(mem) |-> Content(mem[i])]
  BY <1>2, <1>3, RestIs
<1>5. Waiting = [i \in 1 .. 0 |-> Content(mem[i])]
  BY <1>1, <1>4
<1> QED
  BY <1>1, <1>5

(* Received: taken into the queue.                                         *)
LEMMA ReceiveTakes ==
  ASSUME IInv, NEW l \in Lengths, NEW t \in Tags, CardReceive(l, t)
  PROVE  Abstract!Take([len |-> l, tag |-> t])
<1> DEFINE f == [at |-> addr, len |-> l, tag |-> t]
           c == [len |-> l, tag |-> t]
           n == Len(mem)
<1>1. mem' = Append(mem, f) /\ mem \in Seq(InMem)
  BY ReceiveFacts DEF IInv, Typed
<1>2. Content(f) = c
  BY DEF Content
<1> HIDE DEF f, c
<1>3. Len(mem') = n + 1 /\ n \in Nat /\ mem'[n + 1] = f /\ \A i \in 1 .. n : mem'[i] = mem[i]
  BY <1>1
<1>4. last' = last /\ (Handed' <=> Handed)
  BY DEF CardReceive, driver, Handed
<1>5. mem' \in Seq(InMem) /\ (Handed => n >= 1)
  BY <1>1, ReceiveKeeps DEF IInv, Typed, Looking
<1> HIDE DEF n
<1>6. Waiting' = Append(Waiting, c)
  <2>1. CASE ~Handed
    <3>1. Waiting = [i \in 1 .. n |-> Content(mem[i])]
      BY <1>1, <1>5, <2>1, WaitingIs DEF n
    <3>2. Waiting' = [i \in 1 .. n + 1 |-> Content(mem'[i])]
      BY <1>1, <1>3, <1>4, <1>5, <2>1, WaitingIs
    <3>3. Append(Waiting, c) = [i \in 1 .. n + 1 |-> IF i = n + 1 THEN c ELSE Content(mem[i])]
      BY <1>3, <3>1
    <3>4. \A i \in 1 .. n + 1 : Content(mem'[i]) = IF i = n + 1 THEN c ELSE Content(mem[i])
      BY <1>2, <1>3
    <3> QED
      BY <3>2, <3>3, <3>4
  <2>2. CASE Handed
    <3>1. Waiting = [i \in 1 .. n - 1 |-> Content(mem[i + 1])] /\ n >= 1
      BY <1>1, <1>5, <2>2, WaitingIs DEF n
    <3>2. Waiting' = [i \in 1 .. n |-> Content(mem'[i + 1])]
      <4>1. Waiting' = [i \in 1 .. Len(mem') - 1 |-> Content(mem'[i + 1])]
        BY <1>1, <1>4, <1>5, <2>2, WaitingIs
      <4>2. Len(mem') - 1 = n
        BY <1>3
      <4> QED
        BY <4>1, <4>2
    <3>3. Append(Waiting, c) = [i \in 1 .. n |-> IF i = n THEN c ELSE Content(mem[i + 1])]
      BY <1>3, <3>1
    <3>4. \A i \in 1 .. n : Content(mem'[i + 1]) = IF i = n THEN c ELSE Content(mem[i + 1])
      BY <1>2, <1>3
    <3> QED
      BY <3>2, <3>3, <3>4
  <2> QED
    BY <2>1, <2>2
<1> QED
  BY <1>4, <1>6 DEF Abstract!Take, c

(* Handed to ethernet_handle_packet: the first of the queue, intact.       *)
LEMMA HandleHandsOver ==
  ASSUME IInv, HandlePacket
  PROVE  Abstract!HandOver
<1>1. mem \in Seq(InMem) /\ mem # <<>> /\ hdr = mem[1] /\ Len(mem) \in Nat /\ Len(mem) >= 1
  BY DEF IInv, Typed, Looking, HandlePacket
<1>2. mem' = mem /\ ~Handed /\ Handed'
  BY DEF HandlePacket, StartSend, Handed
<1>3. Waiting = [i \in 1 .. Len(mem) |-> Content(mem[i])]
  BY <1>1, <1>2, WaitingIs
<1>4. Waiting' = [i \in 1 .. Len(mem) - 1 |-> Content(mem[i + 1])]
  BY <1>1, <1>2, WaitingIs
<1>5. hdr \in Range(mem)
  BY <1>1 DEF Range
<1>6. last' = Content(mem[1])
  BY <1>1, <1>5 DEF HandlePacket
<1>7. Waiting # <<>> /\ Head(Waiting) = Content(mem[1])
  BY <1>1, <1>3
<1>8. Tail(Waiting) = [i \in 1 .. Len(mem) - 1 |-> Content(mem[i + 1])]
  BY <1>1, <1>3
<1> QED
  BY <1>4, <1>6, <1>7, <1>8 DEF Abstract!HandOver

(* Given back: the frame was out of the queue already.                     *)
LEMMA AdvanceStutters ==
  ASSUME IInv, PollAdvance
  PROVE  Waiting' = Waiting /\ last' = last
<1>1. mem \in Seq(InMem) /\ Len(mem) \in Nat
  BY DEF IInv, Typed
<1>2. mem # <<>> /\ mem' = Tail(mem) /\ mem' \in Seq(InMem)
  BY <1>1, PollAdvanceKeeps
<1>3. Handed /\ ~Handed' /\ last' = last
  BY DEF PollAdvance, Handed
<1>4. Len(mem') = Len(mem) - 1 /\ \A i \in 1 .. Len(mem) - 1 : mem'[i] = mem[i + 1]
  BY <1>1, <1>2
<1>5. Waiting = [i \in 1 .. Len(mem) - 1 |-> Content(mem[i + 1])]
  BY <1>1, <1>2, <1>3, WaitingIs
<1>6. Waiting' = [i \in 1 .. Len(mem') |-> Content(mem'[i])]
  BY <1>1, <1>2, <1>3, WaitingIs
<1> QED
  BY <1>3, <1>4, <1>5, <1>6

(* A step that neither moves frames nor hands one over.                    *)
LEMMA OtherStutters ==
  ASSUME mem' = mem, Handed' <=> Handed
  PROVE  Waiting' = Waiting
  BY DEF Waiting

LEMMA NextAbstract == IInv /\ [Next]_vars => [Abstract!Next]_(Abstract!vars)
<1> SUFFICES ASSUME IInv, [Next]_vars
             PROVE  Abstract!Next \/ (Waiting' = Waiting /\ last' = last)
  BY DEF Abstract!vars
<1>1. ASSUME NEW l \in Lengths, NEW t \in Tags, CardReceive(l, t) PROVE Abstract!Next
  <2>1. [len |-> l, tag |-> t] \in Frame
    BY DEF Frame
  <2> QED
    BY <1>1, <2>1, ReceiveTakes DEF Abstract!Next
<1>2. CASE HandlePacket
  BY <1>2, HandleHandsOver DEF Abstract!Next
<1>3. CASE PollAdvance
  BY <1>3, AdvanceStutters
<1>4. CASE CardTransmit \/ \E l \in Lengths : CardDrop(l)
  <2>1. mem' = mem /\ pc' = pc /\ resume' = resume /\ last' = last
    BY <1>4 DEF CardTransmit, CardDrop, driver
  <2> QED
    BY <2>1, OtherStutters DEF Handed
<1>5. CASE command_ping
  BY <1>5, OtherStutters DEF command_ping, StartSend, Handed
<1>6. CASE SendReturns
  <2>1. mem' = mem /\ pc = "sending" /\ pc' = resume /\ resume' = resume /\ last' = last
        /\ resume \in {"idle", "advance"}
    BY <1>6 DEF SendReturns, IInv, Typed
  <2> QED
    BY <2>1, OtherStutters DEF Handed
<1>7. CASE PollHeader
  BY <1>7, OtherStutters DEF PollHeader, Handed
<1>8. CASE UNCHANGED vars
  BY <1>8, OtherStutters DEF vars, driver, Handed
<1> QED
  BY <1>1, <1>2, <1>3, <1>4, <1>5, <1>6, <1>7, <1>8 DEF Next, Driver

(* Card and driver together implement FrameQueue, for every ring: frames   *)
(* are handed to the protocols in the order of their arrival, each once    *)
(* and as it came, through every wrap-around and while others arrive.      *)
THEOREM RingIsQueue == Spec => InOrder
  BY InitAbstract, NextAbstract, RingInv, PTL DEF Spec, InOrder, Abstract!Spec
=============================================================================
