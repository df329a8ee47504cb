---------------------------- MODULE MemoryProofs ----------------------------
(***************************************************************************)
(* The kernel heap keeps its block list sound and its callers' pointers    *)
(* backed, for every heap size, header size, alignment and set of requests *)
(* that satisfy HeapAssumption, and every sequence of calls; and the       *)
(* containers of the library, Vector.tla and HashTable.tla, keep what was  *)
(* put into them, for every number of elements, keys and buckets.          *)
(*                                                                         *)
(* The argument about the heap is in layers: the list operations element   *)
(* by element; what they do to the layout of addresses (Layout); what they *)
(* do to the reservations (Reserved) and to free neighbours (FreePairsIn); *)
(* what kmalloc, kfree and krealloc do (TakeFacts, PutBackFacts,           *)
(* GrowFacts); and the inductive invariant IInv.  At its end, the heap     *)
(* implements the Allocator specification.  The containers have an         *)
(* inductive invariant each, VectorIInv and HashIInv.                      *)
(***************************************************************************)
EXTENDS Heap, Vector, HashTable, SequenceTheorems, FiniteSetTheorems, Arithmetic

(* ALIGN rounds up by less than Alignment when the sum does not wrap.      *)
LEMMA AlignType ==
  ASSUME NEW n \in Nat, n + 2 * Alignment < SizeMod
  PROVE  /\ ALIGN(n) \in Nat /\ ALIGN(n) >= n /\ ALIGN(n) < n + Alignment
<1>1. (n + Alignment - 1) % SizeMod = n + Alignment - 1
  BY HeapAssumption
<1>2. (n + Alignment - 1) % Alignment \in 0 .. Alignment - 1
  BY HeapAssumption
<1> QED BY <1>1, <1>2, HeapAssumption DEF ALIGN

(* InsertAt, element by element: what follows position i moves up by one.  *)
LEMMA InsertAtProperties ==
  ASSUME NEW S, NEW s \in Seq(S), NEW i \in 1 .. Len(s) + 1, NEW e \in S
  PROVE  /\ InsertAt(s, i, e) \in Seq(S)
         /\ Len(InsertAt(s, i, e)) = Len(s) + 1
         /\ \A j \in 1 .. Len(s) + 1 :
              InsertAt(s, i, e)[j] = IF j < i THEN s[j] ELSE IF j = i THEN e ELSE s[j - 1]
<1> DEFINE a == SubSeq(s, 1, i - 1)
           b == SubSeq(s, i, Len(s))
<1>1. Len(s) \in Nat /\ \A j \in 1 .. Len(s) : s[j] \in S
  BY LenProperties, ElementOfSeq
<1>2. /\ a \in Seq(S) /\ Len(a) = i - 1
      /\ \A j \in 1 .. i - 1 : a[j] = s[j]
  <2>1. \A j \in 1 .. i - 1 : s[j] \in S
    BY <1>1
  <2> QED BY <1>1, <2>1, SubSeqProperties
<1>3. /\ b \in Seq(S) /\ Len(b) = Len(s) - i + 1
      /\ \A j \in 1 .. Len(s) - i + 1 : b[j] = s[i + j - 1]
  <2>1. \A j \in i .. Len(s) : s[j] \in S
    BY <1>1
  <2> QED BY <1>1, <2>1, SubSeqProperties
<1>4. <<e>> \in Seq(S) /\ Len(<<e>>) = 1 /\ <<e>>[1] = e
  OBVIOUS
<1> HIDE DEF a, b
<1>5. /\ a \o <<e>> \in Seq(S) /\ Len(a \o <<e>>) = i
      /\ \A j \in 1 .. i : (a \o <<e>>)[j] = IF j < i THEN s[j] ELSE e
  BY <1>1, <1>2, <1>4, ConcatProperties
<1> DEFINE c == a \o <<e>>
<1>7. InsertAt(s, i, e) = c \o b
  BY DEF InsertAt, a, b
<1>8. /\ c \in Seq(S) /\ Len(c) = i
      /\ \A j \in 1 .. i : c[j] = IF j < i THEN s[j] ELSE e
  BY <1>5
<1> HIDE DEF c
<1>6. /\ c \o b \in Seq(S) /\ Len(c \o b) = Len(c) + Len(b)
      /\ \A j \in 1 .. Len(c) + Len(b) : (c \o b)[j] = IF j <= Len(c) THEN c[j] ELSE b[j - Len(c)]
  BY <1>3, <1>8, ConcatProperties
<1> QED BY <1>1, <1>3, <1>8, <1>6, <1>7

(* RemoveAt, element by element: what follows position i moves down.       *)
LEMMA RemoveAtProperties ==
  ASSUME NEW S, NEW s \in Seq(S), NEW i \in 1 .. Len(s)
  PROVE  /\ RemoveAt(s, i) \in Seq(S)
         /\ Len(RemoveAt(s, i)) = Len(s) - 1
         /\ \A j \in 1 .. Len(s) - 1 :
              RemoveAt(s, i)[j] = IF j < i THEN s[j] ELSE s[j + 1]
<1> DEFINE a == SubSeq(s, 1, i - 1)
           b == SubSeq(s, i + 1, Len(s))
<1>1. Len(s) \in Nat /\ \A j \in 1 .. Len(s) : s[j] \in S
  BY LenProperties, ElementOfSeq
<1>2. /\ a \in Seq(S) /\ Len(a) = i - 1
      /\ \A j \in 1 .. i - 1 : a[j] = s[j]
  <2>1. \A j \in 1 .. i - 1 : s[j] \in S
    BY <1>1
  <2> QED BY <1>1, <2>1, SubSeqProperties
<1>3. /\ b \in Seq(S) /\ Len(b) = Len(s) - i
      /\ \A j \in 1 .. Len(s) - i : b[j] = s[i + j]
  <2>1. \A j \in i + 1 .. Len(s) : s[j] \in S
    BY <1>1
  <2> QED BY <1>1, <2>1, SubSeqProperties
<1> HIDE DEF a, b
<1>4. /\ a \o b \in Seq(S) /\ Len(a \o b) = Len(a) + Len(b)
      /\ \A j \in 1 .. Len(a) + Len(b) : (a \o b)[j] = IF j <= Len(a) THEN a[j] ELSE b[j - Len(a)]
  BY <1>2, <1>3, ConcatProperties
<1>5. RemoveAt(s, i) = a \o b
  BY DEF RemoveAt, a, b
<1>6. ASSUME NEW j \in 1 .. Len(s) - 1
      PROVE  (a \o b)[j] = IF j < i THEN s[j] ELSE s[j + 1]
  <2>1. j \in 1 .. Len(a) + Len(b)
    BY <1>1, <1>2, <1>3
  <2>2. CASE j < i
    BY <1>1, <1>2, <1>4, <2>1, <2>2
  <2>3. CASE ~(j < i)
    <3>1. j - Len(a) \in 1 .. Len(s) - i /\ i + (j - Len(a)) = j + 1
      BY <1>1, <1>2, <1>3, <2>3
    <3>2. (a \o b)[j] = b[j - Len(a)]
      BY <1>1, <1>2, <1>4, <2>1, <2>3
    <3> QED BY <1>3, <2>3, <3>1, <3>2
  <2> QED BY <2>2, <2>3
<1>7. Len(a) + Len(b) = Len(s) - 1
  BY <1>1, <1>2, <1>3
<1> QED BY <1>4, <1>5, <1>6, <1>7

-----------------------------------------------------------------------------
(* The list operations, element by element.                                *)
LEMMA FlagDesc ==
  ASSUME NEW bs \in Seq(Block), NEW i \in 1 .. Len(bs), NEW v \in BOOLEAN
  PROVE  LET t == [bs EXCEPT ![i].free = v]
         IN /\ t \in Seq(Block) /\ Len(t) = Len(bs)
            /\ t[i] = [addr |-> bs[i].addr, size |-> bs[i].size, free |-> v]
            /\ \A j \in 1 .. Len(bs) : j # i => t[j] = bs[j]
<1>1. bs[i] \in Block
  BY ElementOfSeq
<1>2. [bs[i] EXCEPT !.free = v] = [addr |-> bs[i].addr, size |-> bs[i].size, free |-> v]
  BY <1>1 DEF Block
<1>3. [bs[i] EXCEPT !.free = v] \in Block
  BY <1>1 DEF Block
<1>4. [bs EXCEPT ![i].free = v] = [bs EXCEPT ![i] = [bs[i] EXCEPT !.free = v]]
  OBVIOUS
<1> QED BY <1>2, <1>3, <1>4, ExceptSeq

(* Setting a size field changes nothing else.                              *)
LEMMA ResizeDesc ==
  ASSUME NEW bs \in Seq(Block), NEW i \in 1 .. Len(bs), NEW m \in Nat
  PROVE  LET t == [bs EXCEPT ![i].size = m]
         IN /\ t \in Seq(Block) /\ Len(t) = Len(bs)
            /\ t[i] = [addr |-> bs[i].addr, size |-> m, free |-> bs[i].free]
            /\ \A j \in 1 .. Len(bs) : j # i => t[j] = bs[j]
<1>1. bs[i] \in Block
  BY ElementOfSeq
<1>2. [bs[i] EXCEPT !.size = m] = [addr |-> bs[i].addr, size |-> m, free |-> bs[i].free]
  BY <1>1 DEF Block
<1>3. [bs[i] EXCEPT !.size = m] \in Block
  BY <1>1 DEF Block
<1>4. [bs EXCEPT ![i].size = m] = [bs EXCEPT ![i] = [bs[i] EXCEPT !.size = m]]
  OBVIOUS
<1> QED BY <1>2, <1>3, <1>4, ExceptSeq

(* A split shortens block i and inserts the rest behind it.                *)
LEMMA SplitDesc ==
  ASSUME NEW bs \in Seq(Block), NEW i \in 1 .. Len(bs), NEW need \in Nat,
         bs[i].size >= need + BlockSize
  PROVE  LET t == Split(bs, i, need)
         IN /\ t \in Seq(Block) /\ Len(t) = Len(bs) + 1
            /\ t[i] = [addr |-> bs[i].addr, size |-> need, free |-> bs[i].free]
            /\ t[i + 1] = [addr |-> bs[i].addr + BlockSize + need,
                           size |-> bs[i].size - need - BlockSize, free |-> TRUE]
            /\ \A j \in 1 .. i - 1 : t[j] = bs[j]
            /\ \A j \in i + 2 .. Len(bs) + 1 : t[j] = bs[j - 1]
<1> DEFINE u == [bs EXCEPT ![i].size = need]
           e == [addr |-> bs[i].addr + BlockSize + need,
                 size |-> bs[i].size - need - BlockSize, free |-> TRUE]
<1>1. bs[i] \in Block
  BY ElementOfSeq
<1>2. e \in Block
  <2>1. bs[i].addr \in Nat /\ bs[i].size \in Nat
    BY <1>1 DEF Block
  <2>2. bs[i].addr + BlockSize + need \in Nat /\ bs[i].size - need - BlockSize \in Nat
    BY <2>1, HeapAssumption
  <2> QED BY <2>2 DEF Block
<1>3. /\ u \in Seq(Block) /\ Len(u) = Len(bs)
      /\ u[i] = [addr |-> bs[i].addr, size |-> need, free |-> bs[i].free]
      /\ \A j \in 1 .. Len(bs) : j # i => u[j] = bs[j]
  BY ResizeDesc
<1>4. Split(bs, i, need) = InsertAt(u, i + 1, e)
  BY DEF Split
<1>5. Len(bs) \in Nat
  BY LenProperties
<1> HIDE DEF u, e
<1>6. i + 1 \in 1 .. Len(u) + 1
  BY <1>3, <1>5
<1> DEFINE t == InsertAt(u, i + 1, e)
<1>7. /\ t \in Seq(Block) /\ Len(t) = Len(u) + 1
      /\ \A j \in 1 .. Len(u) + 1 :
           t[j] = IF j < i + 1 THEN u[j] ELSE IF j = i + 1 THEN e ELSE u[j - 1]
  <2> DEFINE k == i + 1
  <2>1. u \in Seq(Block) /\ k \in 1 .. Len(u) + 1 /\ e \in Block
    BY <1>2, <1>3, <1>6
  <2> HIDE DEF k
  <2>2. /\ InsertAt(u, k, e) \in Seq(Block) /\ Len(InsertAt(u, k, e)) = Len(u) + 1
        /\ \A j \in 1 .. Len(u) + 1 :
             InsertAt(u, k, e)[j] = IF j < k THEN u[j] ELSE IF j = k THEN e ELSE u[j - 1]
    BY <2>1, InsertAtProperties
  <2> QED BY <2>2 DEF k
<1> HIDE DEF t
<1>8. t[i] = u[i] /\ t[i + 1] = e
  <2>1. i \in 1 .. Len(u) + 1 /\ i < i + 1 /\ ~(i + 1 < i + 1)
    BY <1>3, <1>5
  <2> QED BY <1>6, <1>7, <2>1
<1>9. ASSUME NEW j \in 1 .. i - 1 PROVE t[j] = bs[j]
  <2>1. j \in 1 .. Len(u) + 1 /\ j < i + 1 /\ j # i /\ j \in 1 .. Len(bs)
    BY <1>3, <1>5
  <2> QED BY <1>3, <1>7, <2>1
<1>10. ASSUME NEW j \in i + 2 .. Len(bs) + 1 PROVE t[j] = bs[j - 1]
  <2>1. j \in 1 .. Len(u) + 1 /\ ~(j < i + 1) /\ j # i + 1 /\ j - 1 # i /\ j - 1 \in 1 .. Len(bs)
    BY <1>3, <1>5
  <2> QED BY <1>3, <1>7, <2>1
<1>11. t \in Seq(Block) /\ Len(t) = Len(bs) + 1
  BY <1>3, <1>7
<1> QED BY <1>3, <1>4, <1>8, <1>9, <1>10, <1>11 DEF e, t

(* A merge lengthens block i and takes its successor out of the list.      *)
LEMMA AbsorbDesc ==
  ASSUME NEW bs \in Seq(Block), NEW i \in 1 .. Len(bs) - 1
  PROVE  LET t == Absorb(bs, i)
         IN /\ t \in Seq(Block) /\ Len(t) = Len(bs) - 1
            /\ t[i] = [addr |-> bs[i].addr, size |-> bs[i].size + BlockSize + bs[i + 1].size,
                       free |-> bs[i].free]
            /\ \A j \in 1 .. i - 1 : t[j] = bs[j]
            /\ \A j \in i + 1 .. Len(bs) - 1 : t[j] = bs[j + 1]
<1> DEFINE m == bs[i].size + BlockSize + bs[i + 1].size
           u == [bs EXCEPT ![i].size = m]
<1>1. Len(bs) \in Nat /\ i \in 1 .. Len(bs) /\ i + 1 \in 1 .. Len(bs)
  BY LenProperties
<1>2. bs[i] \in Block /\ bs[i + 1] \in Block
  BY <1>1, ElementOfSeq
<1>3. m \in Nat
  BY <1>2, HeapAssumption DEF Block
<1>4. Absorb(bs, i) = RemoveAt(u, i + 1)
  BY DEF Absorb
<1> HIDE DEF m
<1>5. /\ u \in Seq(Block) /\ Len(u) = Len(bs)
      /\ u[i] = [addr |-> bs[i].addr, size |-> m, free |-> bs[i].free]
      /\ \A j \in 1 .. Len(bs) : j # i => u[j] = bs[j]
  BY <1>1, <1>3, ResizeDesc
<1> HIDE DEF u
<1> DEFINE t == RemoveAt(u, i + 1)
<1>6. /\ t \in Seq(Block) /\ Len(t) = Len(u) - 1
      /\ \A j \in 1 .. Len(u) - 1 : t[j] = IF j < i + 1 THEN u[j] ELSE u[j + 1]
  BY <1>1, <1>5, RemoveAtProperties
<1> HIDE DEF t
<1>7. t[i] = u[i]
  BY <1>1, <1>5, <1>6
<1>8. ASSUME NEW j \in 1 .. i - 1 PROVE t[j] = bs[j]
  <2>1. j \in 1 .. Len(u) - 1 /\ j < i + 1 /\ j # i /\ j \in 1 .. Len(bs)
    BY <1>1, <1>5
  <2> QED BY <1>5, <1>6, <2>1
<1>9. ASSUME NEW j \in i + 1 .. Len(bs) - 1 PROVE t[j] = bs[j + 1]
  <2>1. j \in 1 .. Len(u) - 1 /\ ~(j < i + 1) /\ j + 1 # i /\ j + 1 \in 1 .. Len(bs)
    BY <1>1, <1>5
  <2> QED BY <1>5, <1>6, <2>1
<1> QED BY <1>4, <1>5, <1>6, <1>7, <1>8, <1>9 DEF m, t

-----------------------------------------------------------------------------
(* Where n blocks lie: A their first bytes, Z the bytes behind their last. *)
(* Blocks further down the list lie further up in memory, and every byte   *)
(* of the heap lies in a block; both follow from the chaining by induction *)
(* along the list, and carried in the invariant they need none.            *)
Chained(n, A, Z) == /\ n > 0 /\ A[1] = 0 /\ Z[n] = HeapSize
                    /\ \A i \in 1 .. n - 1 : A[i + 1] = Z[i]

Ascending(n, A, Z) == \A i, j \in 1 .. n : i < j => Z[i] <= A[j]

Covering(n, A, Z) == \A x \in 0 .. HeapSize - 1 : \E i \in 1 .. n : A[i] <= x /\ x < Z[i]

Layout(n, A, Z) == Chained(n, A, Z) /\ Ascending(n, A, Z) /\ Covering(n, A, Z)

(* Cutting block i at byte c. *)
LEMMA CutLayout ==
  ASSUME NEW n \in Nat, NEW A \in [1 .. n -> Nat], NEW Z \in [1 .. n -> Nat],
         Layout(n, A, Z),
         NEW i \in 1 .. n, NEW c \in Nat, A[i] <= c, c <= Z[i],
         NEW B \in [1 .. n + 1 -> Nat], NEW Y \in [1 .. n + 1 -> Nat],
         \A j \in 1 .. i : B[j] = A[j],
         B[i + 1] = c,
         \A j \in i + 2 .. n + 1 : B[j] = A[j - 1],
         \A j \in 1 .. i - 1 : Y[j] = Z[j],
         Y[i] = c,
         \A j \in i + 1 .. n + 1 : Y[j] = Z[j - 1]
  PROVE  Layout(n + 1, B, Y)
<1>1. Chained(n + 1, B, Y)
  <2>1. B[1] = 0 /\ Y[n + 1] = HeapSize
    BY DEF Layout, Chained
  <2>2. ASSUME NEW k \in 1 .. n PROVE B[k + 1] = Y[k]
    <3>1. CASE k < i
      <4>1. B[k + 1] = A[k + 1] /\ Y[k] = Z[k] /\ k \in 1 .. n - 1
        BY <3>1
      <4> QED BY <4>1 DEF Layout, Chained
    <3>2. CASE k = i
      BY <3>2
    <3>3. CASE k > i
      <4>1. B[k + 1] = A[k] /\ Y[k] = Z[k - 1]
        BY <3>3
      <4>2. A[(k - 1) + 1] = Z[k - 1]
        BY <3>3 DEF Layout, Chained
      <4> QED BY <4>1, <4>2
    <3> QED BY <3>1, <3>2, <3>3
  <2> QED BY <2>1, <2>2 DEF Chained
<1>2. Ascending(n + 1, B, Y)
  <2> SUFFICES ASSUME NEW j \in 1 .. n + 1, NEW k \in 1 .. n + 1, j < k
               PROVE  Y[j] <= B[k]
    BY DEF Ascending
  <2>1. CASE k <= i
    <3>1. B[k] = A[k] /\ Y[j] = Z[j] /\ j \in 1 .. n /\ k \in 1 .. n
      BY <2>1
    <3> QED BY <3>1 DEF Layout, Ascending
  <2>2. CASE k = i + 1 /\ j = i
    BY <2>2
  <2>3. CASE k = i + 1 /\ j < i
    <3>1. Y[j] = Z[j] /\ Z[j] <= A[i] /\ Z[j] \in Nat /\ A[i] \in Nat
      BY <2>3 DEF Layout, Ascending
    <3> QED BY <2>3, <3>1
  <2>4. CASE k > i + 1 /\ j < i
    <3>1. B[k] = A[k - 1] /\ Y[j] = Z[j] /\ j \in 1 .. n /\ k - 1 \in 1 .. n /\ j < k - 1
      BY <2>4
    <3> QED BY <3>1 DEF Layout, Ascending
  <2>5. CASE k > i + 1 /\ j = i
    <3>1. /\ B[k] = A[k - 1] /\ Z[i] <= A[k - 1]
          /\ Z[i] \in Nat /\ A[k - 1] \in Nat
      BY <2>5 DEF Layout, Ascending
    <3> QED BY <2>5, <3>1
  <2>6. CASE k > i + 1 /\ j > i
    <3>1. B[k] = A[k - 1] /\ Y[j] = Z[j - 1]
      BY <2>6
    <3>2. Z[j - 1] <= A[k - 1]
      BY <2>6 DEF Layout, Ascending
    <3> QED BY <3>1, <3>2
  <2>7. \/ k <= i \/ (k = i + 1 /\ j = i) \/ (k = i + 1 /\ j < i)
        \/ (k > i + 1 /\ j < i) \/ (k > i + 1 /\ j = i) \/ (k > i + 1 /\ j > i)
    OBVIOUS
  <2> QED BY <2>1, <2>2, <2>3, <2>4, <2>5, <2>6, <2>7
<1>3. Covering(n + 1, B, Y)
  <2> SUFFICES ASSUME NEW x \in 0 .. HeapSize - 1
               PROVE  \E j \in 1 .. n + 1 : B[j] <= x /\ x < Y[j]
    BY DEF Covering
  <2>1. PICK j \in 1 .. n : A[j] <= x /\ x < Z[j]
    BY DEF Layout, Covering
  <2>2. CASE j < i
    BY <2>1, <2>2
  <2>3. CASE j = i /\ x < c
    BY <2>1, <2>3
  <2>4. CASE j = i /\ ~(x < c)
    <3>1. B[i + 1] <= x /\ x < Y[i + 1]
      BY <2>1, <2>4, HeapAssumption
    <3> QED BY <3>1
  <2>5. CASE j > i
    <3>1. B[j + 1] = A[j] /\ Y[j + 1] = Z[j]
      BY <2>5
    <3> QED BY <2>1, <3>1
  <2> QED BY <2>2, <2>3, <2>4, <2>5
<1> QED BY <1>1, <1>2, <1>3 DEF Layout

(* Joining block i and its successor. *)
LEMMA JoinLayout ==
  ASSUME NEW n \in Nat, NEW A \in [1 .. n -> Nat], NEW Z \in [1 .. n -> Nat],
         Layout(n, A, Z), \A j \in 1 .. n : A[j] <= Z[j],
         NEW i \in 1 .. n - 1,
         NEW B \in [1 .. n - 1 -> Nat], NEW Y \in [1 .. n - 1 -> Nat],
         \A j \in 1 .. i : B[j] = A[j],
         \A j \in i + 1 .. n - 1 : B[j] = A[j + 1],
         \A j \in 1 .. i - 1 : Y[j] = Z[j],
         \A j \in i .. n - 1 : Y[j] = Z[j + 1]
  PROVE  Layout(n - 1, B, Y)
<1>1. Chained(n - 1, B, Y)
  <2>1. B[1] = 0 /\ Y[n - 1] = HeapSize /\ n - 1 > 0
    BY DEF Layout, Chained
  <2>2. ASSUME NEW k \in 1 .. (n - 1) - 1 PROVE B[k + 1] = Y[k]
    <3>1. CASE k < i
      BY <3>1 DEF Layout, Chained
    <3>2. CASE k >= i
      <4>1. B[k + 1] = A[(k + 1) + 1] /\ Y[k] = Z[k + 1]
        BY <3>2
      <4>2. A[(k + 1) + 1] = Z[k + 1]
        BY <3>2 DEF Layout, Chained
      <4> QED BY <4>1, <4>2
    <3> QED BY <3>1, <3>2
  <2> QED BY <2>1, <2>2 DEF Chained
<1>2. Ascending(n - 1, B, Y)
  <2> SUFFICES ASSUME NEW j \in 1 .. n - 1, NEW k \in 1 .. n - 1, j < k
               PROVE  Y[j] <= B[k]
    BY DEF Ascending
  <2>1. CASE k <= i
    BY <2>1 DEF Layout, Ascending
  <2>2. CASE k > i /\ j < i
    <3>1. B[k] = A[k + 1] /\ Y[j] = Z[j]
      BY <2>2
    <3> QED BY <2>2, <3>1 DEF Layout, Ascending
  <2>3. CASE k > i /\ j >= i
    <3>1. B[k] = A[k + 1] /\ Y[j] = Z[j + 1]
      BY <2>3
    <3>2. Z[j + 1] <= A[k + 1]
      BY <2>3 DEF Layout, Ascending
    <3> QED BY <3>1, <3>2
  <2> QED BY <2>1, <2>2, <2>3
<1>3. Covering(n - 1, B, Y)
  <2> SUFFICES ASSUME NEW x \in 0 .. HeapSize - 1
               PROVE  \E j \in 1 .. n - 1 : B[j] <= x /\ x < Y[j]
    BY DEF Covering
  <2>1. PICK j \in 1 .. n : A[j] <= x /\ x < Z[j]
    BY DEF Layout, Covering
  <2>2. CASE j < i
    BY <2>1, <2>2
  <2>3. CASE j = i
    <3>1. B[i] = A[i] /\ Y[i] = Z[i + 1] /\ A[i + 1] = Z[i] /\ A[i + 1] <= Z[i + 1]
      BY DEF Layout, Chained
    <3> QED BY <2>1, <2>3, <3>1, HeapAssumption
  <2>4. CASE j = i + 1
    <3>1. B[i] = A[i] /\ Y[i] = Z[i + 1] /\ A[i + 1] = Z[i] /\ A[i] <= Z[i]
      BY DEF Layout, Chained
    <3> QED BY <2>1, <2>4, <3>1, HeapAssumption
  <2>5. CASE j > i + 1
    <3>1. B[j - 1] = A[j] /\ Y[j - 1] = Z[j] /\ j - 1 \in 1 .. n - 1
      BY <2>5
    <3> QED BY <2>1, <3>1
  <2> QED BY <2>2, <2>3, <2>4, <2>5
<1> QED BY <1>1, <1>2, <1>3 DEF Layout

-----------------------------------------------------------------------------
Addrs(bs) == [j \in 1 .. Len(bs) |-> bs[j].addr]

Ends(bs) == [j \in 1 .. Len(bs) |-> End(bs[j])]

(* A block list that is sound but for the free flags.                      *)
Well(bs) == bs \in Seq(Block) /\ Layout(Len(bs), Addrs(bs), Ends(bs))

(* The fields of a block, and the place where it ends.                     *)
LEMMA BlockFields ==
  ASSUME NEW b \in Block
  PROVE  /\ b.addr \in Nat /\ b.size \in Nat /\ b.free \in BOOLEAN
         /\ End(b) \in Nat /\ b.addr + BlockSize <= End(b)
         /\ Ptr(b) \in Nat /\ b.size = End(b) - b.addr - BlockSize
<1>1. b.addr \in Nat /\ b.size \in Nat /\ b.free \in BOOLEAN
  BY DEF Block
<1> QED BY <1>1, HeapAssumption DEF End, Ptr

(* The addresses and ends of a list of blocks, as functions.               *)
LEMMA SeqFields ==
  ASSUME NEW bs \in Seq(Block)
  PROVE  /\ Len(bs) \in Nat /\ DOMAIN bs = 1 .. Len(bs)
         /\ \A j \in 1 .. Len(bs) : bs[j] \in Block
         /\ Addrs(bs) \in [1 .. Len(bs) -> Nat] /\ Ends(bs) \in [1 .. Len(bs) -> Nat]
         /\ \A j \in 1 .. Len(bs) : Addrs(bs)[j] <= Ends(bs)[j]
<1>1. Len(bs) \in Nat /\ DOMAIN bs = 1 .. Len(bs)
  BY LenProperties
<1>2. \A j \in 1 .. Len(bs) : bs[j] \in Block
  BY ElementOfSeq
<1>3. \A j \in 1 .. Len(bs) : /\ bs[j].addr \in Nat /\ End(bs[j]) \in Nat
                              /\ bs[j].addr <= End(bs[j])
  <2> TAKE j \in 1 .. Len(bs)
  <2>1. /\ bs[j].addr \in Nat /\ End(bs[j]) \in Nat /\ bs[j].addr + BlockSize <= End(bs[j])
    BY <1>2, BlockFields
  <2> QED BY <2>1, HeapAssumption
<1> QED BY <1>1, <1>2, <1>3 DEF Addrs, Ends

(* Setting a free flag (kmalloc, kfree) leaves the layout alone.           *)
LEMMA FlagWell ==
  ASSUME NEW bs, Well(bs), NEW i \in 1 .. Len(bs), NEW v \in BOOLEAN
  PROVE  Well([bs EXCEPT ![i].free = v])
<1> DEFINE t == [bs EXCEPT ![i].free = v]
<1>1. bs \in Seq(Block)
  BY DEF Well
<1>2. /\ t \in Seq(Block) /\ Len(t) = Len(bs)
      /\ t[i] = [addr |-> bs[i].addr, size |-> bs[i].size, free |-> v]
      /\ \A j \in 1 .. Len(bs) : j # i => t[j] = bs[j]
  BY <1>1, FlagDesc
<1> HIDE DEF t
<1>3. \A j \in 1 .. Len(bs) : t[j].addr = bs[j].addr /\ End(t[j]) = End(bs[j])
  BY <1>2 DEF End
<1>4. Addrs(t) = Addrs(bs) /\ Ends(t) = Ends(bs)
  BY <1>2, <1>3 DEF Addrs, Ends
<1> QED BY <1>2, <1>4 DEF Well, t

(* A split (kmalloc, krealloc) keeps the list sound.                       *)
LEMMA SplitWell ==
  ASSUME NEW bs, Well(bs), NEW i \in 1 .. Len(bs), NEW need \in Nat,
         bs[i].size >= need + BlockSize
  PROVE  Well(Split(bs, i, need))
<1> DEFINE t == Split(bs, i, need)
           c == bs[i].addr + BlockSize + need
<1>1. bs \in Seq(Block) /\ Len(bs) \in Nat
  BY SeqFields DEF Well
<1>2. /\ t \in Seq(Block) /\ Len(t) = Len(bs) + 1
      /\ t[i] = [addr |-> bs[i].addr, size |-> need, free |-> bs[i].free]
      /\ t[i + 1] = [addr |-> bs[i].addr + BlockSize + need,
                     size |-> bs[i].size - need - BlockSize, free |-> TRUE]
      /\ \A j \in 1 .. i - 1 : t[j] = bs[j]
      /\ \A j \in i + 2 .. Len(bs) + 1 : t[j] = bs[j - 1]
  BY <1>1, SplitDesc
<1>3. bs[i].addr \in Nat /\ bs[i].size \in Nat
  BY <1>1, SeqFields, BlockFields
<1> HIDE DEF t
<1>4. /\ t[i].addr = bs[i].addr /\ t[i].size = need
      /\ t[i + 1].addr = c /\ t[i + 1].size = bs[i].size - need - BlockSize
  BY <1>2
<1>5. End(t[i]) = c
  BY <1>4 DEF End
<1> DEFINE p == bs[i].addr  q == bs[i].size
<1>a. /\ p \in Nat /\ q \in Nat /\ q >= need + BlockSize /\ c = p + BlockSize + need
      /\ End(bs[i]) = p + BlockSize + q
      /\ End(t[i + 1]) = c + BlockSize + (q - need - BlockSize)
  BY <1>3, <1>4 DEF End
<1>b. p = bs[i].addr
  OBVIOUS
<1> HIDE DEF p, q, c
<1>6. End(t[i + 1]) = End(bs[i])
  BY <1>a, HeapAssumption
<1>7. c \in Nat /\ bs[i].addr <= c /\ c <= End(bs[i])
  <2>1. c \in Nat /\ p <= c /\ c <= p + BlockSize + q
    BY <1>a, HeapAssumption
  <2> QED BY <1>a, <1>b, <2>1
<1> DEFINE A == Addrs(bs)  Z == Ends(bs)  B == Addrs(t)  Y == Ends(t)  n == Len(bs)
<1>8. /\ A \in [1 .. n -> Nat] /\ Z \in [1 .. n -> Nat]
      /\ B \in [1 .. n + 1 -> Nat] /\ Y \in [1 .. n + 1 -> Nat]
  BY <1>1, <1>2, SeqFields
<1>9. A[i] <= c /\ c <= Z[i]
  BY <1>7 DEF Addrs, Ends
<1>10. \A j \in 1 .. i : B[j] = A[j]
  BY <1>1, <1>2, <1>4 DEF Addrs
<1>11. B[i + 1] = c /\ Y[i] = c
  BY <1>1, <1>2, <1>4, <1>5 DEF Addrs, Ends
<1>12. ASSUME NEW j \in i + 2 .. n + 1 PROVE B[j] = A[j - 1]
  BY <1>1, <1>2 DEF Addrs
<1>13. \A j \in 1 .. i - 1 : Y[j] = Z[j]
  BY <1>1, <1>2 DEF Ends
<1>14. ASSUME NEW j \in i + 1 .. n + 1 PROVE Y[j] = Z[j - 1]
  <2>1. CASE j = i + 1
    BY <1>1, <1>2, <1>6, <2>1 DEF Ends
  <2>2. CASE j # i + 1
    BY <1>1, <1>2, <2>2 DEF Ends
  <2> QED BY <2>1, <2>2
<1>15. Layout(n, A, Z)
  BY DEF Well
<1> HIDE DEF A, Z, B, Y, n
<1>16. n \in Nat /\ i \in 1 .. n
  BY <1>1 DEF n
<1>17. Layout(n + 1, B, Y)
  BY <1>7, <1>8, <1>9, <1>10, <1>11, <1>12, <1>13, <1>14, <1>15, <1>16, CutLayout
<1> QED BY <1>2, <1>17 DEF Well, B, Y, n, t

(* A merge (kfree, krealloc) keeps the list sound.                         *)
LEMMA AbsorbWell ==
  ASSUME NEW bs, Well(bs), NEW i \in 1 .. Len(bs) - 1
  PROVE  Well(Absorb(bs, i))
<1> DEFINE t == Absorb(bs, i)
<1>1. bs \in Seq(Block) /\ Len(bs) \in Nat
  BY SeqFields DEF Well
<1>2. /\ t \in Seq(Block) /\ Len(t) = Len(bs) - 1
      /\ t[i] = [addr |-> bs[i].addr, size |-> bs[i].size + BlockSize + bs[i + 1].size,
                 free |-> bs[i].free]
      /\ \A j \in 1 .. i - 1 : t[j] = bs[j]
      /\ \A j \in i + 1 .. Len(bs) - 1 : t[j] = bs[j + 1]
  BY <1>1, AbsorbDesc
<1> HIDE DEF t
<1>3. /\ i \in 1 .. Len(bs) /\ i + 1 \in 1 .. Len(bs)
      /\ bs[i] \in Block /\ bs[i + 1] \in Block
  BY <1>1, SeqFields
<1>4. /\ t[i].addr = bs[i].addr
      /\ t[i].size = bs[i].size + BlockSize + bs[i + 1].size
  BY <1>2
<1>5. bs[i + 1].addr = End(bs[i])
  <2>1. Addrs(bs)[i + 1] = Ends(bs)[i]
    BY DEF Well, Layout, Chained
  <2> QED BY <1>1, <1>3, <2>1 DEF Addrs, Ends
<1>6. End(t[i]) = End(bs[i + 1])
  <2> DEFINE p == bs[i].addr  q == bs[i].size  r == bs[i + 1].addr  u == bs[i + 1].size
  <2>1. /\ p \in Nat /\ q \in Nat /\ r \in Nat /\ u \in Nat
        /\ r = p + BlockSize + q
        /\ End(t[i]) = p + BlockSize + (q + BlockSize + u)
        /\ End(bs[i + 1]) = r + BlockSize + u
    BY <1>3, <1>4, <1>5, BlockFields DEF End
  <2> HIDE DEF p, q, r, u
  <2> QED BY <2>1, HeapAssumption
<1> DEFINE A == Addrs(bs)  Z == Ends(bs)  B == Addrs(t)  Y == Ends(t)  n == Len(bs)
<1>7. /\ A \in [1 .. n -> Nat] /\ Z \in [1 .. n -> Nat]
      /\ B \in [1 .. n - 1 -> Nat] /\ Y \in [1 .. n - 1 -> Nat]
      /\ \A j \in 1 .. n : A[j] <= Z[j]
  BY <1>1, <1>2, SeqFields
<1>8. \A j \in 1 .. i : B[j] = A[j]
  BY <1>1, <1>2, <1>4 DEF Addrs
<1>9. ASSUME NEW j \in i + 1 .. n - 1 PROVE B[j] = A[j + 1]
  BY <1>1, <1>2 DEF Addrs
<1>10. \A j \in 1 .. i - 1 : Y[j] = Z[j]
  BY <1>1, <1>2 DEF Ends
<1>11. ASSUME NEW j \in i .. n - 1 PROVE Y[j] = Z[j + 1]
  <2>1. CASE j = i
    <3>1. Y[i] = End(t[i]) /\ Z[i + 1] = End(bs[i + 1])
      BY <1>1, <1>2, <1>3 DEF Ends
    <3> QED BY <1>6, <2>1, <3>1
  <2>2. CASE j # i
    <3>1. j \in 1 .. Len(t) /\ j + 1 \in 1 .. n /\ t[j] = bs[j + 1]
      BY <1>1, <1>2, <2>2
    <3> QED BY <3>1 DEF Ends
  <2> QED BY <2>1, <2>2
<1>12. Layout(n, A, Z)
  BY DEF Well
<1> HIDE DEF A, Z, B, Y, n
<1>13. n \in Nat /\ i \in 1 .. n - 1
  BY <1>1 DEF n
<1>14. Layout(n - 1, B, Y)
  BY <1>7, <1>8, <1>9, <1>10, <1>11, <1>12, <1>13, JoinLayout
<1> QED BY <1>2, <1>14 DEF Well, B, Y, n, t

(* What a sound list gives its users.                                      *)
LEMMA WellFacts ==
  ASSUME NEW bs, Well(bs)
  PROVE  /\ bs \in Seq(Block) /\ Len(bs) \in Nat /\ DOMAIN bs = 1 .. Len(bs) /\ Len(bs) > 0
         /\ \A j \in 1 .. Len(bs) : bs[j] \in Block
         /\ \A j, k \in 1 .. Len(bs) : j < k => End(bs[j]) <= bs[k].addr
         /\ \A j, k \in 1 .. Len(bs) : bs[j].addr = bs[k].addr => j = k
         /\ Tiles(bs)
<1>1. /\ bs \in Seq(Block) /\ Len(bs) \in Nat /\ DOMAIN bs = 1 .. Len(bs)
      /\ \A j \in 1 .. Len(bs) : bs[j] \in Block
  BY SeqFields DEF Well
<1>2. Len(bs) > 0 /\ Tiles(bs)
  <2>1. Len(bs) > 0
    BY DEF Well, Layout, Chained
  <2>2. bs[1].addr = 0 /\ End(bs[Len(bs)]) = HeapSize
    BY <1>1, <2>1 DEF Well, Layout, Chained, Addrs, Ends
  <2>3. ASSUME NEW i \in 1 .. Len(bs) - 1 PROVE bs[i + 1].addr = End(bs[i])
    <3>1. Addrs(bs)[i + 1] = Ends(bs)[i]
      BY DEF Well, Layout, Chained
    <3> QED BY <1>1, <3>1 DEF Addrs, Ends
  <2> QED BY <2>1, <2>2, <2>3 DEF Tiles
<1>3. ASSUME NEW j \in 1 .. Len(bs), NEW k \in 1 .. Len(bs), j < k
      PROVE  End(bs[j]) <= bs[k].addr
  <2>1. Ends(bs)[j] <= Addrs(bs)[k]
    BY <1>3 DEF Well, Layout, Ascending
  <2> QED BY <2>1 DEF Addrs, Ends
<1>4. ASSUME NEW j \in 1 .. Len(bs), NEW k \in 1 .. Len(bs), j < k
      PROVE  bs[j].addr # bs[k].addr
  <2>1. /\ bs[j].addr \in Nat /\ bs[k].addr \in Nat /\ End(bs[j]) \in Nat
        /\ bs[j].addr + BlockSize <= End(bs[j])
    BY <1>1, BlockFields
  <2>2. End(bs[j]) <= bs[k].addr
    BY <1>3, <1>4
  <2> QED BY <2>1, <2>2, HeapAssumption
<1>5. ASSUME NEW j \in 1 .. Len(bs), NEW k \in 1 .. Len(bs), bs[j].addr = bs[k].addr
      PROVE  j = k
  BY <1>1, <1>4, <1>5
<1> QED BY <1>1, <1>2, <1>3, <1>5

-----------------------------------------------------------------------------
(* The used block at address a has m bytes.                                *)
Reserved(bs, a, m) == \E j \in 1 .. Len(bs) : ~bs[j].free /\ bs[j].addr = a /\ bs[j].size = m

(* The same, block i left aside.                                           *)
ReservedBut(bs, i, a, m) ==
  \E j \in 1 .. Len(bs) : j # i /\ ~bs[j].free /\ bs[j].addr = a /\ bs[j].size = m

(* A reservation is that of block i or of another block.                   *)
LEMMA ReservedSplitsOff ==
  ASSUME NEW bs, NEW i \in 1 .. Len(bs), NEW a, NEW m
  PROVE  Reserved(bs, a, m) <=> \/ ReservedBut(bs, i, a, m)
                                \/ ~bs[i].free /\ bs[i].addr = a /\ bs[i].size = m
  BY DEF Reserved, ReservedBut

(* Setting the flag of block i leaves the other reservations alone.        *)
LEMMA FlagReserved ==
  ASSUME NEW bs \in Seq(Block), NEW i \in 1 .. Len(bs), NEW v \in BOOLEAN, NEW a, NEW m
  PROVE  ReservedBut([bs EXCEPT ![i].free = v], i, a, m) <=> ReservedBut(bs, i, a, m)
<1> DEFINE t == [bs EXCEPT ![i].free = v]
<1>1. Len(t) = Len(bs) /\ \A j \in 1 .. Len(bs) : j # i => t[j] = bs[j]
  BY FlagDesc
<1> HIDE DEF t
<1>2. ReservedBut(t, i, a, m) <=> ReservedBut(bs, i, a, m)
  BY <1>1 DEF ReservedBut
<1> QED BY <1>2 DEF t

(* Splitting block i leaves the other reservations alone.                  *)
LEMMA SplitReserved ==
  ASSUME NEW bs \in Seq(Block), NEW i \in 1 .. Len(bs), NEW need \in Nat,
         bs[i].size >= need + BlockSize, NEW a, NEW m
  PROVE  ReservedBut(Split(bs, i, need), i, a, m) <=> ReservedBut(bs, i, a, m)
<1> DEFINE t == Split(bs, i, need)
<1>1. /\ Len(t) = Len(bs) + 1
      /\ t[i + 1] = [addr |-> bs[i].addr + BlockSize + need,
                     size |-> bs[i].size - need - BlockSize, free |-> TRUE]
      /\ \A j \in 1 .. i - 1 : t[j] = bs[j]
      /\ \A j \in i + 2 .. Len(bs) + 1 : t[j] = bs[j - 1]
  BY SplitDesc
<1>2. Len(bs) \in Nat
  BY LenProperties
<1> HIDE DEF t
<1>3. t[i + 1].free
  BY <1>1
<1>4. ASSUME ReservedBut(t, i, a, m) PROVE ReservedBut(bs, i, a, m)
  <2>1. PICK j \in 1 .. Len(t) : j # i /\ ~t[j].free /\ t[j].addr = a /\ t[j].size = m
    BY <1>4 DEF ReservedBut
  <2>2. CASE j < i
    <3>1. j \in 1 .. i - 1 /\ j \in 1 .. Len(bs)
      BY <1>1, <1>2, <2>2
    <3> QED BY <1>1, <2>1, <3>1 DEF ReservedBut
  <2>3. CASE j > i
    <3>1. j # i + 1
      BY <1>3, <2>1
    <3>2. /\ j \in i + 2 .. Len(bs) + 1 /\ j - 1 \in 1 .. Len(bs) /\ j - 1 # i
      BY <1>1, <1>2, <2>3, <3>1
    <3> QED BY <1>1, <2>1, <3>2 DEF ReservedBut
  <2> QED BY <1>2, <1>1, <2>1, <2>2, <2>3
<1>5. ASSUME ReservedBut(bs, i, a, m) PROVE ReservedBut(t, i, a, m)
  <2>1. PICK j \in 1 .. Len(bs) : j # i /\ ~bs[j].free /\ bs[j].addr = a /\ bs[j].size = m
    BY <1>5 DEF ReservedBut
  <2>2. CASE j < i
    <3>1. j \in 1 .. i - 1 /\ j \in 1 .. Len(t)
      BY <1>1, <1>2, <2>2
    <3> QED BY <1>1, <2>1, <3>1 DEF ReservedBut
  <2>3. CASE j > i
    <3>1. /\ j + 1 \in i + 2 .. Len(bs) + 1 /\ j + 1 \in 1 .. Len(t) /\ j + 1 # i
          /\ (j + 1) - 1 = j
      BY <1>1, <1>2, <2>3
    <3>2. t[j + 1] = bs[j]
      BY <1>1, <3>1
    <3> QED BY <2>1, <3>1, <3>2 DEF ReservedBut
  <2> QED BY <1>2, <2>1, <2>2, <2>3
<1> QED BY <1>4, <1>5 DEF t

(* A merge with a free successor leaves the other reservations alone.      *)
LEMMA AbsorbReserved ==
  ASSUME NEW bs \in Seq(Block), NEW i \in 1 .. Len(bs) - 1, bs[i + 1].free, NEW a, NEW m
  PROVE  ReservedBut(Absorb(bs, i), i, a, m) <=> ReservedBut(bs, i, a, m)
<1> DEFINE t == Absorb(bs, i)
<1>1. /\ Len(t) = Len(bs) - 1
      /\ \A j \in 1 .. i - 1 : t[j] = bs[j]
      /\ \A j \in i + 1 .. Len(bs) - 1 : t[j] = bs[j + 1]
  BY AbsorbDesc
<1>2. Len(bs) \in Nat
  BY LenProperties
<1> HIDE DEF t
<1>4. ASSUME ReservedBut(t, i, a, m) PROVE ReservedBut(bs, i, a, m)
  <2>1. PICK j \in 1 .. Len(t) : j # i /\ ~t[j].free /\ t[j].addr = a /\ t[j].size = m
    BY <1>4 DEF ReservedBut
  <2>2. CASE j < i
    <3>1. j \in 1 .. i - 1 /\ j \in 1 .. Len(bs)
      BY <1>1, <1>2, <2>2
    <3> QED BY <1>1, <2>1, <3>1 DEF ReservedBut
  <2>3. CASE j > i
    <3>2. /\ j \in i + 1 .. Len(bs) - 1 /\ j + 1 \in 1 .. Len(bs) /\ j + 1 # i
      BY <1>1, <1>2, <2>3
    <3> QED BY <1>1, <2>1, <3>2 DEF ReservedBut
  <2> QED BY <1>2, <1>1, <2>1, <2>2, <2>3
<1>5. ASSUME ReservedBut(bs, i, a, m) PROVE ReservedBut(t, i, a, m)
  <2>1. PICK j \in 1 .. Len(bs) : j # i /\ ~bs[j].free /\ bs[j].addr = a /\ bs[j].size = m
    BY <1>5 DEF ReservedBut
  <2>2. CASE j < i
    <3>1. j \in 1 .. i - 1 /\ j \in 1 .. Len(t)
      BY <1>1, <1>2, <2>2
    <3> QED BY <1>1, <2>1, <3>1 DEF ReservedBut
  <2>3. CASE j > i
    <3>0. j # i + 1
      BY <2>1
    <3>1. /\ j - 1 \in i + 1 .. Len(bs) - 1 /\ j - 1 \in 1 .. Len(t) /\ j - 1 # i
          /\ (j - 1) + 1 = j
      BY <1>1, <1>2, <2>3, <3>0
    <3>2. t[j - 1] = bs[j]
      BY <1>1, <3>1
    <3> QED BY <2>1, <3>1, <3>2 DEF ReservedBut
  <2> QED BY <1>2, <2>1, <2>2, <2>3
<1> QED BY <1>4, <1>5 DEF t
-----------------------------------------------------------------------------
(* kmalloc on a sound list: the block it takes becomes a reservation of at *)
(* least need bytes, every other reservation stays as it is.               *)
LEMMA TakeFacts ==
  ASSUME NEW bs, Well(bs), NoTwoFree(bs), NEW i \in 1 .. Len(bs), NEW need \in Nat,
         bs[i].free, bs[i].size >= need
  PROVE  LET t == Take(bs, i, need)
         IN /\ Well(t) /\ NoTwoFree(t)
            /\ \E m \in Nat :
                 /\ m >= need
                 /\ \A a, s : Reserved(t, a, s) <=> \/ Reserved(bs, a, s)
                                                    \/ a = bs[i].addr /\ s = m
<1> DEFINE cut == IF HasRoomToSplit(bs[i].size, need) THEN Split(bs, i, need) ELSE bs
           t == Take(bs, i, need)
<1>0. t = [cut EXCEPT ![i].free = FALSE]
  BY DEF Take
<1>1. /\ bs \in Seq(Block) /\ Len(bs) \in Nat /\ bs[i] \in Block
      /\ \A j \in 1 .. Len(bs) : bs[j] \in Block
  BY WellFacts
<1>2. bs[i].size \in Nat
  BY <1>1, BlockFields
<1>3. ASSUME HasRoomToSplit(bs[i].size, need)
      PROVE  bs[i].size >= need + BlockSize
  <2> DEFINE z == bs[i].size
  <2>1. z \in Nat /\ z >= need + BlockSize + Alignment
    BY <1>2, <1>3 DEF HasRoomToSplit
  <2> HIDE DEF z
  <2>2. z >= need + BlockSize
    BY <2>1, HeapAssumption
  <2> QED BY <2>2 DEF z
<1> DEFINE w == Split(bs, i, need)
<1>s. ASSUME HasRoomToSplit(bs[i].size, need)
      PROVE  /\ w \in Seq(Block) /\ Len(w) = Len(bs) + 1
             /\ w[i] = [addr |-> bs[i].addr, size |-> need, free |-> bs[i].free]
             /\ w[i + 1] = [addr |-> bs[i].addr + BlockSize + need,
                            size |-> bs[i].size - need - BlockSize, free |-> TRUE]
             /\ \A j \in 1 .. i - 1 : w[j] = bs[j]
             /\ \A j \in i + 2 .. Len(bs) + 1 : w[j] = bs[j - 1]
  <2>1. bs \in Seq(Block) /\ bs[i].size >= need + BlockSize
    BY <1>1, <1>3, <1>s
  <2> QED BY <2>1, SplitDesc
<1>4. /\ Well(cut) /\ cut \in Seq(Block) /\ i \in 1 .. Len(cut) /\ cut[i].addr = bs[i].addr
      /\ cut[i].size \in Nat /\ cut[i].size >= need
      /\ \A a, s : ReservedBut(cut, i, a, s) <=> ReservedBut(bs, i, a, s)
  <2>1. CASE HasRoomToSplit(bs[i].size, need)
    <3>0. bs \in Seq(Block) /\ bs[i].size >= need + BlockSize
      BY <1>1, <1>3, <2>1
    <3>1. cut = Split(bs, i, need)
      BY <2>1
    <3> HIDE DEF cut, t
    <3>2. /\ Split(bs, i, need)[i] = [addr |-> bs[i].addr, size |-> need, free |-> bs[i].free]
          /\ Len(Split(bs, i, need)) = Len(bs) + 1
          /\ Split(bs, i, need) \in Seq(Block)
      BY <1>s, <2>1
    <3>3. Well(Split(bs, i, need))
      BY <3>0, SplitWell
    <3>4. \A a, s : ReservedBut(Split(bs, i, need), i, a, s) <=> ReservedBut(bs, i, a, s)
      BY <1>1, <3>0, SplitReserved
    <3>5. cut[i].addr = bs[i].addr /\ cut[i].size = need /\ i \in 1 .. Len(cut)
      BY <1>1, <3>1, <3>2
    <3> QED BY <3>1, <3>2, <3>3, <3>4, <3>5
  <2>2. CASE ~HasRoomToSplit(bs[i].size, need)
    BY <1>1, <1>2, <2>2
  <2> QED BY <2>1, <2>2
<1>5. NoTwoFree(t)
  <2>1. CASE HasRoomToSplit(bs[i].size, need)
    <3>0. bs \in Seq(Block) /\ bs[i].size >= need + BlockSize
      BY <1>1, <1>3, <2>1
    <3>a. cut = Split(bs, i, need)
      BY <2>1
    <3> HIDE DEF cut
    <3>1. /\ Len(cut) = Len(bs) + 1
          /\ \A j \in 1 .. i - 1 : cut[j] = bs[j]
          /\ \A j \in i + 2 .. Len(bs) + 1 : cut[j] = bs[j - 1]
      BY <1>s, <2>1, <3>a
    <3>2. /\ Len(t) = Len(cut) /\ t[i].free = FALSE
          /\ \A j \in 1 .. Len(cut) : j # i => t[j] = cut[j]
      BY <1>0, <1>4, FlagDesc
    <3> HIDE DEF t
    <3> SUFFICES ASSUME NEW j \in 1 .. Len(t) - 1, t[j].free, t[j + 1].free
                 PROVE  FALSE
      BY DEF NoTwoFree
    <3>3. j # i /\ j + 1 # i
      BY <3>2
    <3>4. CASE j < i
      <4>1. j \in 1 .. i - 1 /\ j + 1 \in 1 .. i - 1 /\ j \in 1 .. Len(bs) - 1
            /\ j \in 1 .. Len(cut) /\ j + 1 \in 1 .. Len(cut)
        BY <1>1, <3>1, <3>2, <3>3, <3>4
      <4>2. t[j] = bs[j] /\ t[j + 1] = bs[j + 1]
        BY <3>1, <3>2, <3>3, <4>1
      <4> QED BY <4>1, <4>2 DEF NoTwoFree
    <3>5. CASE j = i + 1
      <4>1. /\ i \in 1 .. Len(bs) - 1 /\ i + 2 \in i + 2 .. Len(bs) + 1 /\ (i + 2) - 1 = i + 1
            /\ j + 1 = i + 2 /\ i + 2 \in 1 .. Len(cut) /\ i + 2 # i
        BY <1>1, <3>1, <3>2, <3>5
      <4>2. t[j + 1] = bs[i + 1]
        BY <3>1, <3>2, <4>1
      <4> QED BY <4>1, <4>2 DEF NoTwoFree
    <3>6. CASE j > i + 1
      <4>1. /\ j - 1 \in 1 .. Len(bs) - 1 /\ j \in i + 2 .. Len(bs) + 1
            /\ j + 1 \in i + 2 .. Len(bs) + 1 /\ (j + 1) - 1 = j /\ (j - 1) + 1 = j
            /\ j \in 1 .. Len(cut) /\ j + 1 \in 1 .. Len(cut)
        <5>1. /\ Len(cut) = Len(bs) + 1 /\ Len(t) = Len(bs) + 1 /\ Len(bs) \in Nat
              /\ j \in 1 .. Len(t) - 1 /\ i \in 1 .. Len(bs)
          BY <1>1, <3>1, <3>2
        <5> QED BY <5>1, <3>6
      <4>2. t[j] = cut[j] /\ t[j + 1] = cut[j + 1]
        BY <3>2, <3>3, <4>1
      <4>3. cut[j] = bs[j - 1] /\ cut[j + 1] = bs[(j + 1) - 1]
        BY <3>1, <4>1
      <4>4. ~(bs[j - 1].free /\ bs[(j - 1) + 1].free)
        BY <4>1 DEF NoTwoFree
      <4> QED BY <4>1, <4>2, <4>3, <4>4
    <3>7. j \in Int /\ i \in Int
      BY <1>1, <3>1, <3>2
    <3> QED BY <3>3, <3>4, <3>5, <3>6, <3>7
  <2>2. CASE ~HasRoomToSplit(bs[i].size, need)
    <3>1. t = [bs EXCEPT ![i].free = FALSE]
      BY <1>0, <2>2
    <3>2. /\ Len(t) = Len(bs) /\ t[i].free = FALSE
          /\ \A j \in 1 .. Len(bs) : j # i => t[j] = bs[j]
      BY <1>1, <3>1, FlagDesc
    <3> HIDE DEF t
    <3> SUFFICES ASSUME NEW j \in 1 .. Len(t) - 1, t[j].free, t[j + 1].free
                 PROVE  FALSE
      BY DEF NoTwoFree
    <3>3. j # i /\ j + 1 # i /\ j \in 1 .. Len(bs) /\ j + 1 \in 1 .. Len(bs)
          /\ j \in 1 .. Len(bs) - 1
      BY <1>1, <3>2
    <3> QED BY <3>2, <3>3 DEF NoTwoFree
  <2> QED BY <2>1, <2>2
<1> HIDE DEF cut
<1>6. Well(t)
  BY <1>0, <1>4, FlagWell
<1>7. /\ Len(t) = Len(cut) /\ t[i].addr = bs[i].addr /\ t[i].size = cut[i].size
      /\ t[i].free = FALSE
  BY <1>0, <1>4, FlagDesc
<1>8. \A a, s : ReservedBut(t, i, a, s) <=> ReservedBut(cut, i, a, s)
  <2>1. cut \in Seq(Block) /\ i \in 1 .. Len(cut)
    BY <1>4
  <2> HIDE DEF t
  <2> SUFFICES ASSUME NEW a, NEW s
               PROVE  ReservedBut([cut EXCEPT ![i].free = FALSE], i, a, s) <=> ReservedBut(cut, i, a, s)
    BY <1>0
  <2> QED BY <2>1, FlagReserved
<1> HIDE DEF t
<1>9. ASSUME NEW a, NEW s
      PROVE  Reserved(t, a, s) <=> \/ Reserved(bs, a, s)
                                   \/ a = bs[i].addr /\ s = cut[i].size
  <2>1. i \in 1 .. Len(t)
    BY <1>4, <1>7
  <2>2. Reserved(t, a, s) <=> \/ ReservedBut(t, i, a, s)
                              \/ ~t[i].free /\ t[i].addr = a /\ t[i].size = s
    BY <2>1, ReservedSplitsOff
  <2>3. Reserved(bs, a, s) <=> ReservedBut(bs, i, a, s)
    BY ReservedSplitsOff
  <2> QED BY <1>4, <1>7, <1>8, <2>2, <2>3
<1>10. \E m \in Nat :
         /\ m >= need
         /\ \A a, s : Reserved(t, a, s) <=> \/ Reserved(bs, a, s)
                                            \/ a = bs[i].addr /\ s = m
  <2>1. PICK m \in Nat : m = cut[i].size
    BY <1>4
  <2>2. m >= need
    BY <1>4, <2>1
  <2>3. ASSUME NEW a, NEW s
        PROVE  Reserved(t, a, s) <=> \/ Reserved(bs, a, s)
                                     \/ a = bs[i].addr /\ s = m
    BY <1>9, <2>1
  <2> WITNESS m \in Nat
  <2> QED BY <2>2, <2>3
<1> QED BY <1>5, <1>6, <1>10 DEF t
-----------------------------------------------------------------------------
(* Two free neighbours occur in bs only at the places in S.                *)
FreePairsIn(bs, S) == \A j \in 1 .. Len(bs) - 1 : bs[j].free /\ bs[j + 1].free => j \in S

(* Merging block i with a free successor makes no new pair of free blocks. *)
LEMMA AbsorbPairs ==
  ASSUME NEW bs \in Seq(Block), NEW i \in 1 .. Len(bs) - 1, bs[i + 1].free,
         NEW S, FreePairsIn(bs, S),
         NEW j \in 1 .. Len(Absorb(bs, i)) - 1,
         Absorb(bs, i)[j].free, Absorb(bs, i)[j + 1].free
  PROVE  IF j < i THEN j \in S ELSE j + 1 \in S
<1> DEFINE t == Absorb(bs, i)
<1>1. /\ t \in Seq(Block) /\ Len(t) = Len(bs) - 1
      /\ t[i] = [addr |-> bs[i].addr, size |-> bs[i].size + BlockSize + bs[i + 1].size,
                 free |-> bs[i].free]
      /\ \A k \in 1 .. i - 1 : t[k] = bs[k]
      /\ \A k \in i + 1 .. Len(bs) - 1 : t[k] = bs[k + 1]
  BY AbsorbDesc
<1>2. t[j].free /\ t[j + 1].free /\ j \in 1 .. Len(t) - 1 /\ Len(bs) \in Nat
  BY LenProperties
<1> HIDE DEF t
<1>3. t[i].free = bs[i].free /\ Len(t) = Len(bs) - 1 /\ j \in 1 .. Len(bs) - 2
  BY <1>1, <1>2
<1>4. CASE j < i
  <2>1. j \in 1 .. i - 1 /\ j \in 1 .. Len(bs) - 1
    BY <1>2, <1>3, <1>4
  <2>2. bs[j].free
    BY <1>1, <1>2, <2>1
  <2>3. bs[j + 1].free
    <3>1. CASE j + 1 = i
      BY <1>2, <1>3, <3>1
    <3>2. CASE j + 1 # i
      <4>1. j + 1 \in 1 .. i - 1
        BY <1>2, <1>3, <1>4, <3>2
      <4> QED BY <1>1, <1>2, <4>1
    <3> QED BY <3>1, <3>2
  <2> QED BY <1>4, <2>1, <2>2, <2>3 DEF FreePairsIn
<1>5. CASE ~(j < i)
  <2>1. /\ j + 1 \in i + 1 .. Len(bs) - 1 /\ j + 1 \in 1 .. Len(bs) - 1
    BY <1>2, <1>3, <1>5
  <2>2. bs[(j + 1) + 1].free
    BY <1>1, <1>2, <2>1
  <2>3. bs[j + 1].free
    <3>1. CASE j = i
      BY <3>1
    <3>2. CASE j # i
      <4>1. j \in i + 1 .. Len(bs) - 1
        BY <1>2, <1>3, <1>5, <3>2
      <4> QED BY <1>1, <1>2, <4>1
    <3> QED BY <3>1, <3>2
  <2> QED BY <1>5, <2>1, <2>2, <2>3 DEF FreePairsIn
<1> QED BY <1>4, <1>5

(* Merging two free blocks of a sound list.                                *)
LEMMA MergeFree ==
  ASSUME NEW bs, Well(bs), NEW i \in 1 .. Len(bs) - 1, bs[i].free, bs[i + 1].free
  PROVE  LET t == Absorb(bs, i)
         IN /\ Well(t) /\ Len(t) = Len(bs) - 1 /\ t[i].free
            /\ \A j \in 1 .. i - 1 : t[j] = bs[j]
            /\ \A a, s : Reserved(t, a, s) <=> Reserved(bs, a, s)
<1> DEFINE t == Absorb(bs, i)
<1>1. bs \in Seq(Block) /\ Len(bs) \in Nat
  BY WellFacts
<1>2. /\ t \in Seq(Block) /\ Len(t) = Len(bs) - 1
      /\ t[i] = [addr |-> bs[i].addr, size |-> bs[i].size + BlockSize + bs[i + 1].size,
                 free |-> bs[i].free]
      /\ \A j \in 1 .. i - 1 : t[j] = bs[j]
      /\ \A j \in i + 1 .. Len(bs) - 1 : t[j] = bs[j + 1]
  BY <1>1, AbsorbDesc
<1>3. Well(t)
  BY AbsorbWell
<1>4. \A a, s : ReservedBut(t, i, a, s) <=> ReservedBut(bs, i, a, s)
  BY <1>1, AbsorbReserved
<1> HIDE DEF t
<1>5. t[i].free /\ i \in 1 .. Len(t) /\ i \in 1 .. Len(bs)
  BY <1>1, <1>2
<1>6. ASSUME NEW a, NEW s
      PROVE  Reserved(t, a, s) <=> Reserved(bs, a, s)
  <2>1. Reserved(t, a, s) <=> ReservedBut(t, i, a, s)
    BY <1>5, ReservedSplitsOff
  <2>2. Reserved(bs, a, s) <=> ReservedBut(bs, i, a, s)
    BY <1>5, ReservedSplitsOff
  <2> QED BY <1>4, <2>1, <2>2
<1> QED BY <1>2, <1>3, <1>5, <1>6 DEF t

(* A pointer to a block of a sound list names that block.                  *)
LEMMA IndexOfPtr ==
  ASSUME NEW bs, Well(bs), NEW k \in 1 .. Len(bs)
  PROVE  IndexOf(bs, Ptr(bs[k])) = k
<1>1. /\ DOMAIN bs = 1 .. Len(bs)
      /\ \A j \in 1 .. Len(bs) : bs[j] \in Block
      /\ \A i, j \in 1 .. Len(bs) : bs[i].addr = bs[j].addr => i = j
  BY WellFacts
<1>2. ASSUME NEW i \in DOMAIN bs, Ptr(bs[i]) = Ptr(bs[k])
      PROVE  i = k
  <2>1. bs[i].addr \in Nat /\ bs[k].addr \in Nat
    BY <1>1, BlockFields
  <2>2. bs[i].addr = bs[k].addr
    BY <1>2, <2>1, HeapAssumption DEF Ptr
  <2> QED BY <1>1, <2>2
<1> QED BY <1>1, <1>2 DEF IndexOf
(* kfree on a sound list: the reservation at the freed block is given up,  *)
(* and no two free neighbours are left.                                    *)
LEMMA PutBackFacts ==
  ASSUME NEW bs, Well(bs), NoTwoFree(bs), NEW k \in 1 .. Len(bs), ~bs[k].free
  PROVE  LET t == PutBack(bs, Ptr(bs[k]))
         IN /\ Well(t) /\ NoTwoFree(t)
            /\ \A a, s : Reserved(t, a, s) <=> Reserved(bs, a, s) /\ a # bs[k].addr
<1> DEFINE f == [bs EXCEPT ![k].free = TRUE]
           x == AbsorbIfFree(f, k)
           t == PutBack(bs, Ptr(bs[k]))
<1>0. t = IF k > 1 /\ x[k - 1].free THEN Absorb(x, k - 1) ELSE x
  BY IndexOfPtr DEF PutBack
<1>1. /\ bs \in Seq(Block) /\ Len(bs) \in Nat
      /\ \A i, j \in 1 .. Len(bs) : bs[i].addr = bs[j].addr => i = j
  BY WellFacts
<1>f. /\ f \in Seq(Block) /\ Len(f) = Len(bs)
      /\ f[k] = [addr |-> bs[k].addr, size |-> bs[k].size, free |-> TRUE]
      /\ \A j \in 1 .. Len(bs) : j # k => f[j] = bs[j]
  BY <1>1, FlagDesc
<1>2. Well(f)
  BY FlagWell
<1>3. \A a, s : ReservedBut(f, k, a, s) <=> ReservedBut(bs, k, a, s)
  BY <1>1, FlagReserved
<1> HIDE DEF f, t
<1>4. f[k].free /\ k \in 1 .. Len(f) /\ DOMAIN f = 1 .. Len(f)
  BY <1>2, <1>f, WellFacts
<1>5. ASSUME NEW a, NEW s
      PROVE  Reserved(f, a, s) <=> Reserved(bs, a, s) /\ a # bs[k].addr
  <2>1. Reserved(f, a, s) <=> ReservedBut(bs, k, a, s)
    BY <1>3, <1>4, ReservedSplitsOff
  <2>2. ReservedBut(bs, k, a, s) <=> Reserved(bs, a, s) /\ a # bs[k].addr
    BY <1>1 DEF Reserved, ReservedBut
  <2> QED BY <2>1, <2>2
<1>6. FreePairsIn(f, {k - 1, k})
  <2> SUFFICES ASSUME NEW j \in 1 .. Len(f) - 1, f[j].free, f[j + 1].free,
                      j # k - 1, j # k
               PROVE  FALSE
    BY DEF FreePairsIn
  <2>1. j \in 1 .. Len(bs) /\ j + 1 \in 1 .. Len(bs) /\ j + 1 # k /\ j \in 1 .. Len(bs) - 1
    BY <1>1, <1>f
  <2>2. f[j] = bs[j] /\ f[j + 1] = bs[j + 1]
    BY <1>f, <2>1
  <2> QED BY <2>1, <2>2 DEF NoTwoFree
<1>7. /\ Well(x) /\ k \in 1 .. Len(x) /\ x[k].free
      /\ FreePairsIn(x, {k - 1})
      /\ \A a, s : Reserved(x, a, s) <=> Reserved(f, a, s)
  <2>1. CASE k + 1 \in DOMAIN f /\ f[k + 1].free
    <3>1. x = Absorb(f, k)
      BY <2>1 DEF AbsorbIfFree
    <3>2. k \in 1 .. Len(f) - 1 /\ f[k + 1].free
      BY <1>1, <1>f, <1>4, <2>1
    <3> HIDE DEF x
    <3>3. /\ Well(x) /\ Len(x) = Len(f) - 1 /\ x[k].free
          /\ \A j \in 1 .. k - 1 : x[j] = f[j]
          /\ \A a, s : Reserved(x, a, s) <=> Reserved(f, a, s)
      BY <1>2, <1>4, <3>1, <3>2, MergeFree
    <3>4. FreePairsIn(x, {k - 1})
      <4> SUFFICES ASSUME NEW j \in 1 .. Len(x) - 1, x[j].free, x[j + 1].free
                   PROVE  j = k - 1
        BY DEF FreePairsIn
      <4>1. IF j < k THEN j \in {k - 1, k} ELSE j + 1 \in {k - 1, k}
        BY <1>f, <1>6, <3>1, <3>2, AbsorbPairs
      <4> QED BY <4>1, <1>1, <1>f, <3>3
    <3>5. k \in 1 .. Len(x)
      BY <1>1, <1>f, <3>2, <3>3
    <3> QED BY <3>3, <3>4, <3>5
  <2>2. CASE ~(k + 1 \in DOMAIN f /\ f[k + 1].free)
    <3>1. x = f
      BY <2>2 DEF AbsorbIfFree
    <3> HIDE DEF x
    <3>2. FreePairsIn(f, {k - 1})
      <4> SUFFICES ASSUME NEW j \in 1 .. Len(f) - 1, f[j].free, f[j + 1].free
                   PROVE  j = k - 1
        BY DEF FreePairsIn
      <4>1. j \in {k - 1, k}
        BY <1>6 DEF FreePairsIn
      <4>2. j + 1 \in DOMAIN f
        BY <1>1, <1>f, <1>4
      <4> QED BY <2>2, <4>1, <4>2
    <3> QED BY <1>2, <1>4, <3>1, <3>2
  <2> QED BY <2>1, <2>2
<1> HIDE DEF x
<1>8. x \in Seq(Block) /\ Len(x) \in Nat
  BY <1>7, WellFacts
<1>9. /\ Well(t) /\ NoTwoFree(t)
      /\ \A a, s : Reserved(t, a, s) <=> Reserved(x, a, s)
  <2>1. CASE k > 1 /\ x[k - 1].free
    <3> DEFINE i == k - 1
    <3>1. t = Absorb(x, i)
      BY <1>0, <2>1
    <3>2. i \in 1 .. Len(x) - 1 /\ i + 1 = k /\ x[i].free /\ x[i + 1].free
      BY <1>7, <1>8, <2>1
    <3>6. FreePairsIn(x, {i})
      BY <1>7
    <3> HIDE DEF i
    <3>3. /\ Well(t) /\ Len(t) = Len(x) - 1
          /\ \A a, s : Reserved(t, a, s) <=> Reserved(x, a, s)
      BY <1>7, <3>1, <3>2, MergeFree
    <3>4. NoTwoFree(t)
      <4> SUFFICES ASSUME NEW j \in 1 .. Len(t) - 1, t[j].free, t[j + 1].free
                   PROVE  FALSE
        BY DEF NoTwoFree
      <4>1. IF j < i THEN j \in {i} ELSE j + 1 \in {i}
        BY <1>8, <3>1, <3>2, <3>6, AbsorbPairs
      <4>2. j \in Int /\ i \in Int
        BY <1>8, <3>2, <3>3
      <4> QED BY <4>1, <4>2
    <3> QED BY <3>3, <3>4
  <2>2. CASE ~(k > 1 /\ x[k - 1].free)
    <3>1. t = x
      BY <1>0, <2>2
    <3>2. NoTwoFree(x)
      <4> SUFFICES ASSUME NEW j \in 1 .. Len(x) - 1, x[j].free, x[j + 1].free
                   PROVE  FALSE
        BY DEF NoTwoFree
      <4>1. j = k - 1
        BY <1>7 DEF FreePairsIn
      <4>2. k > 1
        BY <1>7, <1>8, <4>1
      <4> QED BY <2>2, <4>1, <4>2
    <3> QED BY <1>7, <3>1, <3>2
  <2> QED BY <2>1, <2>2
<1>10. \A a, s : Reserved(t, a, s) <=> Reserved(bs, a, s) /\ a # bs[k].addr
  BY <1>5, <1>7, <1>9
<1> QED BY <1>9, <1>10 DEF t
(* Where a split leaves two free neighbours.                               *)
LEMMA SplitPairs ==
  ASSUME NEW bs \in Seq(Block), NEW i \in 1 .. Len(bs), NEW need \in Nat,
         bs[i].size >= need + BlockSize, NoTwoFree(bs),
         NEW j \in 1 .. Len(bs),
         Split(bs, i, need)[j].free, Split(bs, i, need)[j + 1].free
  PROVE  \/ j = i /\ bs[i].free
         \/ j = i + 1 /\ bs[i + 1].free
<1> DEFINE t == Split(bs, i, need)
<1>1. /\ t \in Seq(Block) /\ Len(t) = Len(bs) + 1
      /\ t[i] = [addr |-> bs[i].addr, size |-> need, free |-> bs[i].free]
      /\ t[i + 1] = [addr |-> bs[i].addr + BlockSize + need,
                     size |-> bs[i].size - need - BlockSize, free |-> TRUE]
      /\ \A k \in 1 .. i - 1 : t[k] = bs[k]
      /\ \A k \in i + 2 .. Len(bs) + 1 : t[k] = bs[k - 1]
  BY SplitDesc
<1>2. t[j].free /\ t[j + 1].free /\ Len(bs) \in Nat
  BY LenProperties
<1> HIDE DEF t
<1>3. t[i].free = bs[i].free
  BY <1>1
<1>4. CASE j < i
  <2>1. j \in 1 .. i - 1 /\ j \in 1 .. Len(bs) - 1
    BY <1>2, <1>4
  <2>2. bs[j].free
    BY <1>1, <1>2, <2>1
  <2>3. bs[j + 1].free
    <3>1. CASE j + 1 = i
      BY <1>2, <1>3, <3>1
    <3>2. CASE j + 1 # i
      <4>1. j + 1 \in 1 .. i - 1
        BY <1>2, <1>4, <3>2
      <4> QED BY <1>1, <1>2, <4>1
    <3> QED BY <3>1, <3>2
  <2> QED BY <2>1, <2>2, <2>3 DEF NoTwoFree
<1>5. CASE j = i
  BY <1>2, <1>3, <1>5
<1>6. CASE j = i + 1
  <2>1. j + 1 \in i + 2 .. Len(bs) + 1 /\ (j + 1) - 1 = i + 1
    BY <1>2, <1>6
  <2> QED BY <1>1, <1>2, <1>6, <2>1
<1>7. CASE j > i + 1
  <2>1. /\ j \in i + 2 .. Len(bs) + 1 /\ j + 1 \in i + 2 .. Len(bs) + 1
        /\ j - 1 \in 1 .. Len(bs) - 1 /\ (j + 1) - 1 = (j - 1) + 1
    BY <1>2, <1>7
  <2>2. bs[j - 1].free /\ bs[(j - 1) + 1].free
    BY <1>1, <1>2, <2>1
  <2> QED BY <2>1, <2>2 DEF NoTwoFree
<1> QED BY <1>2, <1>4, <1>5, <1>6, <1>7

(* krealloc in place on a sound list: the block keeps its address and gets *)
(* at least need bytes, taken from its free successor alone.               *)
LEMMA GrowFacts ==
  ASSUME NEW bs, Well(bs), NoTwoFree(bs), NEW k \in 1 .. Len(bs), ~bs[k].free,
         NEW need \in Nat, CanGrow(bs, k, need)
  PROVE  LET t == GrowInPlace(bs, k, need)
         IN /\ Well(t) /\ NoTwoFree(t)
            /\ \E m \in Nat :
                 /\ m >= need
                 /\ \A a, s : Reserved(t, a, s) <=> \/ Reserved(bs, a, s) /\ a # bs[k].addr
                                                    \/ a = bs[k].addr /\ s = m
<1> DEFINE all == Absorb(bs, k)
           w == Split(all, k, need)
           t == GrowInPlace(bs, k, need)
<1>0. t = IF HasRoomToSplit(all[k].size, need) THEN AbsorbIfFree(w, k + 1) ELSE all
  BY DEF GrowInPlace
<1>1. /\ bs \in Seq(Block) /\ Len(bs) \in Nat /\ DOMAIN bs = 1 .. Len(bs)
      /\ \A j \in 1 .. Len(bs) : bs[j] \in Block
      /\ \A i, j \in 1 .. Len(bs) : bs[i].addr = bs[j].addr => i = j
  BY WellFacts
<1>2. /\ k \in 1 .. Len(bs) - 1 /\ k + 1 \in 1 .. Len(bs) /\ bs[k + 1].free
      /\ bs[k].size + BlockSize + bs[k + 1].size >= need
  BY <1>1 DEF CanGrow
<1>a. /\ all \in Seq(Block) /\ Len(all) = Len(bs) - 1
      /\ all[k] = [addr |-> bs[k].addr, size |-> bs[k].size + BlockSize + bs[k + 1].size,
                   free |-> bs[k].free]
      /\ \A j \in 1 .. k - 1 : all[j] = bs[j]
      /\ \A j \in k + 1 .. Len(bs) - 1 : all[j] = bs[j + 1]
  BY <1>1, <1>2, AbsorbDesc
<1>3. Well(all)
  BY <1>2, AbsorbWell
<1>4. \A a, s : ReservedBut(all, k, a, s) <=> ReservedBut(bs, k, a, s)
  BY <1>1, <1>2, AbsorbReserved
<1>5. NoTwoFree(all)
  <2> SUFFICES ASSUME NEW j \in 1 .. Len(all) - 1, all[j].free, all[j + 1].free
               PROVE  FALSE
    BY DEF NoTwoFree
  <2> DEFINE S == {}
  <2>1. FreePairsIn(bs, S)
    BY DEF FreePairsIn, NoTwoFree
  <2>2. \A i : i \notin S
    OBVIOUS
  <2> HIDE DEF S
  <2>3. bs \in Seq(Block)
    BY <1>1
  <2>4. IF j < k THEN j \in S ELSE j + 1 \in S
    BY <1>2, <2>1, <2>3, AbsorbPairs
  <2> QED BY <2>2, <2>4
<1> HIDE DEF all
<1>6. /\ k \in 1 .. Len(all) /\ all[k].addr = bs[k].addr /\ ~all[k].free
      /\ all[k].size \in Nat /\ all[k].size >= need
  <2>1. k \in 1 .. Len(all) /\ all[k].addr = bs[k].addr /\ all[k].free = bs[k].free
        /\ all[k].size = bs[k].size + BlockSize + bs[k + 1].size
    BY <1>1, <1>2, <1>a
  <2>2. all[k] \in Block
    BY <1>3, <2>1, WellFacts
  <2> QED BY <1>2, <2>1, <2>2, BlockFields
<1>7. k + 1 \in 1 .. Len(all) => ~all[k + 1].free
  <2> SUFFICES ASSUME k + 1 \in 1 .. Len(all), all[k + 1].free
               PROVE  FALSE
    OBVIOUS
  <2>1. k + 1 \in k + 1 .. Len(bs) - 1 /\ k + 1 \in 1 .. Len(bs) - 1
    BY <1>1, <1>2, <1>a
  <2>2. bs[(k + 1) + 1].free
    BY <1>a, <2>1
  <2> QED BY <1>2, <2>1, <2>2 DEF NoTwoFree
<1>8. /\ Well(t) /\ NoTwoFree(t) /\ k \in 1 .. Len(t)
      /\ t[k].addr = bs[k].addr /\ ~t[k].free /\ t[k].size \in Nat /\ t[k].size >= need
      /\ \A a, s : ReservedBut(t, k, a, s) <=> ReservedBut(bs, k, a, s)
  <2>1. CASE HasRoomToSplit(all[k].size, need)
    <3>1. all \in Seq(Block) /\ all[k].size >= need + BlockSize
      <4> DEFINE z == all[k].size
      <4>1. z \in Nat /\ z >= need + BlockSize + Alignment
        BY <1>6, <2>1 DEF HasRoomToSplit
      <4>2. z = all[k].size
        OBVIOUS
      <4> HIDE DEF z
      <4>3. z >= need + BlockSize
        BY <4>1, HeapAssumption
      <4> QED BY <1>a, <4>2, <4>3
    <3>w. /\ w \in Seq(Block) /\ Len(w) = Len(all) + 1
          /\ w[k] = [addr |-> all[k].addr, size |-> need, free |-> all[k].free]
          /\ w[k + 1] = [addr |-> all[k].addr + BlockSize + need,
                         size |-> all[k].size - need - BlockSize, free |-> TRUE]
          /\ \A j \in 1 .. k - 1 : w[j] = all[j]
          /\ \A j \in k + 2 .. Len(all) + 1 : w[j] = all[j - 1]
      BY <1>6, <3>1, SplitDesc
    <3>2. Well(w)
      BY <1>3, <1>6, <3>1, SplitWell
    <3>3. \A a, s : ReservedBut(w, k, a, s) <=> ReservedBut(all, k, a, s)
      BY <1>6, <3>1, SplitReserved
    <3>4. ASSUME NEW j \in 1 .. Len(all), w[j].free, w[j + 1].free
          PROVE  \/ j = k /\ all[k].free
                 \/ j = k + 1 /\ all[k + 1].free
      BY <1>5, <1>6, <3>1, <3>4, SplitPairs
    <3> HIDE DEF w
    <3>5. NoTwoFree(w)
      <4> SUFFICES ASSUME NEW j \in 1 .. Len(w) - 1, w[j].free, w[j + 1].free
                   PROVE  FALSE
        BY DEF NoTwoFree
      <4>1. j \in 1 .. Len(all)
        BY <1>1, <1>a, <3>w
      <4>2. \/ j = k /\ all[k].free
            \/ j = k + 1 /\ all[k + 1].free
        BY <3>4, <4>1
      <4> QED BY <1>6, <1>7, <4>1, <4>2
    <3>6. ~((k + 1) + 1 \in DOMAIN w /\ w[(k + 1) + 1].free)
      <4> SUFFICES ASSUME (k + 1) + 1 \in DOMAIN w, w[(k + 1) + 1].free
                   PROVE  FALSE
        OBVIOUS
      <4>1. (k + 1) + 1 \in k + 2 .. Len(all) + 1 /\ ((k + 1) + 1) - 1 = k + 1
            /\ k + 1 \in 1 .. Len(all)
        <5>1. DOMAIN w = 1 .. Len(w)
          BY <3>2, WellFacts
        <5> QED BY <1>1, <1>a, <3>w, <5>1
      <4>2. all[k + 1].free
        BY <3>w, <4>1
      <4> QED BY <1>7, <4>1, <4>2
    <3>7. t = w
      BY <1>0, <2>1, <3>6 DEF AbsorbIfFree
    <3>8. w[k].addr = all[k].addr /\ w[k].free = all[k].free /\ w[k].size = need
          /\ k \in 1 .. Len(w)
      BY <1>1, <1>6, <1>a, <3>w
    <3> HIDE DEF t
    <3> QED BY <1>4, <1>6, <3>2, <3>3, <3>5, <3>7, <3>8
  <2>2. CASE ~HasRoomToSplit(all[k].size, need)
    <3>1. t = all
      BY <1>0, <2>2
    <3> HIDE DEF t
    <3> QED BY <1>3, <1>4, <1>5, <1>6, <3>1
  <2> QED BY <2>1, <2>2
<1> HIDE DEF t, w
<1>9. ASSUME NEW a, NEW s
      PROVE  Reserved(t, a, s) <=> \/ Reserved(bs, a, s) /\ a # bs[k].addr
                                   \/ a = bs[k].addr /\ s = t[k].size
  <2>1. Reserved(t, a, s) <=> \/ ReservedBut(t, k, a, s)
                              \/ ~t[k].free /\ t[k].addr = a /\ t[k].size = s
    BY <1>8, ReservedSplitsOff
  <2>2. ReservedBut(bs, k, a, s) <=> Reserved(bs, a, s) /\ a # bs[k].addr
    BY <1>1 DEF Reserved, ReservedBut
  <2> QED BY <1>8, <2>1, <2>2
<1>10. \E m \in Nat :
         /\ m >= need
         /\ \A a, s : Reserved(t, a, s) <=> \/ Reserved(bs, a, s) /\ a # bs[k].addr
                                            \/ a = bs[k].addr /\ s = m
  <2>1. PICK m \in Nat : m = t[k].size
    BY <1>8
  <2>2. m >= need
    BY <1>8, <2>1
  <2>3. ASSUME NEW a, NEW s
        PROVE  Reserved(t, a, s) <=> \/ Reserved(bs, a, s) /\ a # bs[k].addr
                                     \/ a = bs[k].addr /\ s = m
    BY <1>9, <2>1
  <2> WITNESS m \in Nat
  <2> QED BY <2>2, <2>3
<1> QED BY <1>8, <1>10 DEF t
-----------------------------------------------------------------------------
(* The callers' pointers h are exactly the reservations of bs, each with   *)
(* at least the bytes asked for.                                           *)
Matches(bs, h) ==
  /\ h = [p \in DOMAIN h |-> h[p]]
  /\ \A p \in DOMAIN h : p \in Nat /\ h[p] \in Nat
  /\ \A p \in DOMAIN h : \E a, s : Reserved(bs, a, s) /\ p = a + BlockSize
  /\ \A a, s : Reserved(bs, a, s) => a + BlockSize \in DOMAIN h /\ s >= h[a + BlockSize]

(* Addresses and sizes of reservations are natural numbers.                *)
LEMMA ReservedType ==
  ASSUME NEW bs, Well(bs), NEW a, NEW s, Reserved(bs, a, s)
  PROVE  a \in Nat /\ s \in Nat
<1>1. \A j \in 1 .. Len(bs) : bs[j] \in Block
  BY WellFacts
<1>2. PICK j \in 1 .. Len(bs) : bs[j].addr = a /\ bs[j].size = s
  BY DEF Reserved
<1> QED BY <1>1, <1>2, BlockFields

(* Granting n bytes at a caller's pointer, where the list reserves m >= n. *)
LEMMA GrantMatches ==
  ASSUME NEW bs, Well(bs), NEW t, NEW h, Matches(bs, h),
         NEW b \in Nat, NEW m \in Nat, NEW n \in Nat, m >= n,
         \A a, s : Reserved(t, a, s) <=> \/ Reserved(bs, a, s) /\ a # b
                                         \/ a = b /\ s = m
  PROVE  Matches(t, Grant(h, b + BlockSize, n))
<1> DEFINE p == b + BlockSize
           g == Grant(h, p, n)
<1>1. /\ DOMAIN g = DOMAIN h \cup {p} /\ g[p] = n
      /\ \A q \in DOMAIN h : q # p => g[q] = h[q]
      /\ g = [q \in DOMAIN g |-> g[q]]
  BY DEF Grant
<1>2. p \in Nat
  BY HeapAssumption
<1> HIDE DEF g
<1>3. \A q \in DOMAIN g : q \in Nat /\ g[q] \in Nat
  BY <1>1, <1>2 DEF Matches
<1>4. ASSUME NEW q \in DOMAIN g
      PROVE  \E a, s : Reserved(t, a, s) /\ q = a + BlockSize
  <2>1. CASE q = p
    <3>1. Reserved(t, b, m) /\ q = b + BlockSize
      BY <2>1
    <3> QED BY <3>1
  <2>2. CASE q # p
    <3>1. PICK a, s : Reserved(bs, a, s) /\ q = a + BlockSize
      BY <1>1, <2>2 DEF Matches
    <3>2. a # b
      BY <2>2, <3>1
    <3> QED BY <3>1, <3>2
  <2> QED BY <2>1, <2>2
<1>5. ASSUME NEW a, NEW s, Reserved(t, a, s)
      PROVE  a + BlockSize \in DOMAIN g /\ s >= g[a + BlockSize]
  <2>1. CASE a = b /\ s = m
    BY <1>1, <2>1
  <2>2. CASE Reserved(bs, a, s) /\ a # b
    <3>1. a \in Nat
      BY <2>2, ReservedType
    <3>2. a + BlockSize # p
      BY <2>2, <3>1, HeapAssumption
    <3>3. a + BlockSize \in DOMAIN h /\ s >= h[a + BlockSize]
      BY <2>2 DEF Matches
    <3> QED BY <1>1, <3>2, <3>3
  <2> QED BY <1>5, <2>1, <2>2
<1>6. Matches(t, g)
  BY <1>1, <1>3, <1>4, <1>5 DEF Matches
<1> QED BY <1>6 DEF g

(* Giving up a pointer and its reservation.                                *)
LEMMA RevokeMatches ==
  ASSUME NEW bs, Well(bs), NEW t, NEW h, Matches(bs, h), NEW b \in Nat,
         \A a, s : Reserved(t, a, s) <=> Reserved(bs, a, s) /\ a # b
  PROVE  Matches(t, Revoke(h, b + BlockSize))
<1> DEFINE p == b + BlockSize
           g == Revoke(h, p)
<1>1. /\ DOMAIN g = DOMAIN h \ {p}
      /\ \A q \in DOMAIN g : g[q] = h[q]
      /\ g = [q \in DOMAIN g |-> g[q]]
  BY DEF Revoke
<1> HIDE DEF g
<1>3. \A q \in DOMAIN g : q \in Nat /\ g[q] \in Nat
  BY <1>1 DEF Matches
<1>4. ASSUME NEW q \in DOMAIN g
      PROVE  \E a, s : Reserved(t, a, s) /\ q = a + BlockSize
  <2>1. PICK a, s : Reserved(bs, a, s) /\ q = a + BlockSize
    BY <1>1 DEF Matches
  <2>2. a # b
    BY <1>1, <2>1
  <2> QED BY <2>1, <2>2
<1>5. ASSUME NEW a, NEW s, Reserved(t, a, s)
      PROVE  a + BlockSize \in DOMAIN g /\ s >= g[a + BlockSize]
  <2>1. Reserved(bs, a, s) /\ a # b
    BY <1>5
  <2>2. a \in Nat
    BY <2>1, ReservedType
  <2>3. a + BlockSize # p
    BY <2>1, <2>2, HeapAssumption
  <2>4. a + BlockSize \in DOMAIN h /\ s >= h[a + BlockSize]
    BY <2>1 DEF Matches
  <2> QED BY <1>1, <2>3, <2>4
<1>6. Matches(t, g)
  BY <1>1, <1>3, <1>4, <1>5 DEF Matches
<1> QED BY <1>6 DEF g

(* Every pointer a caller holds is that of a used block.                   *)
LEMMA HeldBlock ==
  ASSUME NEW bs, Well(bs), NEW h, Matches(bs, h), NEW p \in DOMAIN h
  PROVE  \E k \in 1 .. Len(bs) : ~bs[k].free /\ p = Ptr(bs[k]) /\ p # NULL
<1>1. PICK a, s : Reserved(bs, a, s) /\ p = a + BlockSize
  BY DEF Matches
<1>2. PICK k \in 1 .. Len(bs) : ~bs[k].free /\ bs[k].addr = a
  BY <1>1 DEF Reserved
<1>3. a \in Nat
  BY <1>1, ReservedType
<1>4. p = Ptr(bs[k]) /\ p # NULL
  BY <1>1, <1>2, <1>3, HeapAssumption DEF Ptr, NULL
<1> QED BY <1>2, <1>4
-----------------------------------------------------------------------------
(* The inductive invariant: a sound block list with no two free neighbours *)
(* and the callers' pointers backed by it.  Coalescing is needed for the   *)
(* rest: krealloc's remainder stays clear of a third block because of it.  *)
IInv == Well(blocks) /\ NoTwoFree(blocks) /\ Matches(blocks, live)

(* The sizes kmalloc and krealloc work with cover what was asked for.      *)
LEMMA RequestAligned ==
  ASSUME NEW n \in Requests
  PROVE  /\ n \in Nat /\ ALIGN(n) \in Nat /\ ALIGN(n) >= n
         /\ ALIGN(ALIGN(n)) \in Nat /\ ALIGN(ALIGN(n)) >= n
         /\ ALIGN(ALIGN(n)) >= ALIGN(n)
<1>1. n \in Nat /\ n + 3 * Alignment + BlockSize < SizeMod
  BY HeapAssumption
<1>2. n + 2 * Alignment < SizeMod
  BY <1>1, HeapAssumption
<1>3. ALIGN(n) \in Nat /\ ALIGN(n) >= n /\ ALIGN(n) < n + Alignment
  BY <1>1, <1>2, AlignType
<1> DEFINE m == ALIGN(n)
<1>4. m \in Nat /\ m >= n /\ m < n + Alignment
  BY <1>3
<1> HIDE DEF m
<1>5. m + 2 * Alignment < SizeMod
  BY <1>1, <1>4, HeapAssumption
<1>6. ALIGN(m) \in Nat /\ ALIGN(m) >= m
  BY <1>4, <1>5, AlignType
<1>7. ALIGN(m) >= n
  BY <1>1, <1>4, <1>6
<1> QED BY <1>1, <1>3, <1>6, <1>7 DEF m

(* Taking block i for need >= n bytes and handing out its pointer.         *)
LEMMA TakeKeeps ==
  ASSUME NEW bs, NEW h, Well(bs), NoTwoFree(bs), Matches(bs, h),
         NEW n \in Nat, NEW need \in Nat, need >= n, NEW i \in DOMAIN bs,
         FirstFit(bs, need, i)
  PROVE  LET t == Take(bs, i, need)
         IN Well(t) /\ NoTwoFree(t) /\ Matches(t, Grant(h, Ptr(bs[i]), n))
<1> DEFINE t == Take(bs, i, need)
<1>1. /\ i \in 1 .. Len(bs) /\ bs[i] \in Block
      /\ \A j, k \in 1 .. Len(bs) : bs[j].addr = bs[k].addr => j = k
  BY WellFacts
<1>2. bs[i].free /\ bs[i].size >= need
  BY DEF FirstFit, Fits
<1>3. /\ Well(t) /\ NoTwoFree(t)
      /\ \E m \in Nat :
           /\ m >= need
           /\ \A a, s : Reserved(t, a, s) <=> \/ Reserved(bs, a, s)
                                              \/ a = bs[i].addr /\ s = m
  BY <1>1, <1>2, TakeFacts
<1> HIDE DEF t
<1>4. PICK m \in Nat :
        /\ m >= need
        /\ \A a, s : Reserved(t, a, s) <=> \/ Reserved(bs, a, s)
                                           \/ a = bs[i].addr /\ s = m
  BY <1>3
<1>5. ASSUME NEW a, NEW s, Reserved(bs, a, s)
      PROVE  a # bs[i].addr
  BY <1>1, <1>2, <1>5 DEF Reserved
<1> DEFINE b == bs[i].addr
<1>6. b \in Nat /\ Ptr(bs[i]) = b + BlockSize
  BY <1>1, BlockFields DEF Ptr
<1>7. \A a, s : Reserved(t, a, s) <=> \/ Reserved(bs, a, s) /\ a # b
                                      \/ a = b /\ s = m
  BY <1>4, <1>5
<1>8. m >= n
  BY <1>4
<1> HIDE DEF b
<1>9. Matches(t, Grant(h, b + BlockSize, n))
  BY <1>6, <1>7, <1>8, GrantMatches
<1> QED BY <1>3, <1>6, <1>9 DEF t

(* Putting back a block and giving up its pointer.                         *)
LEMMA PutBackKeeps ==
  ASSUME NEW bs, NEW h, Well(bs), NoTwoFree(bs), Matches(bs, h), NEW p \in DOMAIN h
  PROVE  LET t == PutBack(bs, p)
         IN Well(t) /\ NoTwoFree(t) /\ Matches(t, Revoke(h, p))
<1>1. PICK k \in 1 .. Len(bs) : ~bs[k].free /\ p = Ptr(bs[k]) /\ p # NULL
  BY HeldBlock
<1> DEFINE t == PutBack(bs, Ptr(bs[k]))
           b == bs[k].addr
<1>2. /\ Well(t) /\ NoTwoFree(t)
      /\ \A a, s : Reserved(t, a, s) <=> Reserved(bs, a, s) /\ a # bs[k].addr
  BY <1>1, PutBackFacts
<1>3. b \in Nat /\ p = b + BlockSize /\ t = PutBack(bs, p)
  BY <1>1, WellFacts, BlockFields DEF Ptr
<1>4. \A a, s : Reserved(t, a, s) <=> Reserved(bs, a, s) /\ a # b
  BY <1>2
<1> HIDE DEF t, b
<1>5. Matches(t, Revoke(h, b + BlockSize))
  BY <1>3, <1>4, RevokeMatches
<1> QED BY <1>2, <1>3, <1>5

-----------------------------------------------------------------------------
(* kheap_init establishes the invariant.                                   *)
LEMMA InitInv == Init => IInv
<1> SUFFICES ASSUME Init PROVE IInv
  OBVIOUS
<1> DEFINE z == HeapSize - BlockSize
           b == [addr |-> 0, size |-> z, free |-> TRUE]
<1>1. z \in Nat
  BY HeapAssumption
<1>2. blocks = <<b>> /\ live = [p \in {} |-> 0]
  BY DEF Init
<1>3. b \in Block /\ b.addr = 0 /\ b.free /\ End(b) = HeapSize
  <2>1. b \in Block /\ b.addr = 0 /\ b.free /\ b.size = z
    BY <1>1 DEF Block
  <2>2. End(b) = 0 + BlockSize + z
    BY <2>1 DEF End
  <2> QED BY <2>1, <2>2, HeapAssumption
<1> HIDE DEF b, z
<1>4. blocks \in Seq(Block) /\ Len(blocks) = 1 /\ blocks[1] = b
  BY <1>2, <1>3
<1> DEFINE A == Addrs(blocks)  Z == Ends(blocks)
<1>5. A[1] = 0 /\ Z[1] = HeapSize
  BY <1>3, <1>4 DEF Addrs, Ends
<1> HIDE DEF A, Z
<1>6. Layout(1, A, Z)
  BY <1>5, HeapAssumption DEF Layout, Chained, Ascending, Covering
<1>7. Well(blocks)
  BY <1>4, <1>6 DEF Well, A, Z
<1>8. NoTwoFree(blocks)
  BY <1>4 DEF NoTwoFree
<1>9. Matches(blocks, live)
  <2>1. DOMAIN live = {} /\ live = [p \in DOMAIN live |-> live[p]]
    BY <1>2
  <2>2. \A a, s : ~Reserved(blocks, a, s)
    BY <1>3, <1>4 DEF Reserved
  <2> QED BY <2>1, <2>2 DEF Matches
<1> QED BY <1>7, <1>8, <1>9 DEF IInv
(* kmalloc keeps the invariant, whether it finds a block or not.           *)
LEMMA KmallocInv ==
  ASSUME IInv, NEW n \in Requests, kmalloc(n)
  PROVE  IInv'
<1>1. n \in Nat /\ ALIGN(n) \in Nat /\ ALIGN(n) >= n
  BY RequestAligned
<1>2. CASE \E i \in DOMAIN blocks :
             /\ FirstFit(blocks, ALIGN(n), i)
             /\ blocks' = Take(blocks, i, ALIGN(n))
             /\ live' = Grant(live, Ptr(blocks[i]), n)
  <2>1. PICK i \in DOMAIN blocks :
               /\ FirstFit(blocks, ALIGN(n), i)
               /\ blocks' = Take(blocks, i, ALIGN(n))
               /\ live' = Grant(live, Ptr(blocks[i]), n)
    BY <1>2
  <2>2. /\ Well(Take(blocks, i, ALIGN(n))) /\ NoTwoFree(Take(blocks, i, ALIGN(n)))
        /\ Matches(Take(blocks, i, ALIGN(n)), Grant(live, Ptr(blocks[i]), n))
    BY <1>1, <2>1, TakeKeeps DEF IInv
  <2>3. Well(blocks') /\ NoTwoFree(blocks') /\ Matches(blocks', live')
    BY <2>1, <2>2
  <2> QED BY <2>3 DEF IInv, Well, NoTwoFree, Matches
<1>3. CASE UNCHANGED vars
  BY <1>3 DEF IInv, vars
<1> QED BY <1>2, <1>3 DEF kmalloc
(* kfree of a pointer a caller holds, or of NULL, keeps the invariant.     *)
LEMMA KfreeInv ==
  ASSUME IInv, NEW p \in DOMAIN live \cup {NULL}, kfree(p)
  PROVE  IInv'
<1>1. CASE p = NULL /\ UNCHANGED vars
  BY <1>1 DEF IInv, vars
<1>2. CASE p # NULL /\ blocks' = PutBack(blocks, p) /\ live' = Revoke(live, p)
  <2>1. p \in DOMAIN live
    BY <1>2
  <2>2. /\ Well(PutBack(blocks, p)) /\ NoTwoFree(PutBack(blocks, p))
        /\ Matches(PutBack(blocks, p), Revoke(live, p))
    BY <2>1, PutBackKeeps DEF IInv
  <2>3. Well(blocks') /\ NoTwoFree(blocks') /\ Matches(blocks', live')
    BY <1>2, <2>2
  <2> QED BY <2>3 DEF IInv, Well, NoTwoFree, Matches
<1> QED BY <1>1, <1>2 DEF kfree

(* The moving tail of krealloc keeps the invariant: the new reservation is *)
(* made before the old one is given up, and is never the old one.          *)
LEMMA RelocateInv ==
  ASSUME IInv, NEW p \in DOMAIN live, NEW n \in Requests, Relocate(p, n)
  PROVE  IInv'
<1> DEFINE need == ALIGN(ALIGN(n))
<1>1. n \in Nat /\ need \in Nat /\ need >= n
  BY RequestAligned
<1>u. \/ UNCHANGED vars
      \/ \E i \in DOMAIN blocks :
           /\ FirstFit(blocks, need, i)
           /\ blocks' = PutBack(Take(blocks, i, need), p)
           /\ live' = Grant(Revoke(live, p), Ptr(blocks[i]), n)
  BY DEF Relocate
<1> HIDE DEF need
<1>2. CASE \E i \in DOMAIN blocks :
             /\ FirstFit(blocks, need, i)
             /\ blocks' = PutBack(Take(blocks, i, need), p)
             /\ live' = Grant(Revoke(live, p), Ptr(blocks[i]), n)
  <2>1. PICK i \in DOMAIN blocks :
               /\ FirstFit(blocks, need, i)
               /\ blocks' = PutBack(Take(blocks, i, need), p)
               /\ live' = Grant(Revoke(live, p), Ptr(blocks[i]), n)
    BY <1>2
  <2> DEFINE t == Take(blocks, i, need)
             q == Ptr(blocks[i])
             g == Grant(live, q, n)
  <2>2. Well(t) /\ NoTwoFree(t) /\ Matches(t, g)
    BY <1>1, <2>1, TakeKeeps DEF IInv
  <2>3. p # q
    <3>1. PICK k \in 1 .. Len(blocks) : ~blocks[k].free /\ p = Ptr(blocks[k])
      BY HeldBlock DEF IInv
    <3>2. i \in 1 .. Len(blocks) /\ blocks[i].free
      BY <2>1, WellFacts DEF IInv, FirstFit, Fits
    <3>3. IndexOf(blocks, Ptr(blocks[i])) = i /\ IndexOf(blocks, Ptr(blocks[k])) = k
      BY <3>2, IndexOfPtr DEF IInv
    <3> QED BY <3>1, <3>2, <3>3
  <2>4. p \in DOMAIN g /\ Revoke(g, p) = Grant(Revoke(live, p), q, n)
    BY <2>3 DEF Revoke, Grant
  <2> HIDE DEF t, q, g
  <2>5. Well(PutBack(t, p)) /\ NoTwoFree(PutBack(t, p)) /\ Matches(PutBack(t, p), Revoke(g, p))
    BY <2>2, <2>4, PutBackKeeps
  <2>6. blocks' = PutBack(t, p) /\ live' = Revoke(g, p)
    BY <2>1, <2>4 DEF t, q
  <2>7. Well(blocks') /\ NoTwoFree(blocks') /\ Matches(blocks', live')
    BY <2>5, <2>6
  <2> QED BY <2>7 DEF IInv, Well, NoTwoFree, Matches
<1>3. CASE UNCHANGED vars
  BY <1>3 DEF IInv, vars
<1> QED BY <1>u, <1>2, <1>3

(* krealloc keeps the invariant in each of its six cases.                  *)
LEMMA KreallocInv ==
  ASSUME IInv, NEW p \in DOMAIN live \cup {NULL}, NEW n \in Requests, krealloc(p, n)
  PROVE  IInv'
<1>1. CASE p = NULL /\ kmalloc(n)
  BY <1>1, KmallocInv
<1>2. CASE p # NULL /\ n = 0 /\ kfree(p)
  BY <1>2, KfreeInv
<1>3. CASE p # NULL /\ n # 0 /\ ~(p = NULL /\ kmalloc(n)) /\ ~(n = 0 /\ kfree(p))
  <2>1. p \in DOMAIN live
    BY <1>3
  <2>2. PICK k \in 1 .. Len(blocks) : ~blocks[k].free /\ p = Ptr(blocks[k])
    BY <2>1, HeldBlock DEF IInv
  <2>3. IndexOf(blocks, p) = k
    BY <2>2, IndexOfPtr DEF IInv
  <2> DEFINE need == ALIGN(n)
             b == blocks[k].addr
             z == blocks[k].size
  <2>4. n \in Nat /\ need \in Nat /\ need >= n
    BY RequestAligned
  <2>5. b \in Nat /\ z \in Nat /\ p = b + BlockSize
    BY <2>2, WellFacts, BlockFields DEF IInv, Ptr
  <2>6. CASE z >= need /\ live' = Grant(live, p, n) /\ blocks' = blocks
    <3>1. \A a, s : Reserved(blocks, a, s) <=> \/ Reserved(blocks, a, s) /\ a # b
                                               \/ a = b /\ s = z
      <4>1. \A i, j \in 1 .. Len(blocks) : blocks[i].addr = blocks[j].addr => i = j
        BY WellFacts DEF IInv
      <4> QED BY <2>2, <4>1 DEF Reserved
    <3>2. z >= n
      BY <2>4, <2>5, <2>6
    <3> HIDE DEF b, z, need
    <3>3. Matches(blocks, Grant(live, b + BlockSize, n))
      BY <2>4, <2>5, <3>1, <3>2, GrantMatches DEF IInv
    <3>4. Well(blocks') /\ NoTwoFree(blocks') /\ Matches(blocks', live')
      BY <2>5, <2>6, <3>3 DEF IInv
    <3> QED BY <3>4 DEF IInv, Well, NoTwoFree, Matches
  <2>7. CASE /\ CanGrow(blocks, k, need) /\ live' = Grant(live, p, n)
             /\ blocks' = GrowInPlace(blocks, k, need)
    <3> DEFINE t == GrowInPlace(blocks, k, need)
    <3> HIDE DEF need
    <3>1. /\ Well(t) /\ NoTwoFree(t)
          /\ \E m \in Nat :
               /\ m >= need
               /\ \A a, s : Reserved(t, a, s) <=> \/ Reserved(blocks, a, s) /\ a # blocks[k].addr
                                                  \/ a = blocks[k].addr /\ s = m
      BY <2>2, <2>4, <2>7, GrowFacts DEF IInv
    <3> HIDE DEF t
    <3>2. PICK m \in Nat :
            /\ m >= need
            /\ \A a, s : Reserved(t, a, s) <=> \/ Reserved(blocks, a, s) /\ a # blocks[k].addr
                                               \/ a = blocks[k].addr /\ s = m
      BY <3>1
    <3>3. \A a, s : Reserved(t, a, s) <=> \/ Reserved(blocks, a, s) /\ a # b
                                          \/ a = b /\ s = m
      BY <3>2
    <3>4. m >= n
      BY <2>4, <3>2
    <3> HIDE DEF b, z
    <3>5. Matches(t, Grant(live, b + BlockSize, n))
      BY <2>4, <2>5, <3>3, <3>4, GrantMatches DEF IInv
    <3>6. Well(blocks') /\ NoTwoFree(blocks') /\ Matches(blocks', live')
      BY <2>5, <2>7, <3>1, <3>5 DEF t
    <3> QED BY <3>6 DEF IInv, Well, NoTwoFree, Matches
  <2>8. CASE Relocate(p, n)
    BY <2>1, <2>8, RelocateInv
  <2>9. \/ z >= need /\ live' = Grant(live, p, n) /\ blocks' = blocks
        \/ /\ CanGrow(blocks, k, need) /\ live' = Grant(live, p, n)
           /\ blocks' = GrowInPlace(blocks, k, need)
        \/ Relocate(p, n)
    BY <1>3, <2>3 DEF krealloc
  <2> QED BY <2>6, <2>7, <2>8, <2>9
<1> QED BY <1>1, <1>2, <1>3 DEF krealloc
(* Every step of the heap keeps the invariant.                             *)
LEMMA NextInv == IInv /\ [Next]_vars => IInv'
<1> SUFFICES ASSUME IInv, [Next]_vars PROVE IInv'
  OBVIOUS
<1>1. ASSUME NEW n \in Requests, kmalloc(n) PROVE IInv'
  BY <1>1, KmallocInv
<1>2. ASSUME NEW p \in DOMAIN live \cup {NULL}, kfree(p) PROVE IInv'
  BY <1>2, KfreeInv
<1>3. ASSUME NEW p \in DOMAIN live \cup {NULL}, NEW n \in Requests, krealloc(p, n)
      PROVE  IInv'
  BY <1>3, KreallocInv
<1>4. CASE UNCHANGED vars
  BY <1>4 DEF IInv, vars
<1> QED BY <1>1, <1>2, <1>3, <1>4 DEF Next

(* The invariant holds after any sequence of calls.                        *)
LEMMA HeapInv == Spec => []IInv
<1> QED BY InitInv, NextInv, PTL DEF Spec

(* A backed list gives the invariant LiveBacked of the runs.               *)
LEMMA InvBacked == IInv => LiveBacked
<1> SUFFICES ASSUME IInv PROVE LiveBacked
  OBVIOUS
<1>1. DOMAIN blocks = 1 .. Len(blocks)
  BY WellFacts DEF IInv
<1>2. ASSUME NEW i \in Used(blocks)
      PROVE  Ptr(blocks[i]) \in DOMAIN live /\ blocks[i].size >= live[Ptr(blocks[i])]
  <2>1. Reserved(blocks, blocks[i].addr, blocks[i].size)
    BY <1>1 DEF Used, Reserved
  <2> QED BY <2>1 DEF IInv, Matches, Ptr
<1>3. ASSUME NEW p \in DOMAIN live
      PROVE  p \in {Ptr(blocks[i]) : i \in Used(blocks)}
  <2>1. PICK k \in 1 .. Len(blocks) : ~blocks[k].free /\ p = Ptr(blocks[k])
    BY HeldBlock DEF IInv
  <2>2. k \in Used(blocks)
    BY <1>1, <2>1 DEF Used
  <2> QED BY <2>1, <2>2
<1>4. DOMAIN live = {Ptr(blocks[i]) : i \in Used(blocks)}
  BY <1>2, <1>3
<1> QED BY <1>2, <1>4 DEF LiveBacked

-----------------------------------------------------------------------------
(* The block list stays a list of blocks, with no size field below zero,   *)
(* and callers hold addresses: kmalloc, kfree and krealloc keep the types. *)
THEOREM TypeCorrect == Spec => []TypeOK
<1>1. IInv => TypeOK
  BY WellFacts DEF IInv, Matches, TypeOK
<1> QED BY <1>1, HeapInv, PTL

(* For every heap size and every order of calls, the blocks tile the heap. *)
THEOREM HeapTiled == Spec => []Tiled
<1>1. IInv => Tiled
  BY WellFacts DEF IInv, Tiled
<1> QED BY <1>1, HeapInv, PTL

(* kfree and krealloc never leave two adjacent free blocks.                *)
THEOREM HeapCoalesced == Spec => []Coalesced
<1>1. IInv => Coalesced
  BY DEF IInv, Coalesced
<1> QED BY <1>1, HeapInv, PTL

(* The used blocks are exactly the callers' pointers, each with the bytes  *)
(* its caller last asked kmalloc or krealloc for.                          *)
THEOREM HeapBacked == Spec => []LiveBacked
<1> QED BY InvBacked, HeapInv, PTL
-----------------------------------------------------------------------------
(* The reservations as the Allocator specification sees them.              *)
LEMMA HeldFacts ==
  ASSUME Well(blocks)
  PROVE  /\ DOMAIN Held = {Ptr(blocks[i]) : i \in Used(blocks)}
         /\ \A i \in Used(blocks) : /\ Ptr(blocks[i]) \in DOMAIN Held
                                    /\ Held[Ptr(blocks[i])] = blocks[i].size
<1>1. DOMAIN Held = {Ptr(blocks[i]) : i \in Used(blocks)}
  BY DEF Held
<1>2. ASSUME NEW i \in Used(blocks)
      PROVE  /\ Ptr(blocks[i]) \in DOMAIN Held
             /\ Held[Ptr(blocks[i])] = blocks[i].size
  <2>1. i \in 1 .. Len(blocks)
    BY WellFacts DEF Used
  <2>2. IndexOf(blocks, Ptr(blocks[i])) = i
    BY <2>1, IndexOfPtr
  <2>3. Ptr(blocks[i]) \in {Ptr(blocks[j]) : j \in Used(blocks)}
    OBVIOUS
  <2> QED BY <1>1, <2>2, <2>3 DEF Held
<1> QED BY <1>1, <1>2

(* A used block and a vacant stretch of m bytes at p share no byte.        *)
LEMMA VacantApart ==
  ASSUME Well(blocks), NEW p \in Nat, NEW m \in Nat, Promise!Vacant(Held, p, m),
         NEW j \in 1 .. Len(blocks), ~blocks[j].free
  PROVE  p + m <= blocks[j].addr \/ End(blocks[j]) <= p - BlockSize
<1>1. j \in Used(blocks) /\ blocks[j] \in Block
  BY WellFacts DEF Used
<1> DEFINE q == Ptr(blocks[j])  a == blocks[j].addr  z == blocks[j].size  e == End(blocks[j])
<1>2. q \in DOMAIN Held /\ Held[q] = z
  BY <1>1, HeldFacts
<1>3. Promise!Apart(p, m, q, z)
  BY <1>2 DEF Promise!Vacant
<1>4. a \in Nat /\ z \in Nat /\ q = a + BlockSize /\ e = a + BlockSize + z
  BY <1>1, BlockFields DEF Ptr, End
<1> HIDE DEF q, a, z, e
<1>5. p + m <= q - BlockSize \/ q + z <= p - BlockSize
  BY <1>3 DEF Promise!Apart
<1>6. p + m <= a \/ e <= p - BlockSize
  BY <1>4, <1>5, HeapAssumption
<1> QED BY <1>6 DEF a, e

(* A stretch of the heap that avoids every used block lies in one free     *)
(* block, since free blocks have no free neighbours.                       *)
LEMMA VacantFits ==
  ASSUME IInv, NEW need \in Nat, NEW p \in BlockSize .. HeapSize - need,
         Promise!Vacant(Held, p, need)
  PROVE  ~NoneFits(blocks, need)
<1>1. /\ Well(blocks) /\ NoTwoFree(blocks)
      /\ Len(blocks) \in Nat /\ Len(blocks) > 0 /\ DOMAIN blocks = 1 .. Len(blocks)
      /\ \A j \in 1 .. Len(blocks) : blocks[j] \in Block
      /\ Tiles(blocks)
  BY WellFacts DEF IInv
<1> DEFINE x == p - BlockSize
<1>2. p \in Nat /\ x \in 0 .. HeapSize - 1 /\ p = x + BlockSize /\ p + need <= HeapSize
  BY HeapAssumption
<1> HIDE DEF x
<1>3. PICK i \in 1 .. Len(blocks) : blocks[i].addr <= x /\ x < End(blocks[i])
  <2>1. PICK i \in 1 .. Len(blocks) : Addrs(blocks)[i] <= x /\ x < Ends(blocks)[i]
    BY <1>1, <1>2 DEF Well, Layout, Covering
  <2> QED BY <2>1 DEF Addrs, Ends
<1> DEFINE a == blocks[i].addr  e == End(blocks[i])  z == blocks[i].size
<1>4. a \in Nat /\ e \in Nat /\ z \in Nat /\ e = a + BlockSize + z /\ a <= x /\ x < e
  BY <1>1, <1>3, BlockFields DEF End
<1>5. blocks[i].free
  <2> SUFFICES ASSUME ~blocks[i].free PROVE FALSE
    OBVIOUS
  <2>1. p + need <= a \/ e <= p - BlockSize
    BY <1>1, <1>2, VacantApart
  <2> HIDE DEF a, e, z
  <2> QED BY <1>2, <1>4, <2>1, HeapAssumption
<1>6. p + need <= e
  <2> SUFFICES ASSUME e < p + need PROVE FALSE
    <3> HIDE DEF e
    <3> QED BY <1>2, <1>4
  <2>1. i # Len(blocks)
    <3>1. End(blocks[Len(blocks)]) = HeapSize
      BY <1>1 DEF Tiles
    <3>2. e # HeapSize
      <4> HIDE DEF e
      <4> QED BY <1>2, <1>4, HeapAssumption
    <3> QED BY <3>1, <3>2
  <2>2. i \in 1 .. Len(blocks) - 1 /\ i + 1 \in 1 .. Len(blocks)
    <3>1. Len(blocks) \in Nat
      BY <1>1
    <3> QED BY <2>1, <3>1
  <2>3. ~blocks[i + 1].free /\ blocks[i + 1].addr = e
    BY <1>1, <1>5, <2>2 DEF NoTwoFree, Tiles
  <2> DEFINE f == End(blocks[i + 1])
  <2>4. p + need <= e \/ f <= p - BlockSize
    BY <1>1, <1>2, <2>2, <2>3, VacantApart
  <2>5. f \in Nat /\ e + BlockSize <= f
    BY <1>1, <2>2, <2>3, BlockFields
  <2> HIDE DEF a, e, z, f
  <2> QED BY <1>2, <1>4, <2>4, <2>5, HeapAssumption
<1>7. z >= need
  <2> HIDE DEF a, e, z
  <2> QED BY <1>2, <1>4, <1>6, HeapAssumption
<1>8. Fits(blocks[i], need)
  BY <1>5, <1>7 DEF Fits
<1> QED BY <1>1, <1>8 DEF NoneFits

(* kmalloc answers NULL only when no gap of the heap could hold the        *)
(* request with its header: first fit over the coalesced list misses none. *)
THEOREM OutOfMemoryMeansFull == Spec => []NullMeansFull
<1>1. IInv => NullMeansFull
  <2> SUFFICES ASSUME IInv, NEW n \in Requests, NoneFits(blocks, ALIGN(n)),
                      NEW p \in BlockSize .. HeapSize - ALIGN(n),
                      Promise!Vacant(Held, p, ALIGN(n))
               PROVE  FALSE
    BY DEF NullMeansFull
  <2>1. ALIGN(n) \in Nat
    BY RequestAligned
  <2> QED BY <2>1, VacantFits
<1> QED BY <1>1, HeapInv, PTL
-----------------------------------------------------------------------------
(* The refinement: every call of kmalloc, kfree and krealloc is a step of  *)
(* the abstract allocator on the reservations that the block list encodes, *)
(* or changes none of them.                                                *)


(* The reservations that a block list encodes; Held is HeldOf(blocks).     *)
HeldOf(bs) == [p \in {Ptr(bs[i]) : i \in Used(bs)} |-> bs[IndexOf(bs, p)].size]

(* HeldOf is the function from the used blocks' pointers to their sizes.   *)
LEMMA HeldOfFacts ==
  ASSUME NEW bs, Well(bs)
  PROVE  /\ HeldOf(bs) = [p \in DOMAIN HeldOf(bs) |-> HeldOf(bs)[p]]
         /\ \A p \in DOMAIN HeldOf(bs) : \E a, s : Reserved(bs, a, s) /\ p = a + BlockSize
         /\ \A a, s : Reserved(bs, a, s) =>
              a + BlockSize \in DOMAIN HeldOf(bs) /\ HeldOf(bs)[a + BlockSize] = s
<1>1. /\ DOMAIN HeldOf(bs) = {Ptr(bs[i]) : i \in Used(bs)}
      /\ HeldOf(bs) = [p \in DOMAIN HeldOf(bs) |-> HeldOf(bs)[p]]
      /\ \A p \in DOMAIN HeldOf(bs) : HeldOf(bs)[p] = bs[IndexOf(bs, p)].size
  BY DEF HeldOf
<1>2. DOMAIN bs = 1 .. Len(bs)
  BY WellFacts
<1>3. ASSUME NEW p \in DOMAIN HeldOf(bs)
      PROVE  \E a, s : Reserved(bs, a, s) /\ p = a + BlockSize
  <2>1. PICK i \in Used(bs) : p = Ptr(bs[i])
    BY <1>1
  <2>2. Reserved(bs, bs[i].addr, bs[i].size)
    BY <1>2 DEF Used, Reserved
  <2> QED BY <2>1, <2>2 DEF Ptr
<1>4. ASSUME NEW a, NEW s, Reserved(bs, a, s)
      PROVE  a + BlockSize \in DOMAIN HeldOf(bs) /\ HeldOf(bs)[a + BlockSize] = s
  <2>1. PICK j \in 1 .. Len(bs) : ~bs[j].free /\ bs[j].addr = a /\ bs[j].size = s
    BY <1>4 DEF Reserved
  <2>2. j \in Used(bs) /\ Ptr(bs[j]) = a + BlockSize
    BY <1>2, <2>1 DEF Used, Ptr
  <2>3. IndexOf(bs, Ptr(bs[j])) = j
    BY IndexOfPtr
  <2>4. a + BlockSize \in DOMAIN HeldOf(bs)
    BY <1>1, <2>2
  <2> QED BY <1>1, <2>1, <2>2, <2>3, <2>4
<1> QED BY <1>1, <1>3, <1>4

(* A list that reserves m bytes at b besides what bs reserves elsewhere.   *)
LEMMA HeldWith ==
  ASSUME NEW bs, Well(bs), NEW t, Well(t), NEW b \in Nat, NEW m,
         \A a, s : Reserved(t, a, s) <=> \/ Reserved(bs, a, s) /\ a # b
                                         \/ a = b /\ s = m
  PROVE  HeldOf(t) = Promise!With(HeldOf(bs), b + BlockSize, m)
<1> DEFINE h == HeldOf(bs)
           g == HeldOf(t)
           p == b + BlockSize
           w == Promise!With(h, p, m)
<1>1. /\ \A q \in DOMAIN h : \E a, s : Reserved(bs, a, s) /\ q = a + BlockSize
      /\ \A a, s : Reserved(bs, a, s) => a + BlockSize \in DOMAIN h /\ h[a + BlockSize] = s
      /\ g = [q \in DOMAIN g |-> g[q]]
      /\ \A q \in DOMAIN g : \E a, s : Reserved(t, a, s) /\ q = a + BlockSize
      /\ \A a, s : Reserved(t, a, s) => a + BlockSize \in DOMAIN g /\ g[a + BlockSize] = s
  BY HeldOfFacts
<1>2. /\ w = [q \in DOMAIN w |-> w[q]]
      /\ DOMAIN w = DOMAIN h \cup {p}
      /\ \A q \in DOMAIN w : w[q] = IF q = p THEN m ELSE h[q]
  BY DEF Promise!With
<1> HIDE DEF h, g, w
<1>3. p \in DOMAIN g /\ g[p] = m
  BY <1>1
<1>4. ASSUME NEW q \in DOMAIN g
      PROVE  q \in DOMAIN w /\ w[q] = g[q]
  <2>1. PICK a, s : Reserved(t, a, s) /\ q = a + BlockSize
    BY <1>1
  <2>2. g[q] = s /\ a \in Nat
    BY <1>1, <2>1, ReservedType
  <2>3. CASE a = b
    BY <1>2, <1>3, <2>1, <2>3
  <2>4. CASE a # b
    <3>1. Reserved(bs, a, s) /\ q # p
      BY <2>1, <2>2, <2>4, HeapAssumption
    <3>2. q \in DOMAIN h /\ h[q] = s
      BY <1>1, <2>1, <3>1
    <3> QED BY <1>2, <2>2, <3>1, <3>2
  <2> QED BY <2>3, <2>4
<1>5. ASSUME NEW q \in DOMAIN w
      PROVE  q \in DOMAIN g
  <2>1. CASE q = p
    BY <1>3, <2>1
  <2>2. CASE q # p
    <3>1. PICK a, s : Reserved(bs, a, s) /\ q = a + BlockSize
      BY <1>1, <1>2, <2>2
    <3>2. a # b
      BY <2>2, <3>1
    <3>3. Reserved(t, a, s)
      BY <3>1, <3>2
    <3> QED BY <1>1, <3>1, <3>3
  <2> QED BY <2>1, <2>2
<1>6. DOMAIN g = DOMAIN w
  BY <1>4, <1>5
<1>7. g = w
  BY <1>1, <1>2, <1>4, <1>6
<1> QED BY <1>7 DEF g, w, h

(* A list that reserves what bs reserves except at b.                      *)
LEMMA HeldWithout ==
  ASSUME NEW bs, Well(bs), NEW t, Well(t), NEW b \in Nat,
         \A a, s : Reserved(t, a, s) <=> Reserved(bs, a, s) /\ a # b
  PROVE  HeldOf(t) = Promise!Without(HeldOf(bs), b + BlockSize)
<1> DEFINE h == HeldOf(bs)
           g == HeldOf(t)
           p == b + BlockSize
           w == Promise!Without(h, p)
<1>1. /\ \A q \in DOMAIN h : \E a, s : Reserved(bs, a, s) /\ q = a + BlockSize
      /\ \A a, s : Reserved(bs, a, s) => a + BlockSize \in DOMAIN h /\ h[a + BlockSize] = s
      /\ g = [q \in DOMAIN g |-> g[q]]
      /\ \A q \in DOMAIN g : \E a, s : Reserved(t, a, s) /\ q = a + BlockSize
      /\ \A a, s : Reserved(t, a, s) => a + BlockSize \in DOMAIN g /\ g[a + BlockSize] = s
  BY HeldOfFacts
<1>2. /\ w = [q \in DOMAIN w |-> w[q]]
      /\ DOMAIN w = DOMAIN h \ {p}
      /\ \A q \in DOMAIN w : w[q] = h[q]
  BY DEF Promise!Without
<1> HIDE DEF h, g, w
<1>4. ASSUME NEW q \in DOMAIN g
      PROVE  q \in DOMAIN w /\ w[q] = g[q]
  <2>1. PICK a, s : Reserved(t, a, s) /\ q = a + BlockSize
    BY <1>1
  <2>2. g[q] = s /\ a \in Nat /\ Reserved(bs, a, s) /\ a # b
    BY <1>1, <2>1, ReservedType
  <2>3. q # p /\ q \in DOMAIN h /\ h[q] = s
    BY <1>1, <2>1, <2>2, HeapAssumption
  <2> QED BY <1>2, <2>2, <2>3
<1>5. ASSUME NEW q \in DOMAIN w
      PROVE  q \in DOMAIN g
  <2>1. PICK a, s : Reserved(bs, a, s) /\ q = a + BlockSize
    BY <1>1, <1>2
  <2>2. Reserved(t, a, s)
    BY <1>2, <2>1
  <2> QED BY <1>1, <2>1, <2>2
<1>6. DOMAIN g = DOMAIN w
  BY <1>4, <1>5
<1>7. g = w
  BY <1>1, <1>2, <1>4, <1>6
<1> QED BY <1>7 DEF g, w, h

(* The bytes of a used block, header included, avoid all the other used    *)
(* blocks of a sound list.                                                 *)
LEMMA ReservedVacant ==
  ASSUME NEW t, Well(t), NEW b, NEW m, Reserved(t, b, m), NEW h,
         \A q \in DOMAIN h : \E a, s : Reserved(t, a, s) /\ a # b /\ q = a + BlockSize /\ h[q] = s
  PROVE  Promise!Vacant(h, b + BlockSize, m)
<1>1. PICK j \in 1 .. Len(t) : ~t[j].free /\ t[j].addr = b /\ t[j].size = m
  BY DEF Reserved
<1>2. /\ Len(t) \in Nat /\ Len(t) > 0 /\ Tiles(t)
      /\ \A i \in 1 .. Len(t) : t[i] \in Block
      /\ \A i, k \in 1 .. Len(t) : i < k => End(t[i]) <= t[k].addr
  BY WellFacts
<1>3. b \in Nat /\ m \in Nat /\ End(t[j]) = b + BlockSize + m
  BY <1>1, <1>2, BlockFields DEF End
<1>4. End(t[j]) <= HeapSize
  <2>1. CASE j = Len(t)
    BY <1>2, <1>3, <2>1, HeapAssumption DEF Tiles
  <2>2. CASE j # Len(t)
    <3>1. j < Len(t) /\ Len(t) \in 1 .. Len(t)
      BY <1>2, <2>2
    <3>2. End(t[j]) <= t[Len(t)].addr
      BY <1>2, <3>1
    <3>3. t[Len(t)].addr \in Nat /\ t[Len(t)].addr + BlockSize <= End(t[Len(t)])
      BY <1>2, <3>1, BlockFields
    <3>4. End(t[Len(t)]) = HeapSize
      BY <1>2 DEF Tiles
    <3> QED BY <1>3, <3>2, <3>3, <3>4, HeapAssumption
  <2> QED BY <2>1, <2>2
<1>5. ASSUME NEW q \in DOMAIN h
      PROVE  Promise!Apart(b + BlockSize, m, q, h[q])
  <2>1. PICK a, s : Reserved(t, a, s) /\ a # b /\ q = a + BlockSize /\ h[q] = s
    OBVIOUS
  <2>2. PICK k \in 1 .. Len(t) : t[k].addr = a /\ t[k].size = s
    BY <2>1 DEF Reserved
  <2>3. a \in Nat /\ s \in Nat /\ End(t[k]) = a + BlockSize + s
    BY <1>2, <2>2, BlockFields DEF End
  <2>4. j < k \/ k < j
    BY <1>1, <2>1, <2>2
  <2>5. b + BlockSize + m <= a \/ a + BlockSize + s <= b
    BY <1>1, <1>2, <1>3, <2>2, <2>3, <2>4
  <2>6. \/ (b + BlockSize) + m <= (a + BlockSize) - BlockSize
        \/ (a + BlockSize) + s <= (b + BlockSize) - BlockSize
    BY <1>3, <2>3, <2>5, HeapAssumption
  <2> QED BY <2>1, <2>6 DEF Promise!Apart
<1>6. m >= 0 /\ b + BlockSize >= BlockSize /\ (b + BlockSize) + m <= HeapSize
  BY <1>3, <1>4, HeapAssumption
<1> QED BY <1>5, <1>6 DEF Promise!Vacant

-----------------------------------------------------------------------------
(* Held is what the block list encodes, before and after a step.           *)
LEMMA HeldIs == Held = HeldOf(blocks) /\ Held' = HeldOf(blocks')
  BY DEF Held, HeldOf, Used, Ptr, IndexOf

(* A used block of a sound list is its only reservation at that address.   *)
LEMMA OneReservation ==
  ASSUME NEW bs, Well(bs), NEW k \in 1 .. Len(bs)
  PROVE  \A s : Reserved(bs, bs[k].addr, s) <=> ~bs[k].free /\ s = bs[k].size
<1>1. \A i, j \in 1 .. Len(bs) : bs[i].addr = bs[j].addr => i = j
  BY WellFacts
<1> QED BY <1>1 DEF Reserved

(* kmalloc on the reservations: block i becomes one of m >= need bytes, in *)
(* a place that was vacant.                                                *)
LEMMA TakeHeld ==
  ASSUME NEW bs, Well(bs), NoTwoFree(bs), NEW need \in Nat, NEW i \in DOMAIN bs,
         FirstFit(bs, need, i)
  PROVE  LET t == Take(bs, i, need)
             q == Ptr(bs[i])
         IN /\ Well(t) /\ NoTwoFree(t)
            /\ q \in Nat /\ q \notin DOMAIN HeldOf(bs)
            /\ \E m \in Nat : /\ m >= need
                              /\ HeldOf(t) = Promise!With(HeldOf(bs), q, m)
                              /\ Promise!Vacant(HeldOf(bs), q, m)
<1> DEFINE t == Take(bs, i, need)
           b == bs[i].addr
           q == Ptr(bs[i])
           h == HeldOf(bs)
<1>1. i \in 1 .. Len(bs) /\ bs[i] \in Block
  BY WellFacts
<1>2. bs[i].free /\ bs[i].size >= need
  BY DEF FirstFit, Fits
<1>3. /\ Well(t) /\ NoTwoFree(t)
      /\ \E m \in Nat :
           /\ m >= need
           /\ \A a, s : Reserved(t, a, s) <=> \/ Reserved(bs, a, s)
                                              \/ a = bs[i].addr /\ s = m
  BY <1>1, <1>2, TakeFacts
<1> HIDE DEF t
<1>4. PICK m \in Nat :
        /\ m >= need
        /\ \A a, s : Reserved(t, a, s) <=> \/ Reserved(bs, a, s)
                                           \/ a = bs[i].addr /\ s = m
  BY <1>3
<1>5. \A s : ~Reserved(bs, b, s)
  BY <1>1, <1>2, OneReservation
<1>6. b \in Nat /\ q = b + BlockSize
  BY <1>1, BlockFields DEF Ptr
<1>7. \A a, s : Reserved(t, a, s) <=> \/ Reserved(bs, a, s) /\ a # b
                                      \/ a = b /\ s = m
  BY <1>4, <1>5
<1> HIDE DEF b, q
<1>8. HeldOf(t) = Promise!With(h, q, m)
  BY <1>3, <1>6, <1>7, HeldWith
<1>9. /\ \A p \in DOMAIN h : \E a, s : Reserved(bs, a, s) /\ p = a + BlockSize
      /\ \A a, s : Reserved(bs, a, s) => h[a + BlockSize] = s
  BY HeldOfFacts
<1> HIDE DEF h
<1>10. q \notin DOMAIN h
  <2> SUFFICES ASSUME q \in DOMAIN h PROVE FALSE
    OBVIOUS
  <2>1. PICK a, s : Reserved(bs, a, s) /\ q = a + BlockSize
    BY <1>9
  <2>2. a \in Nat
    BY <2>1, ReservedType
  <2>3. a = b
    BY <1>6, <2>1, <2>2, HeapAssumption
  <2> QED BY <1>5, <2>1, <2>3
<1>11. Promise!Vacant(h, q, m)
  <2>1. Reserved(t, b, m)
    BY <1>7
  <2>2. ASSUME NEW p \in DOMAIN h
        PROVE  \E a, s : Reserved(t, a, s) /\ a # b /\ p = a + BlockSize /\ h[p] = s
    <3>1. PICK a, s : Reserved(bs, a, s) /\ p = a + BlockSize
      BY <1>9
    <3>2. a # b /\ h[p] = s
      BY <1>5, <1>9, <3>1
    <3> QED BY <1>7, <3>1, <3>2
  <2> QED BY <1>3, <1>6, <2>1, <2>2, ReservedVacant
<1>12. q \in Nat
  BY <1>6, HeapAssumption
<1> QED BY <1>3, <1>4, <1>8, <1>10, <1>11, <1>12 DEF t, q, h

(* kfree on the reservations: exactly the freed one is given up.           *)
LEMMA PutBackHeld ==
  ASSUME NEW bs, Well(bs), NoTwoFree(bs), NEW p \in DOMAIN HeldOf(bs)
  PROVE  HeldOf(PutBack(bs, p)) = Promise!Without(HeldOf(bs), p)
<1>1. PICK a, s : Reserved(bs, a, s) /\ p = a + BlockSize
  BY HeldOfFacts
<1>2. PICK k \in 1 .. Len(bs) : ~bs[k].free /\ bs[k].addr = a
  BY <1>1 DEF Reserved
<1>3. p = Ptr(bs[k]) /\ a \in Nat
  BY <1>1, <1>2, ReservedType DEF Ptr
<1> DEFINE t == PutBack(bs, Ptr(bs[k]))
<1>4. /\ Well(t)
      /\ \A c, z : Reserved(t, c, z) <=> Reserved(bs, c, z) /\ c # bs[k].addr
  BY <1>2, PutBackFacts
<1> HIDE DEF t
<1>5. \A c, z : Reserved(t, c, z) <=> Reserved(bs, c, z) /\ c # a
  BY <1>2, <1>4
<1>6. HeldOf(t) = Promise!Without(HeldOf(bs), a + BlockSize)
  BY <1>3, <1>4, <1>5, HeldWithout
<1> QED BY <1>1, <1>3, <1>6 DEF t

(* krealloc in place on the reservations: block k gets m >= need bytes,    *)
(* over what was its own or vacant.                                        *)
LEMMA GrowHeld ==
  ASSUME NEW bs, Well(bs), NoTwoFree(bs), NEW k \in 1 .. Len(bs), ~bs[k].free,
         NEW need \in Nat, CanGrow(bs, k, need)
  PROVE  LET t == GrowInPlace(bs, k, need)
             p == Ptr(bs[k])
         IN \E m \in Nat : /\ m >= need
                           /\ HeldOf(t) = Promise!With(HeldOf(bs), p, m)
                           /\ Promise!Vacant(Promise!Without(HeldOf(bs), p), p, m)
<1> DEFINE t == GrowInPlace(bs, k, need)
           b == bs[k].addr
           p == Ptr(bs[k])
           h == HeldOf(bs)
           w == Promise!Without(h, p)
<1>1. bs[k] \in Block
  BY WellFacts
<1>2. /\ Well(t)
      /\ \E m \in Nat :
           /\ m >= need
           /\ \A a, s : Reserved(t, a, s) <=> \/ Reserved(bs, a, s) /\ a # bs[k].addr
                                              \/ a = bs[k].addr /\ s = m
  BY GrowFacts
<1> HIDE DEF t
<1>3. PICK m \in Nat :
        /\ m >= need
        /\ \A a, s : Reserved(t, a, s) <=> \/ Reserved(bs, a, s) /\ a # bs[k].addr
                                           \/ a = bs[k].addr /\ s = m
  BY <1>2
<1>4. b \in Nat /\ p = b + BlockSize
  BY <1>1, BlockFields DEF Ptr
<1>5. \A a, s : Reserved(t, a, s) <=> \/ Reserved(bs, a, s) /\ a # b
                                      \/ a = b /\ s = m
  BY <1>3
<1> HIDE DEF b, p
<1>6. HeldOf(t) = Promise!With(h, p, m)
  BY <1>2, <1>4, <1>5, HeldWith
<1>7. /\ \A q \in DOMAIN h : \E a, s : Reserved(bs, a, s) /\ q = a + BlockSize
      /\ \A a, s : Reserved(bs, a, s) => h[a + BlockSize] = s
  BY HeldOfFacts
<1>8. DOMAIN w = DOMAIN h \ {p} /\ \A q \in DOMAIN w : w[q] = h[q]
  BY DEF Promise!Without
<1> HIDE DEF h, w
<1>9. Promise!Vacant(w, p, m)
  <2>1. Reserved(t, b, m)
    BY <1>5
  <2>2. ASSUME NEW q \in DOMAIN w
        PROVE  \E a, s : Reserved(t, a, s) /\ a # b /\ q = a + BlockSize /\ w[q] = s
    <3>1. PICK a, s : Reserved(bs, a, s) /\ q = a + BlockSize
      BY <1>7, <1>8
    <3>2. a # b /\ w[q] = s
      BY <1>4, <1>7, <1>8, <3>1
    <3> QED BY <1>5, <3>1, <3>2
  <2> QED BY <1>2, <1>4, <2>1, <2>2, ReservedVacant
<1> QED BY <1>3, <1>6, <1>9 DEF t, p, h, w

-----------------------------------------------------------------------------
(* kheap_init reserves nothing.                                            *)
LEMMA InitPromise == Init => Promise!Init
<1> SUFFICES ASSUME Init PROVE Promise!Init
  OBVIOUS
<1>1. Used(blocks) = {}
  BY DEF Init, Used
<1>2. Held = [p \in {} |-> 0]
  BY <1>1 DEF Held
<1> QED BY <1>2 DEF Promise!Init

(* A call that leaves the list alone leaves the reservations alone.        *)
LEMMA StutterPromise == ASSUME blocks' = blocks PROVE Held' = Held
  BY HeldIs

(* kmalloc reserves vacant bytes, or changes nothing.                      *)
LEMMA KmallocPromise ==
  ASSUME IInv, NEW n \in Requests, kmalloc(n)
  PROVE  Promise!Reserve \/ Held' = Held
<1>1. ALIGN(n) \in Nat
  BY RequestAligned
<1>2. CASE \E i \in DOMAIN blocks : /\ FirstFit(blocks, ALIGN(n), i)
                                    /\ blocks' = Take(blocks, i, ALIGN(n))
  <2>1. PICK i \in DOMAIN blocks : /\ FirstFit(blocks, ALIGN(n), i)
                                   /\ blocks' = Take(blocks, i, ALIGN(n))
    BY <1>2
  <2> DEFINE q == Ptr(blocks[i])
             h == HeldOf(blocks)
             t == Take(blocks, i, ALIGN(n))
  <2>2. /\ q \notin DOMAIN h
        /\ \E m \in Nat : HeldOf(t) = Promise!With(h, q, m) /\ Promise!Vacant(h, q, m)
    BY <1>1, <2>1, TakeHeld DEF IInv
  <2>3. Held = h /\ Held' = HeldOf(t)
    BY <2>1, HeldIs
  <2> HIDE DEF q, h, t
  <2>4. PICK m \in Nat : HeldOf(t) = Promise!With(h, q, m) /\ Promise!Vacant(h, q, m)
    BY <2>2
  <2>w. /\ DOMAIN Promise!With(h, q, m) = DOMAIN h \cup {q}
        /\ Promise!With(h, q, m)[q] = m
    BY DEF Promise!With
  <2>5. q \in DOMAIN Held' \ DOMAIN Held /\ Held'[q] = m
    BY <2>2, <2>3, <2>4, <2>w
  <2>6. Promise!Vacant(Held, q, Held'[q]) /\ Held' = Promise!With(Held, q, Held'[q])
    BY <2>3, <2>4, <2>5
  <2> QED BY <2>5, <2>6 DEF Promise!Reserve
<1>3. CASE UNCHANGED vars
  BY <1>3, StutterPromise DEF vars
<1> QED BY <1>2, <1>3 DEF kmalloc

(* The pointers callers hold are those of the reservations.                *)
LEMMA LiveHeld == ASSUME IInv, NEW p \in DOMAIN live PROVE p \in DOMAIN HeldOf(blocks)
<1>1. PICK a, s : Reserved(blocks, a, s) /\ p = a + BlockSize
  BY DEF IInv, Matches
<1> QED BY <1>1, HeldOfFacts DEF IInv

(* kfree gives up one reservation; kfree of NULL changes nothing.          *)
LEMMA KfreePromise ==
  ASSUME IInv, NEW p \in DOMAIN live \cup {NULL}, kfree(p)
  PROVE  Promise!Release \/ Held' = Held
<1>1. CASE UNCHANGED vars
  BY <1>1, StutterPromise DEF vars
<1>2. CASE p # NULL /\ blocks' = PutBack(blocks, p)
  <2>1. p \in DOMAIN HeldOf(blocks)
    BY <1>2, LiveHeld
  <2>2. HeldOf(PutBack(blocks, p)) = Promise!Without(HeldOf(blocks), p)
    BY <2>1, PutBackHeld DEF IInv
  <2>3. p \in DOMAIN Held /\ Held' = Promise!Without(Held, p)
    BY <1>2, <2>1, <2>2, HeldIs
  <2> QED BY <2>3 DEF Promise!Release
<1> QED BY <1>1, <1>2 DEF kfree

(* The tail of krealloc moves a reservation to vacant bytes that can take  *)
(* all of it, or changes nothing.                                          *)
LEMMA RelocatePromise ==
  ASSUME IInv, NEW p \in DOMAIN live, NEW n \in Requests, Relocate(p, n),
         NEW k \in 1 .. Len(blocks), ~blocks[k].free, p = Ptr(blocks[k]),
         blocks[k].size < ALIGN(n)
  PROVE  Promise!Move \/ Held' = Held
<1> DEFINE need == ALIGN(ALIGN(n))
<1>1. ALIGN(n) \in Nat /\ need \in Nat /\ need >= ALIGN(n)
  BY RequestAligned
<1>u. \/ UNCHANGED vars
      \/ \E i \in DOMAIN blocks : /\ FirstFit(blocks, need, i)
                                  /\ blocks' = PutBack(Take(blocks, i, need), p)
  BY DEF Relocate
<1>z. blocks[k].size \in Nat /\ need >= blocks[k].size
  <2>1. blocks[k].size \in Nat
    BY WellFacts, BlockFields DEF IInv
  <2> HIDE DEF need
  <2> QED BY <1>1, <2>1
<1> HIDE DEF need
<1>2. CASE \E i \in DOMAIN blocks : /\ FirstFit(blocks, need, i)
                                    /\ blocks' = PutBack(Take(blocks, i, need), p)
  <2>1. PICK i \in DOMAIN blocks : /\ FirstFit(blocks, need, i)
                                   /\ blocks' = PutBack(Take(blocks, i, need), p)
    BY <1>2
  <2> DEFINE q == Ptr(blocks[i])
             h == HeldOf(blocks)
             t == Take(blocks, i, need)
  <2>2. /\ Well(t) /\ NoTwoFree(t) /\ q \notin DOMAIN h
        /\ \E m \in Nat : /\ m >= need
                          /\ HeldOf(t) = Promise!With(h, q, m)
                          /\ Promise!Vacant(h, q, m)
    BY <1>1, <2>1, TakeHeld DEF IInv
  <2>3. p \in DOMAIN h /\ h[p] = blocks[k].size
    <3>1. Reserved(blocks, blocks[k].addr, blocks[k].size)
      BY DEF Reserved
    <3> QED BY <3>1, HeldOfFacts DEF IInv, Ptr
  <2>4. Held = h /\ Held' = HeldOf(PutBack(t, p))
    BY <2>1, HeldIs
  <2> HIDE DEF q, h, t
  <2>5. PICK m \in Nat : /\ m >= need
                         /\ HeldOf(t) = Promise!With(h, q, m)
                         /\ Promise!Vacant(h, q, m)
    BY <2>2
  <2> DEFINE g == Promise!With(h, q, m)
             w == Promise!Without(g, p)
  <2>w. DOMAIN g = DOMAIN h \cup {q} /\ g[q] = m
    BY DEF Promise!With
  <2>v. DOMAIN w = DOMAIN g \ {p} /\ \A x \in DOMAIN g \ {p} : w[x] = g[x]
    BY DEF Promise!Without
  <2>6. p \in DOMAIN HeldOf(t) /\ p # q
    BY <2>2, <2>3, <2>5, <2>w
  <2>7. Held' = Promise!Without(Promise!With(h, q, m), p)
    BY <2>2, <2>4, <2>5, <2>6, PutBackHeld
  <2>8. q \in DOMAIN Held' /\ Held'[q] = m
    <3>1. Held' = w
      BY <2>7
    <3> HIDE DEF g, w
    <3> QED BY <2>6, <2>w, <2>v, <3>1
  <2>9. m >= h[p]
    BY <1>1, <1>z, <2>3, <2>5
  <2>10. /\ p \in DOMAIN Held /\ q \in DOMAIN Held' \ DOMAIN Held
         /\ Held'[q] >= Held[p]
         /\ Promise!Vacant(Held, q, Held'[q])
         /\ Held' = Promise!Without(Promise!With(Held, q, Held'[q]), p)
    BY <2>2, <2>3, <2>4, <2>5, <2>7, <2>8, <2>9
  <2> QED BY <2>10 DEF Promise!Move
<1>3. CASE UNCHANGED vars
  BY <1>3, StutterPromise DEF vars
<1> QED BY <1>u, <1>2, <1>3

(* krealloc: one of the calls above, or growth in place, or no change.     *)
LEMMA KreallocPromise ==
  ASSUME IInv, NEW p \in DOMAIN live \cup {NULL}, NEW n \in Requests, krealloc(p, n)
  PROVE  Promise!Next \/ Held' = Held
<1>1. CASE p = NULL /\ kmalloc(n)
  BY <1>1, KmallocPromise DEF Promise!Next
<1>2. CASE p # NULL /\ n = 0 /\ kfree(p)
  BY <1>2, KfreePromise DEF Promise!Next
<1>3. CASE p # NULL /\ n # 0
  <2>1. p \in DOMAIN live
    BY <1>3
  <2>2. PICK k \in 1 .. Len(blocks) : ~blocks[k].free /\ p = Ptr(blocks[k])
    BY <2>1, HeldBlock DEF IInv
  <2>3. IndexOf(blocks, p) = k
    BY <2>2, IndexOfPtr DEF IInv
  <2> DEFINE need == ALIGN(n)
             z == blocks[k].size
             h == HeldOf(blocks)
  <2>4. need \in Nat
    BY RequestAligned
  <2>5. z \in Nat
    BY WellFacts, BlockFields DEF IInv
  <2>6. CASE blocks' = blocks
    BY <2>6, StutterPromise
  <2>7. CASE z < need /\ CanGrow(blocks, k, need) /\ blocks' = GrowInPlace(blocks, k, need)
    <3> HIDE DEF need
    <3> DEFINE t == GrowInPlace(blocks, k, need)
    <3>1. \E m \in Nat : /\ m >= need
                         /\ HeldOf(t) = Promise!With(HeldOf(blocks), Ptr(blocks[k]), m)
                         /\ Promise!Vacant(Promise!Without(HeldOf(blocks), Ptr(blocks[k])), Ptr(blocks[k]), m)
      BY <2>2, <2>4, <2>7, GrowHeld DEF IInv
    <3>2. p \in DOMAIN h /\ h[p] = z
      <4>1. Reserved(blocks, blocks[k].addr, blocks[k].size)
        BY <2>2 DEF Reserved
      <4> QED BY <2>2, <4>1, HeldOfFacts DEF IInv, Ptr
    <3>3. Held = h /\ Held' = HeldOf(t)
      BY <2>7, HeldIs
    <3> HIDE DEF t, h, z
    <3>4. PICK m \in Nat : /\ m >= need
                           /\ HeldOf(t) = Promise!With(h, p, m)
                           /\ Promise!Vacant(Promise!Without(h, p), p, m)
      BY <2>2, <3>1 DEF h
    <3>w. /\ DOMAIN Promise!With(h, p, m) = DOMAIN h \cup {p}
          /\ Promise!With(h, p, m)[p] = m
      BY DEF Promise!With
    <3>5. p \in DOMAIN Held' /\ Held'[p] = m
      BY <3>3, <3>4, <3>w
    <3>6. m > z
      BY <2>4, <2>5, <2>7, <3>4
    <3>7. /\ p \in DOMAIN Held \cap DOMAIN Held'
          /\ Held'[p] > Held[p]
          /\ Promise!Vacant(Promise!Without(Held, p), p, Held'[p])
          /\ Held' = Promise!With(Held, p, Held'[p])
      BY <3>2, <3>3, <3>4, <3>5, <3>6
    <3> QED BY <3>7 DEF Promise!Next, Promise!Grow
  <2>8. CASE z < need /\ Relocate(p, n)
    BY <2>1, <2>2, <2>8, RelocatePromise DEF Promise!Next
  <2>9. \/ blocks' = blocks
        \/ z < need /\ CanGrow(blocks, k, need) /\ blocks' = GrowInPlace(blocks, k, need)
        \/ z < need /\ Relocate(p, n)
    BY <1>3, <2>3 DEF krealloc
  <2> QED BY <2>6, <2>7, <2>8, <2>9
<1> QED BY <1>1, <1>2, <1>3 DEF krealloc

(* Every step of the heap is a step of the allocator or a stutter.         *)
LEMMA NextPromise == IInv /\ [Next]_vars => [Promise!Next]_Held
<1> SUFFICES ASSUME IInv, [Next]_vars PROVE Promise!Next \/ Held' = Held
  OBVIOUS
<1>1. ASSUME NEW n \in Requests, kmalloc(n) PROVE Promise!Next \/ Held' = Held
  BY <1>1, KmallocPromise DEF Promise!Next
<1>2. ASSUME NEW p \in DOMAIN live \cup {NULL}, kfree(p) PROVE Promise!Next \/ Held' = Held
  BY <1>2, KfreePromise DEF Promise!Next
<1>3. ASSUME NEW p \in DOMAIN live \cup {NULL}, NEW n \in Requests, krealloc(p, n)
      PROVE  Promise!Next \/ Held' = Held
  BY <1>3, KreallocPromise
<1>4. CASE UNCHANGED vars
  BY <1>4, StutterPromise DEF vars
<1> QED BY <1>1, <1>2, <1>3, <1>4 DEF Next

(* kmalloc, kfree and krealloc implement the Allocator specification, for  *)
(* every heap size: reservations never overlap nor leave the heap, growth  *)
(* takes vacant bytes only, and the copy of krealloc neither overlaps its  *)
(* source nor overruns its destination.                                    *)
THEOREM HeapKeepsPromise == Spec => KeepsPromise
<1> QED BY InitPromise, NextPromise, HeapInv, PTL DEF Spec, KeepsPromise, Promise!Spec

-----------------------------------------------------------------------------
(* The containers.                                                         *)

Slots == Elements \cup {Junk}

(* A vector that lives has a block of capacity slots, of which the first   *)
(* size hold its items; any other has nothing.                             *)
VectorTyped ==
  /\ data \in Nat /\ size \in Nat /\ capacity \in Nat /\ items \in Seq(Elements)
  /\ (alive <=> data # NoData) /\ ~overrun

VectorBlock ==
  IF data = NoData
  THEN size = 0 /\ DOMAIN held = {}
  ELSE held \in [{data} -> [1 .. capacity -> Slots]] /\ capacity > 0

VectorItems ==
  /\ size = Len(items) /\ size <= capacity
  /\ \A i \in 1 .. size : held[data][i] = items[i]

VectorIInv == VectorTyped /\ VectorBlock /\ VectorItems
-----------------------------------------------------------------------------
LEMMA NameIsFresh ==
  ASSUME VectorIInv
  PROVE  NewName \in Nat /\ NewName # NoData /\ NewName \notin DOMAIN held
<1> DEFINE S == (1 .. Cardinality(DOMAIN held) + 1) \ DOMAIN held
<1>1. CASE data = NoData
  <2>1. DOMAIN held = {} /\ Cardinality(DOMAIN held) = 0
    BY <1>1, FS_EmptySet DEF VectorIInv, VectorBlock
  <2>2. S = {1}
    BY <2>1
  <2>3. NewName = Min({1})
    BY <2>2 DEF NewName
  <2>4. Min({1}) = 1
    BY DEF Min
  <2> QED
    BY <2>1, <2>3, <2>4 DEF NoData
<1>2. CASE data # NoData
  <2>1. DOMAIN held = {data} /\ data \in Nat
    BY <1>2 DEF VectorIInv, VectorBlock, VectorTyped
  <2>2. Cardinality({data}) = 1
    BY FS_Singleton
  <2>3. S = {1, 2} \ {data}
    BY <2>1, <2>2
  <2>4. S \in SUBSET Nat /\ S # {}
    BY <2>1, <2>3
  <2>5. NewName \in S
    BY <2>4, MinNat DEF NewName
  <2> QED
    BY <2>1, <2>3, <2>5 DEF NoData
<1> QED
  BY <1>1, <1>2

LEMMA VectorInitIInv == VectorInit => VectorIInv
  BY DEF VectorInit, VectorIInv, VectorTyped, VectorBlock, VectorItems, NoData

LEMMA VectorInitKeeps ==
  ASSUME VectorIInv, NEW n \in Capacities, vector_init(n)
  PROVE  VectorIInv'
<1> DEFINE asked == IF n = 0 THEN 4 ELSE n
<1>1. asked \in Nat /\ asked > 0
  BY VectorAssumption
<1>2. data = NoData /\ DOMAIN held = {} /\ size' = 0 /\ items' = <<>> /\ ~overrun'
  BY DEF vector_init, VectorIInv, VectorTyped, VectorBlock
<1>3. CASE /\ data' = NewName /\ held' = Fresh(held, NewName, asked)
           /\ capacity' = asked /\ alive' = TRUE
  <2>1. NewName \in Nat /\ NewName # NoData
    BY NameIsFresh
  <2>2. held' \in [{data'} -> [1 .. asked -> Slots]]
    BY <1>2, <1>3 DEF Fresh, Slots
  <2> HIDE DEF asked
  <2> QED
    BY <1>1, <1>2, <1>3, <2>1, <2>2 DEF VectorIInv, VectorTyped, VectorBlock, VectorItems
<1>4. CASE data' = NoData /\ capacity' = 0 /\ UNCHANGED <<held, alive>>
  BY <1>2, <1>4 DEF VectorIInv, VectorTyped, VectorBlock, VectorItems, NoData
<1> QED
  BY <1>3, <1>4 DEF vector_init

LEMMA VectorFreeKeeps == ASSUME VectorIInv, vector_free PROVE VectorIInv'
<1>1. DOMAIN held = {data}
  BY DEF VectorIInv, VectorBlock, vector_free
<1>2. DOMAIN held' = {}
  BY <1>1 DEF vector_free, Free
<1> QED
  <2>1. /\ data' = NoData /\ size' = 0 /\ capacity' = 0 /\ items' = <<>> /\ ~alive'
        /\ ~overrun'
    BY DEF vector_free, VectorIInv, VectorTyped
  <2> QED
    BY <1>2, <2>1 DEF VectorIInv, VectorTyped, VectorBlock, VectorItems, NoData

(* What a push does to a block that has room.                              *)
LEMMA StoreFits ==
  ASSUME VectorTyped, NEW h, NEW b \in Nat \ {0}, NEW c \in Nat, NEW e \in Elements,
         h \in [{b} -> [1 .. c -> Slots]], size < c, size = Len(items),
         \A i \in 1 .. size : h[b][i] = items[i],
         Store(h, b, e), data' = b, capacity' = c, alive'
  PROVE  VectorIInv'
<1>1. size \in Nat /\ items \in Seq(Elements) /\ size + 1 \in 1 .. c
  BY DEF VectorTyped
<1>2. DOMAIN h[b] = 1 .. c
  OBVIOUS
<1>3. /\ held' = [h EXCEPT ![b][size + 1] = e] /\ ~overrun'
      /\ size' = size + 1 /\ items' = Append(items, e)
  BY <1>1, <1>2 DEF Store, VectorTyped
<1>4. held' \in [{b} -> [1 .. c -> Slots]]
  BY <1>1, <1>3 DEF Slots
<1>5. /\ held'[b][size + 1] = e
      /\ \A i \in 1 .. size : held'[b][i] = h[b][i]
  BY <1>1, <1>3
<1>6. /\ items' \in Seq(Elements) /\ Len(items') = size + 1
      /\ items'[size + 1] = e /\ \A i \in 1 .. size : items'[i] = items[i]
  BY <1>1, <1>3
<1>7. \A i \in 1 .. size + 1 : held'[b][i] = items'[i]
  BY <1>1, <1>5, <1>6
<1>8. VectorTyped'
  BY <1>1, <1>3, <1>6 DEF VectorTyped, NoData
<1>9. VectorBlock'
  BY <1>1, <1>4 DEF VectorBlock, NoData
<1>10. VectorItems'
  BY <1>1, <1>3, <1>6, <1>7 DEF VectorItems
<1> QED
  BY <1>8, <1>9, <1>10 DEF VectorIInv

LEMMA PushKeeps ==
  ASSUME VectorIInv, NEW e \in Elements, vector_push_back(e)
  PROVE  VectorIInv'
<1>1. /\ VectorTyped /\ data \in Nat \ {0} /\ size \in Nat /\ capacity \in Nat /\ capacity > 0
      /\ alive' /\ data # NoData
      /\ held \in [{data} -> [1 .. capacity -> Slots]]
      /\ size = Len(items) /\ size <= capacity /\ \A i \in 1 .. size : held[data][i] = items[i]
  BY DEF vector_push_back, VectorIInv, VectorTyped, VectorBlock, VectorItems, NoData
<1>2. CASE ~IsFull /\ Store(held, data, e) /\ UNCHANGED <<data, capacity>>
  <2>1. size < capacity /\ data' = data /\ capacity' = capacity
    BY <1>1, <1>2 DEF IsFull
  <2> QED
    BY <1>1, <1>2, <2>1, StoreFits
<1>3. CASE /\ IsFull /\ data' = NewName /\ capacity' = capacity * 2
           /\ Store(Resized(held, NewName, capacity * 2), NewName, e)
  <2> DEFINE b == NewName
             c == capacity * 2
             grown == Fresh(held, b, c)
             old == held[data]
             new == [i \in 1 .. c |-> IF i <= size THEN old[i] ELSE Junk]
             h == Resized(held, b, c)
  <2>1. b \in Nat \ {0} /\ b # data
    BY <1>1, NameIsFresh DEF NoData
  <2>2. size = capacity /\ size > 0 /\ c \in Nat /\ size < c
    BY <1>1, <1>3 DEF IsFull
  <2>3. Min({size, c}) = size
    <3>1. {size, c} \in SUBSET Nat /\ {size, c} # {}
      BY <1>1, <2>2
    <3>2. Min({size, c}) \in {size, c} /\ Min({size, c}) <= size
      BY <3>1, MinNat
    <3> QED
      BY <1>1, <2>2, <3>2
  <2> HIDE DEF b, c
  <2>4. grown = [x \in {data, b} |-> IF x = b THEN [i \in 1 .. c |-> Junk] ELSE held[x]]
    BY <1>1 DEF Fresh
  <2>5. h = Free([grown EXCEPT ![b] = Copy(old, @, size)], data)
    BY <1>1, <2>2, <2>3 DEF Resized
  <2>6. Copy(old, [i \in 1 .. c |-> Junk], size) = new
    BY DEF Copy
  <2>7. [grown EXCEPT ![b] = Copy(old, @, size)] = [x \in {data, b} |-> IF x = b THEN new ELSE held[x]]
    BY <2>1, <2>4, <2>6
  <2> HIDE DEF new, grown
  <2>8. h = [x \in {b} |-> new]
    BY <2>1, <2>5, <2>7 DEF Free
  <2>9. new \in [1 .. c -> Slots] /\ \A i \in 1 .. size : new[i] = items[i]
    BY <1>1, <2>2 DEF new, Slots
  <2> HIDE DEF h
  <2>10. h \in [{b} -> [1 .. c -> Slots]] /\ \A i \in 1 .. size : h[b][i] = items[i]
    BY <2>8, <2>9
  <2>11. Store(h, b, e) /\ data' = b /\ capacity' = c
    BY <1>3 DEF h, b, c
  <2> QED
    BY <1>1, <2>1, <2>2, <2>10, <2>11, StoreFits
<1>4. CASE IsFull /\ UNCHANGED <<data, size, capacity, held, overrun, items>>
  BY <1>1, <1>4 DEF VectorIInv, VectorTyped, VectorBlock, VectorItems
<1> QED
  BY <1>2, <1>3, <1>4 DEF vector_push_back

LEMMA PopKeeps == ASSUME VectorIInv, vector_pop_back PROVE VectorIInv'
<1>1. /\ size \in Nat /\ size > 0 /\ items \in Seq(Elements) /\ size = Len(items) /\ size <= capacity
      /\ capacity \in Nat /\ size' = size - 1 /\ items' = SubSeq(items, 1, Len(items) - 1)
      /\ data' = data /\ capacity' = capacity /\ held' = held /\ overrun' = overrun /\ alive' = alive
      /\ data # NoData
  BY DEF vector_pop_back, VectorIInv, VectorTyped, VectorBlock, VectorItems
<1>2. /\ items' \in Seq(Elements) /\ Len(items') = size - 1
      /\ \A i \in 1 .. size - 1 : items'[i] = items[i]
  BY <1>1
<1>3. VectorTyped' /\ VectorBlock'
  BY <1>1, <1>2 DEF VectorIInv, VectorTyped, VectorBlock
<1>4. VectorItems'
  BY <1>1, <1>2 DEF VectorIInv, VectorItems
<1> QED
  BY <1>3, <1>4 DEF VectorIInv

LEMMA ClearKeeps == ASSUME VectorIInv, vector_clear PROVE VectorIInv'
  BY DEF vector_clear, VectorIInv, VectorTyped, VectorBlock, VectorItems

LEMMA VectorNextIInv == VectorIInv /\ [VectorNext]_vectorVars => VectorIInv'
<1> SUFFICES ASSUME VectorIInv, [VectorNext]_vectorVars PROVE VectorIInv'
  OBVIOUS
<1>1. CASE \E n \in Capacities : vector_init(n)
  BY <1>1, VectorInitKeeps
<1>2. CASE \E e \in Elements : vector_push_back(e)
  BY <1>2, PushKeeps
<1>3. CASE vector_pop_back
  BY <1>3, PopKeeps
<1>4. CASE vector_clear
  BY <1>4, ClearKeeps
<1>5. CASE vector_free
  BY <1>5, VectorFreeKeeps
<1>6. CASE UNCHANGED vectorVars
  BY <1>6 DEF vectorVars, VectorIInv, VectorTyped, VectorBlock, VectorItems
<1> QED
  BY <1>1, <1>2, <1>3, <1>4, <1>5, <1>6 DEF VectorNext

(* Every operation of vector.c, with the allocator failing or not, keeps   *)
(* the block of a living vector at capacity slots with its items in front. *)
THEOREM VectorInvariance == VectorSpec => []VectorIInv
<1>1. VectorInit => VectorIInv
  BY VectorInitIInv
<1>2. VectorIInv /\ [VectorNext]_vectorVars => VectorIInv'
  BY VectorNextIInv
<1> QED
  BY <1>1, <1>2, PTL DEF VectorSpec

(* A vector of any capacity, however it grew, shrank or failed to grow,    *)
(* gives back its elements in the order they were pushed, and nothing is   *)
(* ever stored outside of its block.                                       *)
THEOREM VectorKeepsItems == VectorSpec => []KeepsItems
<1>1. VectorIInv => KeepsItems
  <2> SUFFICES ASSUME VectorIInv PROVE KeepsItems
    OBVIOUS
  <2>1. ~overrun /\ size = Len(items) /\ size \in Nat /\ \A i \in 1 .. size : held[data][i] = items[i]
    BY DEF VectorIInv, VectorTyped, VectorItems
  <2>2. \A i \in 0 .. size - 1 : vector_get(i) = items[i + 1]
    BY <2>1 DEF vector_get
  <2> QED
    BY <2>1, <2>2 DEF KeepsItems
<1> QED
  BY <1>1, VectorInvariance, PTL

(* It owns one block while it lives and none after.                        *)
THEOREM VectorOwnsOneBlock == VectorSpec => []OneBlock
<1>1. VectorIInv => OneBlock
  BY DEF VectorIInv, VectorBlock, OneBlock
<1> QED
  BY <1>1, VectorInvariance, PTL
-----------------------------------------------------------------------------
Records == [key : Keys \cup {NoEntry}, value : Values]

Buckets == 0 .. TableSize - 1

HashTyped ==
  /\ table = None \/ table \in [Buckets -> Seq(Records)]
  /\ map \in [DOMAIN map -> Values] /\ DOMAIN map \subseteq Keys
  /\ table = None => DOMAIN map = {}

(* No key has two entries in a bucket.                                     *)
Unique(bucket) ==
  \A i, j \in 1 .. Len(bucket) :
    bucket[i].key = bucket[j].key /\ bucket[i].key # NoEntry => i = j

Has(bucket, k) == \E i \in 1 .. Len(bucket) : bucket[i].key = k

(* Every entry with a key is in the bucket of its key.                     *)
AtHome(bucket, b) == \A i \in 1 .. Len(bucket) : bucket[i].key \in Keys => Index(bucket[i].key) = b

(* The bucket of a key has an entry for it iff it is bound, with its value.*)
Agrees(bucket, k) ==
  /\ Has(bucket, k) <=> k \in DOMAIN map
  /\ \A i \in 1 .. Len(bucket) : bucket[i].key = k => bucket[i].value = map[k]

HashChains ==
  table # None => /\ \A b \in Buckets : Unique(table[b]) /\ AtHome(table[b], b)
                  /\ \A k \in Keys \ {AtZero} : Agrees(table[Index(k)], k)

HashIInv == HashTyped /\ HashChains
-----------------------------------------------------------------------------
LEMMA IndexIn == \A k \in Keys : Index(k) \in Buckets
<1> SUFFICES ASSUME NEW k \in Keys PROVE Index(k) \in Buckets
  OBVIOUS
<1>1. Hash[k] \in Nat /\ TableSize \in Nat \ {0}
  BY HashTableAssumption
<1>2. Hash[k] % TableSize \in Nat /\ Hash[k] % TableSize < TableSize
  BY <1>1, DivMod
<1> QED
  BY <1>1, <1>2 DEF Index, Buckets

LEMMA KeysAreNamed == ("NULL" \notin Keys) /\ NoEntry = "NULL" /\ NoEntry \notin Keys
  BY HashTableAssumption DEF NoEntry

LEMMA TableType ==
  ASSUME HashIInv, table # None
  PROVE  table \in [Buckets -> Seq(Records)]
  BY DEF HashIInv, HashTyped

(* The search for a key stops at its entry, or, for the text at address 0, *)
(* at an entry without a key.                                              *)
LEMMA PositionIs ==
  ASSUME NEW bucket \in Seq(Records), NEW k \in Keys
  PROVE  /\ Position(bucket, k) = 0 => ~Has(bucket, k)
         /\ Position(bucket, k) # 0 =>
              /\ Position(bucket, k) \in 1 .. Len(bucket)
              /\ \/ bucket[Position(bucket, k)].key = k
                 \/ bucket[Position(bucket, k)].key = NoEntry /\ k = AtZero
<1> DEFINE hits == {i \in DOMAIN bucket : TextAt(bucket[i].key) = k}
<1>1. Position(bucket, k) = IF hits = {} THEN 0 ELSE Min(hits)
  BY DEF Position
<1>2. DOMAIN bucket = 1 .. Len(bucket) /\ Len(bucket) \in Nat
  OBVIOUS
<1>3. hits \in SUBSET Nat /\ hits \subseteq 1 .. Len(bucket) /\ (Has(bucket, k) => hits # {})
  <2>1. TextAt(k) = k
    BY KeysAreNamed DEF TextAt
  <2> QED
    BY <1>2, <2>1 DEF Has
<1>4. hits # {} => Min(hits) \in hits
  BY <1>3, MinNat
<1>5. \A i \in hits : /\ i # 0 /\ i \in 1 .. Len(bucket)
                      /\ bucket[i].key = k \/ (bucket[i].key = NoEntry /\ k = AtZero)
  BY <1>2 DEF TextAt
<1> HIDE DEF hits
<1> QED
  BY <1>1, <1>3, <1>4, <1>5

LEMMA HashInitIInv == HashInit => HashIInv
<1> SUFFICES ASSUME HashInit PROVE HashIInv
  OBVIOUS
<1>1. table = None /\ map = [k \in {} |-> NoEntry]
  BY DEF HashInit
<1>2. DOMAIN map = {} /\ map \in [DOMAIN map -> Values]
  BY <1>1
<1> QED
  BY <1>1, <1>2 DEF HashIInv, HashTyped, HashChains

LEMMA CreateKeeps == ASSUME HashIInv, hash_table_create PROVE HashIInv'
<1>1. table = None /\ map' = map /\ DOMAIN map = {} /\ map \in [DOMAIN map -> Values]
  BY DEF hash_table_create, HashIInv, HashTyped
<1>2. CASE table' = table
  BY <1>1, <1>2 DEF HashIInv, HashTyped, HashChains
<1>3. CASE table' = [b \in Buckets |-> <<>>]
  <2>1. table' \in [Buckets -> Seq(Records)] /\ \A b \in Buckets : Len(table'[b]) = 0
    BY <1>3
  <2>2. HashTyped'
    <3>1. 0 \in Buckets
      BY HashTableAssumption DEF Buckets
    <3>2. table' # None
      <4>1. DOMAIN table' = Buckets /\ DOMAIN None = {}
        BY <1>3 DEF None
      <4> QED
        BY <3>1, <4>1
    <3> QED
      BY <1>1, <2>1, <3>2 DEF HashTyped
  <2>3. \A b \in Buckets : Unique(table'[b]) /\ AtHome(table'[b], b) /\ \A k : ~Has(table'[b], k)
    BY <2>1 DEF Unique, AtHome, Has
  <2>4. \A k \in Keys \ {AtZero} : Agrees(table[Index(k)], k)'
    <3> SUFFICES ASSUME NEW k \in Keys \ {AtZero}
                 PROVE  /\ Has(table'[Index(k)], k) <=> k \in DOMAIN map'
                        /\ \A i \in 1 .. Len(table'[Index(k)]) :
                             table'[Index(k)][i].key = k => table'[Index(k)][i].value = map'[k]
      BY DEF Agrees
    <3>1. Index(k) \in Buckets
      BY IndexIn
    <3> QED
      BY <1>1, <2>1, <2>3, <3>1
  <2> QED
    BY <2>2, <2>3, <2>4 DEF HashIInv, HashChains
<1> QED
  BY <1>2, <1>3 DEF hash_table_create, Buckets

(* A changed bucket s that has for every key but k what it had before      *)
(* leaves the other keys as they were.                                     *)
SameForOthers(old, s, k) ==
  \A j \in Keys \ {k} :
    /\ Has(s, j) <=> Has(old, j)
    /\ \A i \in 1 .. Len(s) : s[i].key = j =>
         \E l \in 1 .. Len(old) : old[l].key = j /\ old[l].value = s[i].value

LEMMA BucketChanged ==
  ASSUME HashIInv, table # None, NEW k \in Keys, NEW s \in Seq(Records), Unique(s),
         SameForOthers(table[Index(k)], s, k),
         table' = [table EXCEPT ![Index(k)] = s],
         map' \in [DOMAIN map' -> Values], DOMAIN map' \subseteq Keys,
         \A j \in Keys \ {k} : (j \in DOMAIN map' <=> j \in DOMAIN map) /\ (j \in DOMAIN map => map'[j] = map[j]),
         k # AtZero => /\ Has(s, k) <=> k \in DOMAIN map'
                       /\ \A i \in 1 .. Len(s) : s[i].key = k => s[i].value = map'[k]
  PROVE  HashIInv'
<1> DEFINE b == Index(k)
<1>1. b \in Buckets /\ table \in [Buckets -> Seq(Records)]
  BY IndexIn, TableType
<1>2. table' \in [Buckets -> Seq(Records)] /\ table'[b] = s
      /\ \A c \in Buckets : c # b => table'[c] = table[c]
  BY <1>1
<1>3. table' # None
  <2>1. DOMAIN table' = Buckets /\ DOMAIN None = {}
    BY <1>2 DEF None
  <2> QED
    BY <1>1, <2>1
<1>4. HashTyped'
  BY <1>2, <1>3 DEF HashTyped
<1>5. \A c \in Buckets : Unique(table'[c]) /\ AtHome(table'[c], c)
  <2>1. AtHome(s, b)
    <3> SUFFICES ASSUME NEW i \in 1 .. Len(s), s[i].key \in Keys PROVE Index(s[i].key) = b
      BY DEF AtHome
    <3>1. CASE s[i].key = k
      BY <3>1
    <3>2. CASE s[i].key # k
      <4>1. PICK l \in 1 .. Len(table[b]) : table[b][l].key = s[i].key
        BY <3>2 DEF SameForOthers
      <4> QED
        BY <1>1, <4>1 DEF HashIInv, HashChains, AtHome
    <3> QED
      BY <3>1, <3>2
  <2>2. \A c \in Buckets : Unique(table[c]) /\ AtHome(table[c], c)
    BY DEF HashIInv, HashChains
  <2> QED
    BY <1>2, <2>1, <2>2
<1>6. \A j \in Keys \ {AtZero} : Agrees(table[Index(j)], j)'
  <2> SUFFICES ASSUME NEW j \in Keys \ {AtZero}
               PROVE  /\ Has(table'[Index(j)], j) <=> j \in DOMAIN map'
                      /\ \A i \in 1 .. Len(table'[Index(j)]) :
                           table'[Index(j)][i].key = j => table'[Index(j)][i].value = map'[j]
    BY DEF Agrees
  <2>0. Index(j) \in Buckets
    BY IndexIn
  <2>1. CASE j = k
    BY <1>2, <2>1
  <2>2. CASE j # k
    <3>1. /\ Has(table[Index(j)], j) <=> j \in DOMAIN map
          /\ \A i \in 1 .. Len(table[Index(j)]) : table[Index(j)][i].key = j => table[Index(j)][i].value = map[j]
      BY DEF HashIInv, HashChains, Agrees
    <3>2. j \in DOMAIN map' <=> j \in DOMAIN map
      BY <2>2
    <3>3. j \in DOMAIN map => map'[j] = map[j]
      BY <2>2
    <3>4. CASE Index(j) # b
      <4>1. table'[Index(j)] = table[Index(j)]
        BY <1>2, <2>0, <3>4
      <4>2. \A i \in 1 .. Len(table[Index(j)]) : table[Index(j)][i].key = j => j \in DOMAIN map
        BY <3>1 DEF Has
      <4> QED
        BY <3>1, <3>2, <3>3, <4>1, <4>2
    <3>5. CASE Index(j) = b
      <4>1. table'[Index(j)] = s
        BY <1>2, <3>5
      <4>2. /\ Has(s, j) <=> Has(table[b], j)
            /\ \A i \in 1 .. Len(s) : s[i].key = j =>
                 \E l \in 1 .. Len(table[b]) : table[b][l].key = j /\ table[b][l].value = s[i].value
        BY <2>2 DEF SameForOthers
      <4>3. \A i \in 1 .. Len(s) : s[i].key = j => s[i].value = map[j] /\ j \in DOMAIN map
        BY <3>1, <3>5, <4>2 DEF Has
      <4> QED
        BY <3>1, <3>2, <3>3, <3>5, <4>1, <4>2, <4>3
    <3> QED
      BY <3>4, <3>5
  <2> QED
    BY <2>1, <2>2
<1> QED
  BY <1>4, <1>5, <1>6 DEF HashIInv, HashChains

LEMMA BoundMap ==
  ASSUME map \in [DOMAIN map -> Values], DOMAIN map \subseteq Keys, NEW k \in Keys, NEW v \in Values,
         Bind(k, v)
  PROVE  /\ map' \in [DOMAIN map' -> Values] /\ DOMAIN map' = DOMAIN map \cup {k} /\ map'[k] = v
         /\ \A j \in Keys \ {k} : (j \in DOMAIN map' <=> j \in DOMAIN map) /\ (j \in DOMAIN map => map'[j] = map[j])
<1>1. map' = [j \in DOMAIN map \cup {k} |-> IF j = k THEN v ELSE map[j]]
  BY DEF Bind
<1>2. DOMAIN map' = DOMAIN map \cup {k}
  BY <1>1
<1>3. map' \in [DOMAIN map \cup {k} -> Values]
  BY <1>1
<1> QED
  BY <1>1, <1>2, <1>3

LEMMA UpdateKeeps ==
  ASSUME HashIInv, table # None, NEW k \in Keys, NEW v \in Values,
         Update(k, v, Position(table[Index(k)], k))
  PROVE  HashIInv'
<1> DEFINE old == table[Index(k)]
           p == Position(old, k)
           s == [old EXCEPT ![p] = [old[p] EXCEPT !.value = v]]
<1>0. Index(k) \in Buckets /\ table \in [Buckets -> Seq(Records)] /\ old \in Seq(Records)
  BY IndexIn, TableType
<1>1. p \in 1 .. Len(old) /\ (old[p].key = k \/ (old[p].key = NoEntry /\ k = AtZero))
  BY <1>0, PositionIs DEF Update
<1>2. table' = [table EXCEPT ![Index(k)] = s] /\ Bind(k, v)
  BY <1>0 DEF Update
<1>3. Unique(old)
  BY <1>0 DEF HashIInv, HashChains
<1> HIDE DEF p, old
<1>4. [old[p] EXCEPT !.value = v] \in Records /\ [old[p] EXCEPT !.value = v].key = old[p].key
      /\ [old[p] EXCEPT !.value = v].value = v
  <2>1. old[p] \in Records
    BY <1>0, <1>1
  <2> QED
    BY <1>1, <2>1 DEF Records
<1>5. /\ s \in Seq(Records) /\ Len(s) = Len(old) /\ s[p].key = old[p].key /\ s[p].value = v
      /\ \A i \in 1 .. Len(old) : i # p => s[i] = old[i]
  BY <1>0, <1>1, <1>4
<1> HIDE DEF s
<1>6. \A i \in 1 .. Len(old) : s[i].key = old[i].key
  BY <1>1, <1>5
<1>7. Unique(s)
  BY <1>3, <1>5, <1>6 DEF Unique
<1>8. k # AtZero => \A i \in 1 .. Len(s) : s[i].key = k => i = p
  BY <1>1, <1>3, <1>5, <1>6, KeysAreNamed DEF Unique
<1>9. SameForOthers(old, s, k)
  <2> SUFFICES ASSUME NEW j \in Keys \ {k}
               PROVE  /\ Has(s, j) <=> Has(old, j)
                      /\ \A i \in 1 .. Len(s) : s[i].key = j =>
                           \E l \in 1 .. Len(old) : old[l].key = j /\ old[l].value = s[i].value
    BY DEF SameForOthers
  <2>1. Has(s, j) <=> Has(old, j)
    BY <1>5, <1>6 DEF Has
  <2>2. \A i \in 1 .. Len(s) : s[i].key = j => i # p /\ s[i] = old[i]
    BY <1>1, <1>5, KeysAreNamed
  <2> QED
    BY <1>5, <2>1, <2>2
<1>10. k # AtZero => Has(s, k)
  BY <1>1, <1>5 DEF Has
<1>11. map \in [DOMAIN map -> Values] /\ DOMAIN map \subseteq Keys
  BY DEF HashIInv, HashTyped
<1>12. /\ map' \in [DOMAIN map' -> Values] /\ DOMAIN map' = DOMAIN map \cup {k} /\ map'[k] = v
       /\ \A j \in Keys \ {k} : (j \in DOMAIN map' <=> j \in DOMAIN map) /\ (j \in DOMAIN map => map'[j] = map[j])
  BY <1>2, <1>11, BoundMap
<1>13. k # AtZero => \A i \in 1 .. Len(s) : s[i].key = k => s[i].value = map'[k]
  BY <1>5, <1>8, <1>12
<1>14. DOMAIN map' \subseteq Keys /\ k \in DOMAIN map'
  BY <1>11, <1>12
<1> QED
  BY <1>2, <1>5, <1>7, <1>9, <1>10, <1>12, <1>13, <1>14, BucketChanged DEF old

(* What a bucket s has in place of old, once an entry with key and v is in *)
(* front of it.                                                            *)
FrontAdded(old, s, k, key, v) ==
  /\ s \in Seq(Records) /\ Unique(s) /\ SameForOthers(old, s, k)
  /\ Has(s, k) <=> key = k
  /\ \A i \in 1 .. Len(s) : s[i].key = k => s[i].value = v

(* An entry in front of a bucket, for a key that it does not have or for   *)
(* none.                                                                   *)
LEMMA Pushed ==
  ASSUME NEW old \in Seq(Records), Unique(old), NEW k \in Keys, ~Has(old, k),
         NEW key \in {k, NoEntry}, NEW v \in Values
  PROVE  FrontAdded(old, <<[key |-> key, value |-> v]>> \o old, k, key, v)
<1> DEFINE r == [key |-> key, value |-> v]
           s == <<r>> \o old
<1>0. NoEntry \notin Keys
  BY KeysAreNamed
<1>1. r \in Records /\ r.key = key /\ r.value = v
  BY DEF Records
<1> HIDE DEF r
<1>2. Len(old) \in Nat /\ s \in Seq(Records) /\ Len(s) = Len(old) + 1 /\ s[1] = r
      /\ \A i \in 1 .. Len(old) : s[i + 1] = old[i]
  BY <1>1
<1> HIDE DEF s
<1>3. \A i \in 1 .. Len(s) : i = 1 \/ (i - 1 \in 1 .. Len(old) /\ s[i] = old[i - 1])
  <2> SUFFICES ASSUME NEW i \in 1 .. Len(s), i # 1
               PROVE  i - 1 \in 1 .. Len(old) /\ s[i] = old[i - 1]
    OBVIOUS
  <2>1. i - 1 \in 1 .. Len(old) /\ (i - 1) + 1 = i
    BY <1>2
  <2> QED
    BY <1>2, <2>1
<1>4. \A i \in 1 .. Len(old) : old[i].key # k
  BY DEF Has
<1>5. Unique(s)
  <2> SUFFICES ASSUME NEW i \in 1 .. Len(s), NEW j \in 1 .. Len(s), s[i].key = s[j].key, s[i].key # NoEntry
               PROVE  i = j
    BY DEF Unique
  <2>1. CASE i = 1 \/ j = 1
    BY <1>1, <1>2, <1>3, <1>4, <2>1
  <2>2. CASE i # 1 /\ j # 1
    <3>1. i - 1 \in 1 .. Len(old) /\ j - 1 \in 1 .. Len(old) /\ s[i] = old[i - 1] /\ s[j] = old[j - 1]
      BY <1>3, <2>2
    <3>2. i - 1 = j - 1
      BY <3>1 DEF Unique
    <3> QED
      BY <3>2
  <2> QED
    BY <2>1, <2>2
<1>6. SameForOthers(old, s, k)
  <2> SUFFICES ASSUME NEW j \in Keys \ {k}
               PROVE  /\ Has(s, j) <=> Has(old, j)
                      /\ \A i \in 1 .. Len(s) : s[i].key = j =>
                           \E l \in 1 .. Len(old) : old[l].key = j /\ old[l].value = s[i].value
    BY DEF SameForOthers
  <2>1. \A i \in 1 .. Len(s) : s[i].key = j => i - 1 \in 1 .. Len(old) /\ s[i] = old[i - 1]
    BY <1>0, <1>1, <1>2, <1>3
  <2>2. ASSUME Has(old, j) PROVE Has(s, j)
    <3>1. PICK i \in 1 .. Len(old) : old[i].key = j
      BY <2>2 DEF Has
    <3>2. i + 1 \in 1 .. Len(s) /\ s[i + 1].key = j
      BY <1>2, <3>1
    <3> QED
      BY <3>2 DEF Has
  <2>3. Has(s, j) => Has(old, j)
    BY <2>1 DEF Has
  <2> QED
    BY <2>1, <2>2, <2>3
<1>7. Has(s, k) <=> key = k
  <2>1. 1 \in 1 .. Len(s)
    BY <1>2
  <2> QED
    BY <1>1, <1>2, <1>3, <1>4, <2>1 DEF Has
<1>8. \A i \in 1 .. Len(s) : s[i].key = k => s[i].value = v
  BY <1>1, <1>2, <1>3, <1>4
<1>9. FrontAdded(old, s, k, key, v)
  BY <1>2, <1>5, <1>6, <1>7, <1>8 DEF FrontAdded
<1> QED
  BY <1>9 DEF s, r

LEMMA PushOnKeeps ==
  ASSUME HashIInv, table # None, NEW k \in Keys, NEW v \in Values, ~Has(table[Index(k)], k),
         \/ Push(Index(k), k, v) /\ Bind(k, v)
         \/ Push(Index(k), NoEntry, v) /\ UNCHANGED map
  PROVE  HashIInv'
<1> DEFINE old == table[Index(k)]
           s(key) == <<[key |-> key, value |-> v]>> \o old
<1>0. Index(k) \in Buckets /\ table \in [Buckets -> Seq(Records)] /\ old \in Seq(Records) /\ Unique(old)
  BY IndexIn, TableType DEF HashIInv, HashChains
<1>1. \A key \in {k, NoEntry} : Push(Index(k), key, v) => table' = [table EXCEPT ![Index(k)] = s(key)]
  BY <1>0 DEF Push
<1>2. \A key \in {k, NoEntry} :
        /\ s(key) \in Seq(Records) /\ Unique(s(key)) /\ SameForOthers(old, s(key), k)
        /\ Has(s(key), k) <=> key = k
        /\ \A i \in 1 .. Len(s(key)) : s(key)[i].key = k => s(key)[i].value = v
  <2> SUFFICES ASSUME NEW key \in {k, NoEntry} PROVE FrontAdded(old, s(key), k, key, v)
    BY DEF FrontAdded
  <2>1. ~Has(old, k)
    OBVIOUS
  <2> HIDE DEF old
  <2> QED
    BY <1>0, <2>1, Pushed
<1>3. map \in [DOMAIN map -> Values] /\ DOMAIN map \subseteq Keys /\ (k # AtZero => k \notin DOMAIN map)
  BY DEF HashIInv, HashTyped, HashChains, Agrees
<1> HIDE DEF s
<1>4. CASE Push(Index(k), k, v) /\ Bind(k, v)
  <2>1. /\ map' \in [DOMAIN map' -> Values] /\ DOMAIN map' = DOMAIN map \cup {k} /\ map'[k] = v
        /\ \A j \in Keys \ {k} : (j \in DOMAIN map' <=> j \in DOMAIN map) /\ (j \in DOMAIN map => map'[j] = map[j])
    BY <1>3, <1>4, BoundMap
  <2>2. DOMAIN map' \subseteq Keys /\ k \in DOMAIN map'
    BY <1>3, <2>1
  <2>3. table' = [table EXCEPT ![Index(k)] = s(k)]
    BY <1>1, <1>4
  <2>4. \A i \in 1 .. Len(s(k)) : s(k)[i].key = k => s(k)[i].value = map'[k]
    BY <1>2, <2>1
  <2> QED
    BY <1>2, <2>1, <2>2, <2>3, <2>4, BucketChanged
<1>5. CASE Push(Index(k), NoEntry, v) /\ UNCHANGED map
  <2>1. table' = [table EXCEPT ![Index(k)] = s(NoEntry)] /\ map' = map
    BY <1>1, <1>5
  <2>2. ~Has(s(NoEntry), k)
    BY <1>2, KeysAreNamed
  <2>3. \A i \in 1 .. Len(s(NoEntry)) : s(NoEntry)[i].key = k => s(NoEntry)[i].value = map'[k]
    BY <2>2 DEF Has
  <2> QED
    BY <1>2, <1>3, <2>1, <2>2, <2>3, BucketChanged
<1> QED
  BY <1>4, <1>5

LEMMA InsertKeeps ==
  ASSUME HashIInv, table # None, NEW k \in Keys, NEW v \in Values, hash_table_insert(k, v)
  PROVE  HashIInv'
<1> DEFINE i == Position(table[Index(k)], k)
<1>0. table[Index(k)] \in Seq(Records)
  BY IndexIn, TableType
<1>1. i = 0 => ~Has(table[Index(k)], k)
  BY <1>0, PositionIs
<1>2. CASE Update(k, v, i)
  BY <1>2, UpdateKeeps
<1>3. CASE i = 0 /\ Push(Index(k), k, v) /\ Bind(k, v)
  BY <1>1, <1>3, PushOnKeeps
<1>4. CASE i = 0 /\ UNCHANGED hashVars
  BY <1>4 DEF hashVars, HashIInv, HashTyped, HashChains, Agrees
<1>5. CASE i = 0 /\ Push(Index(k), NoEntry, v) /\ UNCHANGED map
  BY <1>1, <1>5, PushOnKeeps
<1> QED
  BY <1>2, <1>3, <1>4, <1>5 DEF hash_table_insert

LEMMA RemovedIs ==
  ASSUME NEW old \in Seq(Records), NEW p \in 1 .. Len(old)
  PROVE  LET s == RemoveAt(old, p)
         IN /\ s \in Seq(Records) /\ Len(s) = Len(old) - 1 /\ Len(old) \in Nat
            /\ \A i \in 1 .. Len(s) : s[i] = old[IF i < p THEN i ELSE i + 1]
<1> DEFINE a == SubSeq(old, 1, p - 1)
           z == SubSeq(old, p + 1, Len(old))
           s == a \o z
<1>1. RemoveAt(old, p) = s
  BY DEF RemoveAt
<1>2. Len(old) \in Nat /\ p \in Nat
  OBVIOUS
<1>3. a \in Seq(Records) /\ Len(a) = p - 1 /\ \A i \in 1 .. p - 1 : a[i] = old[i]
  BY <1>2
<1>4. z \in Seq(Records) /\ Len(z) = Len(old) - p /\ \A i \in 1 .. Len(old) - p : z[i] = old[p + i]
  BY <1>2
<1> HIDE DEF a, z
<1>5. s \in Seq(Records) /\ Len(s) = Len(old) - 1
  BY <1>2, <1>3, <1>4
<1>6. \A i \in 1 .. Len(s) : s[i] = old[IF i < p THEN i ELSE i + 1]
  <2> SUFFICES ASSUME NEW i \in 1 .. Len(s) PROVE s[i] = old[IF i < p THEN i ELSE i + 1]
    OBVIOUS
  <2>1. CASE i < p
    BY <1>2, <1>3, <1>4, <2>1
  <2>2. CASE ~(i < p)
    <3>1. i - (p - 1) \in 1 .. Len(old) - p /\ p + (i - (p - 1)) = i + 1
      BY <1>2, <1>5, <2>2
    <3>2. s[i] = z[i - (p - 1)]
      BY <1>2, <1>3, <1>4, <2>2, <3>1
    <3> QED
      BY <1>4, <2>2, <3>1, <3>2
  <2> QED
    BY <2>1, <2>2
<1> QED
  BY <1>1, <1>2, <1>5, <1>6

LEMMA RemoveKeeps ==
  ASSUME HashIInv, table # None, NEW k \in Keys, hash_table_remove(k)
  PROVE  HashIInv'
<1> DEFINE old == table[Index(k)]
           p == Position(old, k)
           s == RemoveAt(old, p)
           at(i) == IF i < p THEN i ELSE i + 1
<1>0. Index(k) \in Buckets /\ table \in [Buckets -> Seq(Records)] /\ old \in Seq(Records) /\ Unique(old)
  BY IndexIn, TableType DEF HashIInv, HashChains
<1>1. CASE p = 0 /\ UNCHANGED hashVars
  BY <1>1 DEF hashVars, HashIInv, HashTyped, HashChains, Agrees
<1>2. CASE /\ p # 0
           /\ table' = [table EXCEPT ![Index(k)] = Unlink(@, p)]
           /\ map' = [j \in DOMAIN map \ {k} |-> map[j]]
  <2>1. p \in 1 .. Len(old) /\ (old[p].key = k \/ (old[p].key = NoEntry /\ k = AtZero))
    BY <1>0, <1>2, PositionIs
  <2>2. table' = [table EXCEPT ![Index(k)] = s]
    BY <1>0, <1>2 DEF Unlink
  <2> HIDE DEF old, p
  <2>3. /\ s \in Seq(Records) /\ Len(s) = Len(old) - 1 /\ Len(old) \in Nat
        /\ \A i \in 1 .. Len(s) : s[i] = old[at(i)]
    BY <1>0, <2>1, RemovedIs
  <2> HIDE DEF s
  <2>4. \A i \in 1 .. Len(s) : at(i) \in 1 .. Len(old) /\ at(i) # p
    BY <2>1, <2>3
  <2>5. \A i, j \in 1 .. Len(s) : at(i) = at(j) => i = j
    BY <2>1, <2>3
  <2>6. \A l \in 1 .. Len(old) : l # p => \E i \in 1 .. Len(s) : at(i) = l
    <3> SUFFICES ASSUME NEW l \in 1 .. Len(old), l # p PROVE \E i \in 1 .. Len(s) : at(i) = l
      OBVIOUS
    <3>1. CASE l < p
      <4>1. l \in 1 .. Len(s) /\ at(l) = l
        BY <2>1, <2>3, <3>1
      <4> QED
        BY <4>1
    <3>2. CASE l > p
      <4>1. l - 1 \in 1 .. Len(s) /\ at(l - 1) = l
        BY <2>1, <2>3, <3>2
      <4> QED
        BY <4>1
    <3> QED
      BY <2>1, <3>1, <3>2
  <2> HIDE DEF at
  <2>7. Unique(s)
    BY <1>0, <2>3, <2>4, <2>5 DEF Unique
  <2>8. k # AtZero => ~Has(s, k)
    <3> SUFFICES ASSUME k # AtZero, NEW i \in 1 .. Len(s), s[i].key = k PROVE FALSE
      BY DEF Has
    <3>1. old[at(i)].key = old[p].key /\ old[at(i)].key # NoEntry
      BY <2>1, <2>3, KeysAreNamed
    <3> QED
      BY <1>0, <2>1, <2>4, <3>1 DEF Unique
  <2>9. SameForOthers(old, s, k)
    <3> SUFFICES ASSUME NEW j \in Keys \ {k}
                 PROVE  /\ Has(s, j) <=> Has(old, j)
                        /\ \A i \in 1 .. Len(s) : s[i].key = j =>
                             \E l \in 1 .. Len(old) : old[l].key = j /\ old[l].value = s[i].value
      BY DEF SameForOthers
    <3>1. \A i \in 1 .. Len(s) : s[i].key = j =>
            \E l \in 1 .. Len(old) : old[l].key = j /\ old[l].value = s[i].value
      BY <2>3, <2>4
    <3>2. Has(s, j) => Has(old, j)
      BY <2>3, <2>4 DEF Has
    <3>3. ASSUME Has(old, j) PROVE Has(s, j)
      <4>1. PICK l \in 1 .. Len(old) : old[l].key = j
        BY <3>3 DEF Has
      <4>2. l # p
        BY <2>1, <4>1, KeysAreNamed
      <4>3. PICK i \in 1 .. Len(s) : at(i) = l
        BY <2>6, <4>2
      <4> QED
        BY <2>3, <4>1, <4>3 DEF Has
    <3> QED
      BY <3>1, <3>2, <3>3
  <2>10. map \in [DOMAIN map -> Values] /\ DOMAIN map \subseteq Keys
    BY DEF HashIInv, HashTyped
  <2>11. /\ map' \in [DOMAIN map' -> Values] /\ DOMAIN map' = DOMAIN map \ {k}
         /\ \A j \in Keys \ {k} : (j \in DOMAIN map' <=> j \in DOMAIN map) /\ (j \in DOMAIN map => map'[j] = map[j])
    <3>1. DOMAIN map' = DOMAIN map \ {k}
      BY <1>2
    <3>2. map' \in [DOMAIN map \ {k} -> Values]
      BY <1>2, <2>10
    <3> QED
      BY <1>2, <3>1, <3>2
  <2>12. DOMAIN map' \subseteq Keys /\ k \notin DOMAIN map'
    BY <2>10, <2>11
  <2>13. k # AtZero => \A i \in 1 .. Len(s) : s[i].key = k => s[i].value = map'[k]
    BY <2>8 DEF Has
  <2> QED
    BY <2>2, <2>3, <2>7, <2>8, <2>9, <2>11, <2>12, <2>13, BucketChanged DEF old
<1> QED
  BY <1>1, <1>2 DEF hash_table_remove

LEMMA HashNextIInv == HashIInv /\ [HashNext]_hashVars => HashIInv'
<1> SUFFICES ASSUME HashIInv, [HashNext]_hashVars PROVE HashIInv'
  OBVIOUS
<1>1. CASE hash_table_create
  BY <1>1, CreateKeeps
<1>2. CASE table # None /\ \E k \in Keys, v \in Values : hash_table_insert(k, v)
  BY <1>2, InsertKeeps
<1>3. CASE table # None /\ \E k \in Keys : hash_table_remove(k)
  BY <1>3, RemoveKeeps
<1>4. CASE UNCHANGED hashVars
  BY <1>4 DEF hashVars, HashIInv, HashTyped, HashChains, Agrees
<1> QED
  BY <1>1, <1>2, <1>3, <1>4 DEF HashNext

(* What Agrees says of one bucket, said of the whole table.                *)
LEMMA KeyIsRight ==
  ASSUME HashIInv, table # None, NEW k \in Keys \ {AtZero}
  PROVE  IF k \in DOMAIN map
         THEN \E i \in DOMAIN table[Index(k)] :
                Places(k) = {<<Index(k), i>>} /\ table[Index(k)][i].value = map[k]
         ELSE Places(k) = {}
<1> DEFINE h == Index(k)
<1>1. h \in Buckets /\ table \in [Buckets -> Seq(Records)]
  BY IndexIn, TableType
<1>2. \A b \in Buckets : Unique(table[b]) /\ AtHome(table[b], b) /\ DOMAIN table[b] = 1 .. Len(table[b])
  BY <1>1 DEF HashIInv, HashChains
<1>3. /\ Has(table[h], k) <=> k \in DOMAIN map
      /\ \A i \in 1 .. Len(table[h]) : table[h][i].key = k => table[h][i].value = map[k]
  BY DEF HashIInv, HashChains, Agrees
<1>4. \A x : x \in Places(k) <=>
               \E b \in Buckets : \E i \in 1 .. Len(table[b]) : x = <<b, i>> /\ table[b][i].key = k
  BY <1>1, <1>2 DEF Places
<1>5. \A b \in Buckets : \A i \in 1 .. Len(table[b]) : table[b][i].key = k => b = h
  BY <1>2 DEF AtHome
<1> HIDE DEF h
<1>6. \A x : x \in Places(k) <=> \E i \in 1 .. Len(table[h]) : x = <<h, i>> /\ table[h][i].key = k
  BY <1>1, <1>4, <1>5
<1>7. CASE k \in DOMAIN map
  <2>1. PICK i \in 1 .. Len(table[h]) : table[h][i].key = k
    BY <1>3, <1>7 DEF Has
  <2>2. \A j \in 1 .. Len(table[h]) : table[h][j].key = k => j = i
    BY <1>1, <1>2, <2>1, KeysAreNamed DEF Unique
  <2>3. Places(k) = {<<h, i>>}
    BY <1>6, <2>1, <2>2
  <2>4. i \in DOMAIN table[h] /\ table[h][i].value = map[k]
    BY <1>1, <1>2, <1>3, <2>1
  <2> QED
    BY <1>7, <2>3, <2>4 DEF h
<1>8. CASE k \notin DOMAIN map
  <2>1. \A i \in 1 .. Len(table[h]) : table[h][i].key # k
    BY <1>3, <1>8 DEF Has
  <2>2. Places(k) = {}
    BY <1>6, <2>1
  <2> QED
    BY <1>8, <2>2
<1> QED
  BY <1>7, <1>8

(* In a table of any number of buckets, with any hash function and any     *)
(* text at address 0, a bound key other than that text has exactly one     *)
(* entry, in its bucket and with the value inserted last, and a removed    *)
(* one has none, whichever allocations of insert failed on the way.        *)
THEOREM ChainsAreRight == HashSpec => []ChainsHoldMap
<1>1. HashInit => HashIInv
  BY HashInitIInv
<1>2. HashIInv /\ [HashNext]_hashVars => HashIInv'
  BY HashNextIInv
<1>3. HashIInv => ChainsHoldMap
  <2> SUFFICES ASSUME HashIInv, table # None, NEW k \in Keys \ {AtZero}
               PROVE  IF k \in DOMAIN map
                      THEN \E i \in DOMAIN table[Index(k)] :
                             Places(k) = {<<Index(k), i>>} /\ table[Index(k)][i].value = map[k]
                      ELSE Places(k) = {}
    BY DEF ChainsHoldMap
  <2> QED
    BY KeyIsRight
<1> QED
  BY <1>1, <1>2, <1>3, PTL DEF HashSpec
=============================================================================
