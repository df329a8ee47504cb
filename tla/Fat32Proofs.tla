---------------------------- MODULE Fat32Proofs -----------------------------
(***************************************************************************)
(* The FAT32 driver keeps the volume whole, for every disk geometry, image *)
(* and set of names, sizes and paths that satisfies Fat32Assumption and    *)
(* ImagesAssumption, whatever is typed and wherever the power fails.       *)
(*                                                                         *)
(* The argument is in layers.  What the FAT says: chains end, and what     *)
(* setting one entry does to them (FatInv).  What the entries say of the   *)
(* FAT: Sound volumes, and what reserving a cluster, entering it, freeing  *)
(* it and writing data do to them; between two writes of a command some    *)
(* entries are doomed and some clusters in flight, which Good accounts for *)
(* (VolumeInv).  What directories hold (TidyInv), what files hold          *)
(* (FilesInv) and what names lead to (PathInv).  From these follow the     *)
(* properties of the tree as a user sees it, that every reader and search  *)
(* is right about it.                                                      *)
(***************************************************************************)
EXTENDS Fat32, FiniteSetTheorems, SequenceTheorems, Arithmetic

(* Descent along a ranked function: S has every cluster, when it has each  *)
(* one whose successor it has.                                             *)
Descends(g, C, r) == r \in [C -> Nat] /\ \A c \in C : g[c] \in C => r[g[c]] < r[c]

Inherits(g, C, S) == \A c \in C : (g[c] \in C => g[c] \in S) => c \in S

LEMMA RankInduction ==
  ASSUME NEW C, NEW g, NEW r, NEW S, Descends(g, C, r), Inherits(g, C, S)
  PROVE  C \subseteq S
<1> USE DEF Descends, Inherits
<1> DEFINE Bad == {r[c] : c \in C \ S}
<1>1. SUFFICES ASSUME Bad # {} PROVE FALSE
  BY DEF Bad
<1>2. Bad \in SUBSET Nat
  OBVIOUS
<1> DEFINE m == Min(Bad)
<1>3. m \in Bad /\ \A y \in Bad : m <= y
  BY <1>1, <1>2, MinNat
<1>4. PICK c \in C \ S : r[c] = m
  BY <1>3
<1> HIDE DEF m
<1>5. g[c] \in C /\ g[c] \notin S
  BY <1>4
<1>6. r[g[c]] \in Bad
  BY <1>5
<1>7. r[g[c]] < m /\ m <= r[g[c]]
  BY <1>3, <1>4, <1>5, <1>6
<1>8. r[g[c]] \in Nat /\ m \in Nat
  BY <1>2, <1>3, <1>5
<1> QED
  BY <1>7, <1>8

(* A rank without a bound can be made to fit the number of clusters.       *)
LEMMA RankFits ==
  ASSUME NEW C, IsFiniteSet(C), NEW g, NEW r \in [C -> Nat],
         \A c \in C : g[c] \in C => r[g[c]] < r[c]
  PROVE  Ranked(g, C)
<1> DEFINE Below(c) == {x \in C : r[x] < r[c]}
<1> DEFINE q == [c \in C |-> Cardinality(Below(c))]
<1>1. ASSUME NEW c \in C
      PROVE /\ IsFiniteSet(Below(c)) /\ Cardinality(Below(c)) \in Nat
            /\ Cardinality(Below(c)) < Cardinality(C) /\ Cardinality(C) \in Nat
  <2>1. Below(c) \in SUBSET C /\ c \notin Below(c)
    OBVIOUS
  <2>2. IsFiniteSet(Below(c)) /\ Cardinality(Below(c)) <= Cardinality(C)
        /\ (Cardinality(C) = Cardinality(Below(c)) => C = Below(c))
    BY <2>1, FS_Subset
  <2>3. Cardinality(Below(c)) \in Nat /\ Cardinality(C) \in Nat
    BY <2>2, FS_CardinalityType
  <2> QED
    BY <2>1, <2>2, <2>3
<1>2. q \in [C -> 0 .. Cardinality(C) - 1]
  <2>1. \A c \in C : Cardinality(Below(c)) \in 0 .. Cardinality(C) - 1
    <3> SUFFICES ASSUME NEW c \in C PROVE Cardinality(Below(c)) \in 0 .. Cardinality(C) - 1
      OBVIOUS
    <3>1. Cardinality(Below(c)) \in Nat /\ Cardinality(Below(c)) < Cardinality(C) /\ Cardinality(C) \in Nat
      BY <1>1
    <3> HIDE DEF Below
    <3> QED
      BY <3>1
  <2> QED
    BY <2>1, Zenon
<1>3. ASSUME NEW c \in C, g[c] \in C PROVE q[g[c]] < q[c]
  <2>1. Below(g[c]) \in SUBSET Below(c)
    <3> SUFFICES ASSUME NEW x \in C, r[x] < r[g[c]] PROVE r[x] < r[c]
      OBVIOUS
    <3>1. r[x] \in Nat /\ r[g[c]] \in Nat /\ r[c] \in Nat /\ r[g[c]] < r[c]
      BY <1>3
    <3> QED
      BY <3>1
  <2>2. g[c] \in Below(c) /\ g[c] \notin Below(g[c])
    BY <1>3
  <2>3. Cardinality(Below(g[c])) <= Cardinality(Below(c))
        /\ (Cardinality(Below(c)) = Cardinality(Below(g[c])) => Below(c) = Below(g[c]))
    BY <1>1, <2>1, FS_Subset
  <2>4. Below(c) # Below(g[c])
    BY <2>2
  <2>5. Cardinality(Below(g[c])) < Cardinality(Below(c))
    <3>1. Cardinality(Below(g[c])) \in Nat /\ Cardinality(Below(c)) \in Nat
      BY <1>1, <1>3
    <3> HIDE DEF Below
    <3> QED
      BY <3>1, <2>3, <2>4
  <2> QED
    BY <2>5, <1>3
<1> QED
  BY <1>2, <1>3 DEF Ranked

-----------------------------------------------------------------------------
(* Chains of a FAT.                                                        *)

FatType == [Clusters -> Links]

LEMMA ClusterFacts == /\ IsFiniteSet(Clusters) /\ Cardinality(Clusters) \in Nat
                      /\ Clusters \subseteq Nat \ {0, 1} /\ Root \in Clusters
                      /\ ~Valid(FREE) /\ ~Valid(EOC) /\ FREE # EOC
                      /\ Clusters \subseteq Links /\ FREE \in Links /\ EOC \in Links
  BY Fat32Assumption, FS_CardinalityType DEF Valid, FREE, EOC, Links

(* The recursion that defines the chains, unfolded.                        *)
LEMMA ChainsRecursion ==
  ASSUME NEW f \in FatType
  PROVE  \E from \in [0 .. Cardinality(Clusters) -> [Links -> Seq(Clusters)]] :
           /\ Chains(f) = from[Cardinality(Clusters)]
           /\ from[0] = [c \in Links |-> <<>>]
           /\ \A n \in 1 .. Cardinality(Clusters) :
                from[n] = [c \in Links |-> IF Valid(c) THEN <<c>> \o from[n - 1][f[c]] ELSE <<>>]
<1> DEFINE N == Cardinality(Clusters)
<1> DEFINE V == [Links -> Seq(Clusters)]
<1> DEFINE base == [c \in Links |-> <<>>]
<1> DEFINE grow(h) == [c \in Links |-> IF Valid(c) THEN <<c>> \o h[f[c]] ELSE <<>>]
<1> DEFINE step == [n \in 1 .. N |-> [h \in V |-> grow(h)]]
<1>1. N \in Nat
  BY ClusterFacts
<1>2. base \in V
  OBVIOUS
<1>3. ASSUME NEW h \in V PROVE grow(h) \in V
  <2>1. ASSUME NEW c \in Clusters PROVE <<c>> \o h[f[c]] \in Seq(Clusters)
    <3>1. h[f[c]] \in Seq(Clusters) /\ <<c>> \in Seq(Clusters)
      BY DEF FatType
    <3> QED
      BY <3>1
  <2> QED
    BY <2>1 DEF Valid
<1>4. step \in [1 .. N -> [V -> V]]
  BY <1>3
<1>5. PICK g \in [0 .. N -> V] : g[0] = base /\ \A n \in 1 .. N : g[n] = step[n][g[n - 1]]
  <2>1. step \in Steps(N, V)
    BY <1>4, Zenon DEF Steps
  <2> HIDE DEF N, V, base, step
  <2>2. Solvable(N, V, base, step)
    BY <1>1, <1>2, <2>1, RecursionExists, Zenon
  <2> QED
    BY <2>2, Zenon DEF Solvable
<1> DEFINE Eq(h) == h = [n \in 0 .. N |-> IF n = 0 THEN [c \in Links |-> <<>>]
                          ELSE [c \in Links |-> IF Valid(c) THEN <<c>> \o h[n - 1][f[c]] ELSE <<>>]]
<1>6. \A n \in 1 .. N : g[n] = grow(g[n - 1])
  <2> SUFFICES ASSUME NEW n \in 1 .. N PROVE g[n] = grow(g[n - 1])
    OBVIOUS
  <2>1. g[n - 1] \in V
    BY <1>1
  <2>2. step[n] = [h \in V |-> grow(h)]
    OBVIOUS
  <2> HIDE DEF V, grow
  <2> QED
    BY <2>1, <2>2, <1>5
<1>7. Eq(g)
  <2>1. \A n \in 0 .. N : g[n] = IF n = 0 THEN base ELSE grow(g[n - 1])
    <3> SUFFICES ASSUME NEW n \in 0 .. N PROVE g[n] = IF n = 0 THEN base ELSE grow(g[n - 1])
      OBVIOUS
    <3>1. n = 0 \/ n \in 1 .. N
      BY <1>1
    <3> HIDE DEF base, grow, step, N
    <3> QED
      BY <3>1, <1>5, <1>6
  <2>2. g = [n \in 0 .. N |-> IF n = 0 THEN base ELSE grow(g[n - 1])]
    <3> HIDE DEF base, grow, step, N, V
    <3> QED
      BY <2>1, <1>5
  <2> QED
    BY <2>2, Zenon
<1> DEFINE from == CHOOSE h : Eq(h)
<1>8. Eq(from)
  BY <1>7, Zenon
<1>9. Chains(f) = from[N]
  BY Zenon DEF Chains
<1> HIDE DEF from
<1>10. /\ DOMAIN from = 0 .. N
       /\ \A n \in 0 .. N : from[n] = IF n = 0 THEN base ELSE grow(from[n - 1])
       /\ from = [n \in 0 .. N |-> from[n]]
  <2>1. from = [n \in 0 .. N |-> IF n = 0 THEN base ELSE grow(from[n - 1])]
    BY <1>8, Zenon
  <2> HIDE DEF base, grow, N
  <2> QED
    BY <2>1
<1>11. \A n \in 0 .. N : from[n] \in V
  <2> DEFINE Bad == {n \in 0 .. N : from[n] \notin V}
  <2> SUFFICES ASSUME Bad # {} PROVE FALSE
    OBVIOUS
  <2>1. Bad \in SUBSET Nat
    OBVIOUS
  <2> DEFINE m == Min(Bad)
  <2>2. m \in Bad /\ \A y \in Bad : m <= y
    BY <2>1, MinNat
  <2> HIDE DEF m
  <2>3. m \in 0 .. N /\ from[m] \notin V
    BY <2>2
  <2> HIDE DEF Bad, V, base, grow
  <2>4. m # 0
    BY <2>3, <1>10, <1>2
  <2>5. m \in Nat /\ m - 1 \in 0 .. N /\ ~(m <= m - 1)
    BY <2>3, <2>4, <1>1
  <2>6. from[m - 1] \in V
    <3>1. m - 1 \notin Bad
      BY <2>2, <2>5, Zenon
    <3> QED
      BY <3>1, <2>5, Zenon DEF Bad
  <2>7. from[m] = grow(from[m - 1])
    BY <1>10, <2>3, <2>4
  <2> QED
    BY <2>7, <2>6, <1>3, <2>3
<1>12. from \in [0 .. N -> V]
  <2> HIDE DEF V, N
  <2> QED
    BY <1>10, <1>11
<1>13. from[0] = base /\ \A n \in 1 .. N : from[n] = grow(from[n - 1])
  <2>1. 0 \in 0 .. N /\ \A n \in 1 .. N : n \in 0 .. N /\ n # 0
    BY <1>1
  <2> HIDE DEF base, grow, V, N
  <2> QED
    BY <1>10, <2>1, Zenon
<1> QED
  BY <1>9, <1>12, <1>13, Zenon

Linked(f) == f \in FatType /\ Ranked(f, Clusters)

(* A chain is its first cluster followed by the chain of the next one:     *)
(* the bound in the definition never cuts a chain short.                   *)
LEMMA ChainUnfold ==
  ASSUME NEW f, Linked(f)
  PROVE  /\ Chains(f) \in [Links -> Seq(Clusters)]
         /\ \A c \in Clusters : Chains(f)[c] = <<c>> \o Chains(f)[f[c]]
         /\ \A c \in Links \ Clusters : Chains(f)[c] = <<>>
<1> DEFINE N == Cardinality(Clusters)
<1>1. N \in Nat /\ f \in FatType /\ Clusters \subseteq Links
  BY ClusterFacts DEF Linked
<1>2. PICK from \in [0 .. N -> [Links -> Seq(Clusters)]] :
           /\ Chains(f) = from[N]
           /\ from[0] = [c \in Links |-> <<>>]
           /\ \A n \in 1 .. N :
                from[n] = [c \in Links |-> IF Valid(c) THEN <<c>> \o from[n - 1][f[c]] ELSE <<>>]
  BY ChainsRecursion, <1>1, Zenon
<1>3. PICK r \in [Clusters -> 0 .. N - 1] : \A c \in Clusters : f[c] \in Clusters => r[f[c]] < r[c]
  BY Zenon DEF Linked, Ranked
<1>4. r \in [Clusters -> Nat] /\ \A c \in Clusters : f[c] \in Links
  BY <1>1, <1>3 DEF FatType
<1> HIDE DEF N
<1>5. ASSUME NEW x \in Links \ Clusters, NEW n \in 0 .. N PROVE from[n][x] = <<>>
  <2>1. CASE n = 0
    BY <1>2, <2>1
  <2>2. CASE n # 0
    <3>1. n \in 1 .. N
      BY <1>1, <2>2
    <3>2. from[n] = [c \in Links |-> IF Valid(c) THEN <<c>> \o from[n - 1][f[c]] ELSE <<>>]
      BY <3>1, <1>2
    <3>3. x \in Links /\ ~Valid(x)
      BY DEF Valid
    <3> QED
      BY <3>2, <3>3
  <2> QED
    BY <2>1, <2>2
<1>6. ASSUME NEW x \in Clusters, NEW n \in 1 .. N PROVE from[n][x] = <<x>> \o from[n - 1][f[x]]
  BY <1>1, <1>2 DEF Valid
<1> DEFINE S == {c \in Clusters : \A n \in 0 .. N : r[c] < n => from[n][c] = from[N][c]}
<1>7. ASSUME NEW c \in Clusters, f[c] \in Clusters => f[c] \in S PROVE c \in S
  <2> SUFFICES ASSUME NEW n \in 0 .. N, r[c] < n PROVE from[n][c] = from[N][c]
    OBVIOUS
  <2>1. n \in 1 .. N /\ N \in 1 .. N /\ r[c] \in Nat /\ r[c] < N
    BY <1>1, <1>3, <1>4
  <2>2. from[n][c] = <<c>> \o from[n - 1][f[c]] /\ from[N][c] = <<c>> \o from[N - 1][f[c]]
    BY <1>6, <2>1
  <2>3. n - 1 \in 0 .. N /\ N - 1 \in 0 .. N
    BY <2>1
  <2>4. CASE f[c] \in Clusters
    <3>1. r[f[c]] \in Nat /\ r[f[c]] < n - 1 /\ r[f[c]] < N - 1
      BY <2>1, <1>3, <1>4, <2>4
    <3>2. from[n - 1][f[c]] = from[N][f[c]] /\ from[N - 1][f[c]] = from[N][f[c]]
      BY <3>1, <2>3, <2>4, <1>7
    <3> QED
      BY <3>2, <2>2
  <2>5. CASE f[c] \notin Clusters
    <3>1. from[n - 1][f[c]] = <<>> /\ from[N - 1][f[c]] = <<>>
      BY <1>5, <2>3, <2>5, <1>4
    <3> QED
      BY <3>1, <2>2
  <2> QED
    BY <2>4, <2>5
<1>8. Clusters \subseteq S
  <2> HIDE DEF S
  <2>1. \A c \in Clusters : (f[c] \in Clusters => f[c] \in S) => c \in S
    BY <1>7
  <2> QED
    BY <2>1, <1>3, <1>4, RankInduction DEF Descends, Inherits
<1>9. ASSUME NEW c \in Clusters PROVE from[N][c] = <<c>> \o from[N][f[c]]
  <2>1. N \in 1 .. N /\ N - 1 \in 0 .. N
    BY <1>1, <1>3
  <2>2. from[N][c] = <<c>> \o from[N - 1][f[c]]
    BY <1>6, <2>1
  <2>3. CASE f[c] \in Clusters
    <3>1. r[f[c]] \in Nat /\ r[c] \in 0 .. N - 1 /\ r[f[c]] < r[c]
      BY <1>3, <1>4, <2>3
    <3>2. r[f[c]] < N - 1
      BY <1>1, <3>1
    <3>3. from[N - 1][f[c]] = from[N][f[c]]
      BY <3>2, <2>1, <2>3, <1>8
    <3> QED
      BY <3>3, <2>2
  <2>4. CASE f[c] \notin Clusters
    <3>1. from[N - 1][f[c]] = <<>> /\ from[N][f[c]] = <<>>
      BY <1>5, <2>1, <2>4, <1>4, <1>1
    <3> QED
      BY <3>1, <2>2
  <2> QED
    BY <2>3, <2>4
<1>10. N \in 0 .. N
  BY <1>1
<1> QED
  BY <1>2, <1>5, <1>9, <1>10

LEMMA RangeCons ==
  ASSUME NEW T, NEW x \in T, NEW s \in Seq(T)
  PROVE  Range(<<x>> \o s) = {x} \cup Range(s)
<1> DEFINE t == <<x>> \o s
<1>1. /\ t \in Seq(T) /\ Len(t) = 1 + Len(s) /\ t[1] = x /\ DOMAIN t = 1 .. Len(t)
      /\ DOMAIN s = 1 .. Len(s) /\ Len(s) \in Nat /\ \A k \in 1 .. Len(s) : t[k + 1] = s[k]
  OBVIOUS
<1> HIDE DEF t
<1>2. Range(t) \subseteq {x} \cup Range(s)
  <2> SUFFICES ASSUME NEW k \in DOMAIN t PROVE t[k] \in {x} \cup Range(s)
    BY DEF Range
  <2>1. CASE k = 1
    BY <2>1, <1>1
  <2>2. CASE k # 1
    <3>1. k - 1 \in 1 .. Len(s) /\ t[(k - 1) + 1] = s[k - 1] /\ (k - 1) + 1 = k
      BY <2>2, <1>1
    <3> QED
      BY <3>1, <1>1 DEF Range
  <2> QED
    BY <2>1, <2>2
<1>3. x \in Range(t)
  BY <1>1 DEF Range
<1>4. ASSUME NEW k \in DOMAIN s PROVE s[k] \in Range(t)
  <2>1. k + 1 \in DOMAIN t /\ t[k + 1] = s[k]
    BY <1>1
  <2> QED
    BY <2>1 DEF Range
<1>5. Range(s) \subseteq Range(t)
  BY <1>4 DEF Range
<1>6. Range(t) = {x} \cup Range(s)
  BY <1>2, <1>3, <1>5
<1> QED
  BY <1>6 DEF t

(* The clusters of a chain.                                                *)
LEMMA OwnUnfold ==
  ASSUME NEW f, Linked(f)
  PROVE  /\ \A c \in Links : Own(f, c) \subseteq Clusters
         /\ \A c \in Clusters : Own(f, c) = {c} \cup Own(f, f[c]) /\ f[c] \in Links
         /\ \A c \in Links \ Clusters : Own(f, c) = {}
<1>1. /\ Chains(f) \in [Links -> Seq(Clusters)]
      /\ \A c \in Clusters : Chains(f)[c] = <<c>> \o Chains(f)[f[c]] /\ f[c] \in Links
      /\ \A c \in Links \ Clusters : Chains(f)[c] = <<>>
  BY ChainUnfold DEF Linked, FatType
<1>2. \A c \in Links : Own(f, c) \subseteq Clusters
  <2> SUFFICES ASSUME NEW c \in Links, NEW k \in DOMAIN Chains(f)[c] PROVE Chains(f)[c][k] \in Clusters
    BY DEF Own, Range
  <2>1. Chains(f)[c] \in Seq(Clusters)
    BY <1>1
  <2> QED
    BY <2>1
<1>3. ASSUME NEW c \in Clusters PROVE Own(f, c) = {c} \cup Own(f, f[c])
  <2>1. Chains(f)[f[c]] \in Seq(Clusters)
    BY <1>1
  <2>2. Range(<<c>> \o Chains(f)[f[c]]) = {c} \cup Range(Chains(f)[f[c]])
    BY <2>1, RangeCons
  <2> QED
    BY <2>2, <1>1 DEF Own
<1>4. ASSUME NEW c \in Links \ Clusters PROVE Own(f, c) = {}
  BY <1>1 DEF Own, Range
<1> QED
  BY <1>1, <1>2, <1>3, <1>4

LEMMA LinkedRank ==
  ASSUME NEW f, Linked(f)
  PROVE  \E r : Descends(f, Clusters, r)
<1>1. PICK r \in [Clusters -> 0 .. Cardinality(Clusters) - 1] :
        \A c \in Clusters : f[c] \in Clusters => r[f[c]] < r[c]
  BY Zenon DEF Linked, Ranked
<1>2. r \in [Clusters -> Nat]
  BY <1>1
<1>3. Descends(f, Clusters, r)
  BY <1>1, <1>2, Zenon DEF Descends
<1> QED
  BY <1>3

(* No cluster comes back in the rest of its chain.                         *)
LEMMA NotAgain ==
  ASSUME NEW f, Linked(f), NEW c \in Clusters
  PROVE  c \notin Own(f, f[c])
<1>1. PICK r : Descends(f, Clusters, r)
  BY LinkedRank
<1> DEFINE S == {x \in Clusters : \A y \in Own(f, x) : r[y] <= r[x]}
<1>2. ASSUME NEW x \in Clusters, f[x] \in Clusters => f[x] \in S PROVE x \in S
  <2> SUFFICES ASSUME NEW y \in Own(f, x) PROVE r[y] <= r[x]
    OBVIOUS
  <2>1. y \in Clusters /\ f[x] \in Links /\ (y = x \/ y \in Own(f, f[x]))
    BY OwnUnfold, ClusterFacts
  <2>2. r[y] \in Nat /\ r[x] \in Nat
    BY <1>1, <2>1 DEF Descends
  <2>3. CASE y = x
    BY <2>2, <2>3
  <2>4. CASE y # x
    <3>1. y \in Own(f, f[x])
      BY <2>1, <2>4
    <3>2. f[x] \in Clusters
      BY <3>1, <2>1, OwnUnfold
    <3>3. r[y] <= r[f[x]] /\ r[f[x]] \in Nat /\ r[f[x]] < r[x]
      BY <1>1, <1>2, <3>1, <3>2 DEF Descends
    <3> QED
      BY <3>3, <2>2
  <2> QED
    BY <2>3, <2>4
<1>3. Clusters \subseteq S
  <2> HIDE DEF S
  <2>1. Inherits(f, Clusters, S)
    BY <1>2 DEF Inherits
  <2> QED
    BY <2>1, <1>1, RankInduction
<1> SUFFICES ASSUME c \in Own(f, f[c]) PROVE FALSE
  OBVIOUS
<1>4. f[c] \in Clusters
  BY OwnUnfold, ClusterFacts
<1>5. r[c] <= r[f[c]]
  BY <1>3, <1>4
<1>6. r[f[c]] < r[c] /\ r[c] \in Nat /\ r[f[c]] \in Nat
  BY <1>1, <1>4 DEF Descends
<1> QED
  BY <1>5, <1>6

(* The chain of a cluster contains the chains of all its clusters.         *)
LEMMA OwnClosed ==
  ASSUME NEW f, Linked(f), NEW c \in Links, NEW x \in Own(f, c)
  PROVE  x \in Clusters /\ Own(f, x) \subseteq Own(f, c)
<1>1. PICK r : Descends(f, Clusters, r)
  BY LinkedRank
<1> DEFINE S == {z \in Clusters : \A y \in Own(f, z) : Own(f, y) \subseteq Own(f, z)}
<1>2. ASSUME NEW z \in Clusters, f[z] \in Clusters => f[z] \in S PROVE z \in S
  <2> SUFFICES ASSUME NEW y \in Own(f, z) PROVE Own(f, y) \subseteq Own(f, z)
    OBVIOUS
  <2>1. f[z] \in Links /\ Own(f, z) = {z} \cup Own(f, f[z])
    BY OwnUnfold
  <2>2. y # z => f[z] \in Clusters
    BY <2>1, OwnUnfold
  <2> QED
    BY <2>1, <2>2, <1>2
<1>3. Clusters \subseteq S
  <2> HIDE DEF S
  <2>1. Inherits(f, Clusters, S)
    BY <1>2 DEF Inherits
  <2> QED
    BY <2>1, <1>1, RankInduction
<1>4. c \in Clusters /\ x \in Clusters
  BY OwnUnfold
<1> QED
  BY <1>3, <1>4

LEMMA ChainLen ==
  ASSUME NEW f, Linked(f)
  PROVE  /\ \A c \in Links : Len(Chains(f)[c]) \in Nat /\ Chains(f)[c] \in Seq(Clusters)
         /\ \A c \in Clusters : Len(Chains(f)[c]) = 1 + Len(Chains(f)[f[c]])
         /\ \A c \in Links \ Clusters : Len(Chains(f)[c]) = 0
<1>1. /\ Chains(f) \in [Links -> Seq(Clusters)]
      /\ \A c \in Clusters : Chains(f)[c] = <<c>> \o Chains(f)[f[c]] /\ f[c] \in Links
      /\ \A c \in Links \ Clusters : Chains(f)[c] = <<>>
  BY ChainUnfold DEF Linked, FatType
<1>2. \A c \in Links : Len(Chains(f)[c]) \in Nat /\ Chains(f)[c] \in Seq(Clusters)
  BY <1>1
<1>3. ASSUME NEW c \in Clusters PROVE Len(Chains(f)[c]) = 1 + Len(Chains(f)[f[c]])
  <2> DEFINE t == Chains(f)[f[c]]
  <2>1. t \in Seq(Clusters) /\ Chains(f)[c] = <<c>> \o t
    BY <1>1
  <2> HIDE DEF t
  <2>2. Len(<<c>> \o t) = 1 + Len(t)
    BY <2>1
  <2> QED
    BY <2>1, <2>2 DEF t
<1>4. \A c \in Links \ Clusters : Len(Chains(f)[c]) = 0
  BY <1>1
<1> QED
  BY <1>2, <1>3, <1>4

(* The clusters of a chain are distinct.                                   *)
LEMMA ChainDistinct ==
  ASSUME NEW f, Linked(f), NEW c \in Clusters
  PROVE  Len(Chains(f)[c]) = Cardinality(Own(f, c))
<1>1. PICK r : Descends(f, Clusters, r)
  BY LinkedRank
<1> DEFINE S == {z \in Clusters : Len(Chains(f)[z]) = Cardinality(Own(f, z))}
<1>2. ASSUME NEW z \in Clusters, f[z] \in Clusters => f[z] \in S PROVE z \in S
  <2>1. f[z] \in Links /\ Own(f, z) = {z} \cup Own(f, f[z]) /\ Own(f, f[z]) \subseteq Clusters
    BY OwnUnfold
  <2>2. z \notin Own(f, f[z])
    BY NotAgain
  <2>3. IsFiniteSet(Own(f, f[z]))
    BY <2>1, ClusterFacts, FS_Subset
  <2>4. Cardinality(Own(f, f[z]) \cup {z}) = Cardinality(Own(f, f[z])) + 1
    BY <2>2, <2>3, FS_AddElement
  <2>5. Own(f, z) = Own(f, f[z]) \cup {z}
    BY <2>1
  <2>6. Cardinality(Own(f, f[z])) = Len(Chains(f)[f[z]])
    <3>1. CASE f[z] \in Clusters
      BY <3>1, <1>2
    <3>2. CASE f[z] \notin Clusters
      <4>1. Own(f, f[z]) = {} /\ Len(Chains(f)[f[z]]) = 0
        BY <3>2, <2>1, OwnUnfold, ChainLen
      <4> QED
        BY <4>1, FS_EmptySet
    <3> QED
      BY <3>1, <3>2
  <2>7. Len(Chains(f)[z]) = 1 + Len(Chains(f)[f[z]]) /\ Len(Chains(f)[f[z]]) \in Nat
    BY <2>1, ChainLen
  <2>8. Len(Chains(f)[z]) = Cardinality(Own(f, z))
    <3> DEFINE a == Len(Chains(f)[z])  b == Len(Chains(f)[f[z]])  o == Own(f, f[z])
    <3>1. Cardinality(Own(f, z)) = b + 1
      BY <2>4, <2>5, <2>6, Zenon
    <3>2. a = 1 + b /\ b \in Nat
      BY <2>7, Zenon
    <3> HIDE DEF a, b
    <3>3. a = b + 1
      BY <3>2
    <3> QED
      BY <3>1, <3>3, Zenon DEF a
  <2> QED
    BY <2>8
<1>3. Clusters \subseteq S
  <2> HIDE DEF S
  <2>1. Inherits(f, Clusters, S)
    BY <1>2 DEF Inherits
  <2> QED
    BY <2>1, <1>1, RankInduction
<1> QED
  BY <1>3

(* A chain ends where the FAT says so.                                     *)
LEMMA ChainEnds ==
  ASSUME NEW f, Linked(f), NEW c \in Clusters
  PROVE  /\ Last(Chains(f)[c]) \in Own(f, c)
         /\ f[Last(Chains(f)[c])] \in Links \ Clusters
<1>1. PICK r : Descends(f, Clusters, r)
  BY LinkedRank
<1> DEFINE P(z) == Last(Chains(f)[z]) \in Own(f, z) /\ f[Last(Chains(f)[z])] \in Links \ Clusters
<1> DEFINE S == {z \in Clusters : P(z)}
<1>2. ASSUME NEW z \in Clusters, f[z] \in Clusters => f[z] \in S PROVE z \in S
  <2>1. f[z] \in Links /\ Own(f, z) = {z} \cup Own(f, f[z])
    BY OwnUnfold
  <2> DEFINE t == Chains(f)[f[z]]
  <2>2. Chains(f)[z] = <<z>> \o t /\ t \in Seq(Clusters)
    BY <2>1, ChainUnfold
  <2>3. CASE f[z] \in Clusters
    <3>1. Len(t) \in Nat /\ Len(t) > 0
      <4>1. Len(t) = 1 + Len(Chains(f)[f[f[z]]]) /\ f[f[z]] \in Links
        BY <2>3, ChainLen, OwnUnfold
      <4>2. Len(Chains(f)[f[f[z]]]) \in Nat
        BY <4>1, ChainLen
      <4> QED
        BY <4>1, <4>2
    <3> HIDE DEF t
    <3>2. Last(<<z>> \o t) = Last(t)
      BY <2>2, <3>1 DEF Last
    <3> QED
      BY <3>2, <2>1, <2>2, <2>3, <1>2 DEF t
  <2>4. CASE f[z] \notin Clusters
    <3>1. t = <<>>
      BY <2>4, <2>1, ChainUnfold
    <3>2. Last(Chains(f)[z]) = z
      BY <2>2, <3>1 DEF Last
    <3> QED
      BY <3>2, <2>1, <2>4
  <2> QED
    BY <2>3, <2>4
<1>3. Clusters \subseteq S
  <2> HIDE DEF S
  <2>1. Inherits(f, Clusters, S)
    BY <1>2 DEF Inherits
  <2> QED
    BY <2>1, <1>1, RankInduction
<1> QED
  BY <1>3

(* A chain depends on the FAT entries of its own clusters only.            *)
LEMMA ChainFrame ==
  ASSUME NEW f, NEW g, Linked(f), Linked(g), NEW c \in Links,
         \A x \in Own(f, c) : g[x] = f[x]
  PROVE  Chains(g)[c] = Chains(f)[c]
<1>1. PICK r : Descends(f, Clusters, r)
  BY LinkedRank
<1> DEFINE Same(z) == \A x \in Own(f, z) : g[x] = f[x]
<1> DEFINE S == {z \in Clusters : Same(z) => Chains(g)[z] = Chains(f)[z]}
<1>2. ASSUME NEW z \in Clusters, f[z] \in Clusters => f[z] \in S PROVE z \in S
  <2> SUFFICES ASSUME Same(z) PROVE Chains(g)[z] = Chains(f)[z]
    OBVIOUS
  <2>1. f[z] \in Links /\ Own(f, z) = {z} \cup Own(f, f[z])
    BY OwnUnfold
  <2>2. g[z] = f[z] /\ Same(f[z])
    BY <2>1
  <2>3. Chains(g)[f[z]] = Chains(f)[f[z]]
    <3>1. CASE f[z] \in Clusters
      BY <3>1, <2>2, <1>2
    <3>2. CASE f[z] \notin Clusters
      BY <3>2, <2>1, ChainUnfold
    <3> QED
      BY <3>1, <3>2
  <2>4. Chains(g)[z] = <<z>> \o Chains(g)[g[z]] /\ Chains(f)[z] = <<z>> \o Chains(f)[f[z]]
    BY ChainUnfold, Zenon
  <2> QED
    BY <2>2, <2>3, <2>4, Zenon
<1>3. Clusters \subseteq S
  <2> HIDE DEF S
  <2>1. Inherits(f, Clusters, S)
    BY <1>2 DEF Inherits
  <2> QED
    BY <2>1, <1>1, RankInduction
<1>4. CASE c \in Clusters
  BY <1>3, <1>4
<1>5. CASE c \notin Clusters
  BY <1>5, ChainUnfold
<1> QED
  BY <1>4, <1>5

(* One entry of the FAT is replaced.                                       *)
With(f, p, v) == [f EXCEPT ![p] = v]

(* Ending a chain at p.                                                    *)
LEMMA CutLinked ==
  ASSUME NEW f, Linked(f), NEW p \in Clusters, NEW v \in Links \ Clusters
  PROVE  Linked(With(f, p, v))
<1> DEFINE g == With(f, p, v)
<1>1. f \in FatType /\ g \in FatType /\ g[p] = v /\ \A x \in Clusters : x # p => g[x] = f[x]
  BY DEF Linked, FatType, With
<1>2. PICK r : Descends(f, Clusters, r)
  BY LinkedRank
<1> HIDE DEF g
<1>3. r \in [Clusters -> Nat] /\ \A x \in Clusters : g[x] \in Clusters => r[g[x]] < r[x]
  BY <1>1, <1>2 DEF Descends
<1>4. Ranked(g, Clusters)
  BY <1>3, RankFits, ClusterFacts
<1> QED
  BY <1>1, <1>4 DEF Linked, g

(* ... leaves alone the chains that p is not on, and all of them if p was  *)
(* the end of its chain before.                                            *)
LEMMA CutChains ==
  ASSUME NEW f, Linked(f), NEW p \in Clusters, NEW v \in Links \ Clusters,
         NEW c \in Links, p \notin Own(f, c) \/ f[p] \notin Clusters
  PROVE  Chains(With(f, p, v))[c] = Chains(f)[c]
<1> DEFINE g == With(f, p, v)
<1>1. f \in FatType /\ g \in FatType /\ g[p] = v /\ \A x \in Clusters : x # p => g[x] = f[x]
  BY DEF Linked, FatType, With
<1>2. PICK r : Descends(f, Clusters, r)
  BY LinkedRank
<1>3. Linked(g)
  BY CutLinked
<1> HIDE DEF g
<1>4. CASE p \notin Own(f, c)
  <2>1. \A x \in Own(f, c) : g[x] = f[x]
    BY <1>1, <1>4, OwnUnfold
  <2>2. Chains(g)[c] = Chains(f)[c]
    BY <2>1, <1>3, ChainFrame
  <2> QED
    BY <2>2 DEF g
<1>5. CASE f[p] \notin Clusters
  <2> DEFINE S == {z \in Clusters : Chains(g)[z] = Chains(f)[z]}
  <2>1. ASSUME NEW z \in Clusters, f[z] \in Clusters => f[z] \in S PROVE z \in S
    <3>0. f[z] \in Links
      BY OwnUnfold
    <3>1. Chains(g)[z] = <<z>> \o Chains(g)[g[z]] /\ Chains(f)[z] = <<z>> \o Chains(f)[f[z]]
      BY <1>3, ChainUnfold, Zenon
    <3>2. CASE z = p
      <4>1. Chains(g)[g[z]] = <<>> /\ Chains(f)[f[z]] = <<>>
        BY <3>0, <3>2, <1>1, <1>3, <1>5, ChainUnfold
      <4> QED
        BY <3>1, <4>1
    <3>3. CASE z # p /\ f[z] \in Clusters
      BY <3>1, <3>3, <2>1, <1>1
    <3>4. CASE z # p /\ f[z] \notin Clusters
      <4>1. Chains(g)[f[z]] = <<>> /\ Chains(f)[f[z]] = <<>>
        BY <3>0, <3>4, <1>1, <1>3, ChainUnfold
      <4> QED
        BY <3>1, <3>4, <4>1, <1>1
    <3> QED
      BY <3>2, <3>3, <3>4
  <2>2. Clusters \subseteq S
    <3> HIDE DEF S
    <3>1. Inherits(f, Clusters, S)
      BY <2>1 DEF Inherits
    <3> QED
      BY <3>1, <1>2, RankInduction
  <2>3. Chains(g)[c] = Chains(f)[c]
    <3>1. CASE c \in Clusters
      BY <2>2, <3>1
    <3>2. CASE c \notin Clusters
      BY <3>2, <1>3, ChainUnfold
    <3> QED
      BY <3>1, <3>2
  <2> QED
    BY <2>3 DEF g
<1> QED
  BY <1>4, <1>5

(* Linking a cluster that leads nowhere behind another one closes no loop. *)
LEMMA LinkLinked ==
  ASSUME NEW f, Linked(f), NEW p \in Clusters, NEW n \in Clusters, n # p, f[n] \notin Clusters
  PROVE  Linked(With(f, p, n))
<1> DEFINE g == With(f, p, n)
<1>1. f \in FatType /\ g \in FatType /\ g[p] = n /\ \A x \in Clusters : x # p => g[x] = f[x]
  BY ClusterFacts DEF Linked, FatType, With
<1>2. PICK r : Descends(f, Clusters, r)
  BY LinkedRank
<1> DEFINE q == [x \in Clusters |-> IF x = n THEN 0 ELSE r[x] + 1]
<1> HIDE DEF g
<1>3. q \in [Clusters -> Nat]
  BY <1>2 DEF Descends
<1>4. ASSUME NEW x \in Clusters, g[x] \in Clusters PROVE q[g[x]] < q[x]
  <2>1. x # n
    BY <1>1, <1>4
  <2>2. q[x] = r[x] + 1 /\ r[x] \in Nat
    BY <2>1, <1>2 DEF Descends
  <2>3. CASE g[x] = n
    <3>1. q[g[x]] = 0
      BY <2>3
    <3> QED
      BY <3>1, <2>2
  <2>4. CASE g[x] # n
    <3>1. x # p /\ g[x] = f[x]
      BY <2>4, <1>1
    <3>2. r[g[x]] < r[x] /\ r[g[x]] \in Nat
      BY <3>1, <1>2, <1>4 DEF Descends
    <3>3. q[g[x]] = r[g[x]] + 1
      BY <2>4, <1>4
    <3> QED
      BY <2>2, <3>2, <3>3
  <2> QED
    BY <2>3, <2>4
<1>5. Ranked(g, Clusters)
  <2> HIDE DEF q
  <2> QED
    BY <1>3, <1>4, RankFits, ClusterFacts
<1> QED
  BY <1>1, <1>5 DEF Linked, g

(* ... and appends it to the chains that ended there.                      *)
LEMMA LinkChains ==
  ASSUME NEW f, Linked(f), NEW p \in Clusters, NEW n \in Clusters, n # p,
         f[n] \notin Clusters, f[p] \notin Clusters, NEW c \in Links
  PROVE  /\ p \notin Own(f, c) => Chains(With(f, p, n))[c] = Chains(f)[c]
         /\ p \in Own(f, c) => /\ Own(With(f, p, n), c) = Own(f, c) \cup {n}
                               /\ Len(Chains(With(f, p, n))[c]) = Len(Chains(f)[c]) + 1
<1> DEFINE g == With(f, p, n)
<1>1. f \in FatType /\ g \in FatType /\ g[p] = n /\ \A x \in Clusters : x # p => g[x] = f[x]
  BY ClusterFacts DEF Linked, FatType, With
<1>2. PICK r : Descends(f, Clusters, r)
  BY LinkedRank
<1>3. Linked(g)
  BY LinkLinked
<1> HIDE DEF g
<1>4. p \notin Own(f, c) => Chains(g)[c] = Chains(f)[c]
  <2> SUFFICES ASSUME p \notin Own(f, c) PROVE Chains(g)[c] = Chains(f)[c]
    OBVIOUS
  <2>1. \A x \in Own(f, c) : g[x] = f[x]
    BY <1>1, OwnUnfold
  <2> QED
    BY <2>1, <1>3, ChainFrame
<1> DEFINE P(z) == p \in Own(f, z) => /\ Own(g, z) = Own(f, z) \cup {n}
                                       /\ Len(Chains(g)[z]) = Len(Chains(f)[z]) + 1
<1> DEFINE S == {z \in Clusters : P(z)}
<1>5. ASSUME NEW z \in Clusters, f[z] \in Clusters => f[z] \in S PROVE z \in S
  <2> SUFFICES ASSUME p \in Own(f, z)
               PROVE  Own(g, z) = Own(f, z) \cup {n} /\ Len(Chains(g)[z]) = Len(Chains(f)[z]) + 1
    OBVIOUS
  <2>1. /\ f[z] \in Links /\ Own(f, z) = {z} \cup Own(f, f[z])
        /\ Own(g, z) = {z} \cup Own(g, g[z]) /\ g[z] \in Links
    BY <1>3, OwnUnfold
  <2>2. /\ Len(Chains(g)[z]) = 1 + Len(Chains(g)[g[z]]) /\ Len(Chains(g)[g[z]]) \in Nat
        /\ Len(Chains(f)[z]) = 1 + Len(Chains(f)[f[z]]) /\ Len(Chains(f)[f[z]]) \in Nat
    BY <1>3, <2>1, ChainLen
  <2>3. CASE z = p
    <3>1. Own(f, f[z]) = {} /\ Len(Chains(f)[f[z]]) = 0 /\ g[z] = n
      BY <2>3, <2>1, <1>1, OwnUnfold, ChainLen
    <3>2. g[n] = f[n] /\ g[n] \in Links \ Clusters
      BY <1>1, <1>3, OwnUnfold
    <3>3. Own(g, n) = {n} /\ Len(Chains(g)[n]) = 1
      <4>1. Own(g, n) = {n} \cup Own(g, g[n]) /\ Own(g, g[n]) = {}
        BY <3>2, <1>3, OwnUnfold
      <4>2. Len(Chains(g)[n]) = 1 + Len(Chains(g)[g[n]]) /\ Len(Chains(g)[g[n]]) = 0
        BY <3>2, <1>3, ChainLen
      <4> QED
        BY <4>1, <4>2
    <3>4. Own(g, z) = Own(f, z) \cup {n}
      BY <3>1, <3>3, <2>1
    <3>5. Len(Chains(g)[z]) = Len(Chains(f)[z]) + 1
      <4>1. Len(Chains(g)[z]) = 1 + 1
        BY <3>1, <3>3, <2>2, Zenon
      <4>2. Len(Chains(f)[z]) = 1 + 0
        BY <3>1, <2>2, Zenon
      <4> QED
        BY <4>1, <4>2
    <3> QED
      BY <3>4, <3>5
  <2>4. CASE z # p
    <3>1. p \in Own(f, f[z]) /\ g[z] = f[z]
      BY <2>4, <2>1, <1>1
    <3>2. f[z] \in Clusters
      BY <3>1, <2>1, OwnUnfold
    <3>3. Own(g, f[z]) = Own(f, f[z]) \cup {n} /\ Len(Chains(g)[f[z]]) = Len(Chains(f)[f[z]]) + 1
      BY <3>1, <3>2, <1>5
    <3>4. Own(g, z) = Own(f, z) \cup {n}
      BY <3>1, <3>3, <2>1
    <3>5. Len(Chains(g)[z]) = Len(Chains(f)[z]) + 1
      BY <3>1, <3>3, <2>2
    <3> QED
      BY <3>4, <3>5
  <2> QED
    BY <2>3, <2>4
<1>6. Clusters \subseteq S
  <2> HIDE DEF S
  <2>1. Inherits(f, Clusters, S)
    BY <1>5 DEF Inherits
  <2> QED
    BY <2>1, <1>2, RankInduction
<1>7. p \in Own(f, c) => Own(g, c) = Own(f, c) \cup {n} /\ Len(Chains(g)[c]) = Len(Chains(f)[c]) + 1
  <2> SUFFICES ASSUME p \in Own(f, c)
               PROVE  Own(g, c) = Own(f, c) \cup {n} /\ Len(Chains(g)[c]) = Len(Chains(f)[c]) + 1
    OBVIOUS
  <2>1. c \in Clusters
    BY OwnUnfold
  <2> QED
    BY <2>1, <1>6
<1> QED
  BY <1>4, <1>7 DEF g

-----------------------------------------------------------------------------
(* Cells.                                                                  *)

LEMMA EntryFacts ==
  ASSUME NEW x \in Cell, x.tag = "entry"
  PROVE  /\ x.first \in Clusters \cup {0} /\ x.size \in Nat /\ x.attr \in {"file", "dir"}
         /\ x.attr = "dir" <=> x.name \in DirNames \cup {Dot, DotDot}
         /\ x.attr = "file" <=> x.name \in FileNames
         /\ Proper(x) => (x.attr = "dir" <=> x.name \in DirNames)
         /\ IsDots(x) => x.attr = "dir"
<1>1. x \in EntryCell(FileNames, "file") \/ x \in EntryCell(DirNames \cup {Dot, DotDot}, "dir")
  BY DEF Cell, EntryCell
<1>2. FileNames \cap DirNames = {} /\ {Dot, DotDot} \cap (FileNames \cup DirNames) = {}
  BY Fat32Assumption DEF Names
<1> QED
  BY <1>1, <1>2 DEF EntryCell, Proper, IsDots

LEMMA CellTags ==
  /\ \A x \in Cell : x.tag \in {"zero", "gone", "lfn", "text", "entry"}
  /\ Zero \in Cell /\ Gone \in Cell /\ Lfn \in Cell
  /\ ~Proper(Zero) /\ ~Proper(Gone) /\ ~Proper(Lfn) /\ ~IsDots(Zero) /\ ~IsDots(Gone) /\ ~IsDots(Lfn)
  BY DEF Cell, EntryCell, Zero, Gone, Lfn, Proper, IsDots

LEMMA TextCell ==
  ASSUME NEW t \in Texts, NEW k \in Nat
  PROVE  Text(t, k) \in Cell /\ ~Proper(Text(t, k)) /\ ~IsDots(Text(t, k))
  BY DEF Text, Cell, Proper, IsDots

LEMMA FileEntry ==
  ASSUME NEW n \in FileNames, NEW c \in Clusters \cup {0}, NEW z \in Nat
  PROVE  LET x == Entry(n, "file", c, z)
         IN x \in Cell /\ Proper(x) /\ ~IsDots(x) /\ ~IsDir(x) /\ x.first = c /\ x.size = z /\ x.attr = "file"
<1>1. {Dot, DotDot} \cap (FileNames \cup DirNames) = {}
  BY Fat32Assumption DEF Names
<1> QED
  BY <1>1 DEF Entry, Cell, EntryCell, Proper, IsDots, IsDir

LEMMA DirEntry ==
  ASSUME NEW n \in DirNames, NEW c \in Clusters \cup {0}
  PROVE  LET x == Entry(n, "dir", c, 0)
         IN x \in Cell /\ Proper(x) /\ ~IsDots(x) /\ IsDir(x) /\ x.first = c /\ x.attr = "dir"
<1>1. {Dot, DotDot} \cap (FileNames \cup DirNames) = {}
  BY Fat32Assumption DEF Names
<1> QED
  BY <1>1 DEF Entry, Cell, EntryCell, Proper, IsDots, IsDir

LEMMA DotsEntry ==
  ASSUME NEW n \in {Dot, DotDot}, NEW c \in Clusters \cup {0}
  PROVE  LET x == Entry(n, "dir", c, 0)
         IN x \in Cell /\ ~Proper(x) /\ IsDots(x) /\ x.first = c
  BY DEF Entry, Cell, EntryCell, Proper, IsDots

LEMMA Geometry ==
  /\ EntriesPerSector \in Nat /\ EntriesPerSector >= 2
  /\ SectorsPerCluster \in Nat /\ SectorsPerCluster >= 1
  /\ CellsPerCluster \in Nat /\ CellsPerCluster >= 2
  /\ 0 \in CellIndex /\ 1 \in CellIndex /\ 0 \in SectorIndex /\ CellIndex \subseteq Nat
<1>1. /\ EntriesPerSector \in Nat /\ EntriesPerSector >= 2
      /\ SectorsPerCluster \in Nat /\ SectorsPerCluster >= 1
  BY Fat32Assumption
<1>2. EntriesPerSector * 1 <= EntriesPerSector * SectorsPerCluster
  BY <1>1, MulMono
<1>3. CellsPerCluster \in Nat /\ CellsPerCluster >= 2
  BY <1>1, <1>2 DEF CellsPerCluster
<1> QED
  BY <1>1, <1>3 DEF CellIndex, SectorIndex

(* The k-th cell of a walk.                                                *)
LEMMA WalkAt ==
  ASSUME NEW s \in Seq(Clusters), NEW k \in DOMAIN Walk(s)
  PROVE  \E q \in Nat, m \in CellIndex :
           /\ q < Len(s) /\ 1 + q \in DOMAIN s /\ k = CellsPerCluster * q + m + 1
           /\ Walk(s)[k] = <<s[1 + q], m>>
<1> DEFINE N == Len(s)  C == CellsPerCluster
<1>1. C \in Nat \ {0} /\ N \in Nat /\ C * N \in Nat /\ N * C = C * N
  BY Geometry
<1>2. k \in 1 .. N * C
  BY DEF Walk
<1> DEFINE q == (k - 1) \div C  m == (k - 1) % C
<1>3. Walk(s)[k] = <<s[1 + q], m>>
  BY <1>2 DEF Walk
<1>4. k - 1 \in Nat /\ k - 1 < C * N
  BY <1>1, <1>2
<1>5. q \in Nat /\ m \in Nat /\ k - 1 = C * q + m /\ m < C
  BY <1>1, <1>4, DivMod
<1> HIDE DEF q, m, N, C
<1>6. q < N
  <2> SUFFICES ASSUME N <= q PROVE FALSE
    BY <1>1, <1>5
  <2>1. C * N <= C * q
    BY <1>1, <1>5, MulMono
  <2>2. C * q \in Nat
    BY <1>1, <1>5
  <2> QED
    BY <2>1, <2>2, <1>4, <1>5, <1>1
<1>7. 1 + q \in DOMAIN s
  BY <1>5, <1>6, <1>1 DEF N
<1>8. m \in CellIndex
  BY <1>5, <1>1 DEF CellIndex, C
<1>9. k = C * q + m + 1
  <2>1. C * q \in Nat /\ k \in Nat
    BY <1>5, <1>1, <1>2
  <2> QED
    BY <2>1, <1>5
<1> QED
  BY <1>3, <1>5, <1>6, <1>7, <1>8, <1>9 DEF N, C

(* The cells a walk visits belong to the clusters of its chain.            *)
LEMMA WalkCells ==
  ASSUME NEW s \in Seq(Clusters)
  PROVE  /\ DOMAIN Walk(s) = 1 .. Len(s) * CellsPerCluster /\ DOMAIN Walk(s) \in SUBSET Nat
         /\ \A k \in DOMAIN Walk(s) : Walk(s)[k] \in Range(s) \X CellIndex
<1>1. DOMAIN Walk(s) = 1 .. Len(s) * CellsPerCluster
  BY DEF Walk
<1>2. ASSUME NEW k \in DOMAIN Walk(s) PROVE Walk(s)[k] \in Range(s) \X CellIndex
  BY WalkAt DEF Range
<1> QED
  BY <1>1, <1>2

(* A walk visits every cell of its chain ...                               *)
LEMMA WalkOnto ==
  ASSUME NEW s \in Seq(Clusters), NEW i \in DOMAIN s, NEW m \in CellIndex
  PROVE  LET k == CellsPerCluster * (i - 1) + m + 1
         IN k \in DOMAIN Walk(s) /\ Walk(s)[k] = <<s[i], m>>
<1> DEFINE N == Len(s)  C == CellsPerCluster  k == C * (i - 1) + m + 1
<1>1. C \in Nat \ {0} /\ N \in Nat /\ C * N \in Nat /\ N * C = C * N
  BY Geometry
<1>2. i \in 1 .. N /\ m \in Nat /\ m < C
  BY <1>1 DEF CellIndex
<1>3. i - 1 \in Nat /\ C * (i - 1) \in Nat /\ C * i = C * (i - 1) + C
  BY <1>1, <1>2
<1>4. C * i <= C * N
  BY <1>1, <1>2, MulMono
<1>5. k \in 1 .. N * C /\ k - 1 \in Nat /\ k - 1 = C * (i - 1) + m
  <2> DEFINE p == C * (i - 1)  t == N * C
  <2>1. p \in Nat /\ t \in Nat /\ p + C <= t /\ k = p + m + 1
    BY <1>1, <1>3, <1>4
  <2> HIDE DEF p, t, C, k
  <2>2. k \in 1 .. t /\ k - 1 \in Nat /\ k - 1 = p + m
    BY <2>1, <1>1, <1>2
  <2> QED
    BY <2>2 DEF p, t
<1>6. (k - 1) \div C = i - 1 /\ (k - 1) % C = m
  BY <1>1, <1>2, <1>3, <1>5, DivUnique
<1> HIDE DEF k
<1>7. 1 + (i - 1) = i
  BY <1>2
<1>8. Walk(s)[k] = <<s[1 + ((k - 1) \div C)], (k - 1) % C>> /\ k \in DOMAIN Walk(s)
  BY <1>5 DEF Walk
<1> QED
  BY <1>6, <1>7, <1>8 DEF k

(* ... and none twice, when its clusters are distinct.                     *)
LEMMA WalkOnce ==
  ASSUME NEW s \in Seq(Clusters), \A i, j \in DOMAIN s : s[i] = s[j] => i = j,
         NEW a \in DOMAIN Walk(s), NEW b \in DOMAIN Walk(s), Walk(s)[a] = Walk(s)[b]
  PROVE  a = b
<1>1. PICK p \in Nat, m \in CellIndex : /\ 1 + p \in DOMAIN s /\ a = CellsPerCluster * p + m + 1
                                       /\ Walk(s)[a] = <<s[1 + p], m>>
  BY WalkAt
<1>2. PICK q \in Nat, n \in CellIndex : /\ 1 + q \in DOMAIN s /\ b = CellsPerCluster * q + n + 1
                                       /\ Walk(s)[b] = <<s[1 + q], n>>
  BY WalkAt
<1>3. m = n /\ 1 + p = 1 + q
  BY <1>1, <1>2
<1>4. p = q
  BY <1>3
<1> QED
  BY <1>1, <1>2, <1>3, <1>4

LEMMA NoLocNowhere ==
  ASSUME NEW S \in SUBSET Clusters, NEW l \in S \X CellIndex
  PROVE  l # NoLoc
  BY ClusterFacts DEF NoLoc

(* What the searches of a directory find.                                  *)
LEMMA FindFile ==
  ASSUME Linked(fat), NEW c \in Clusters, NEW n, find_file(c, n) # NoLoc
  PROVE  find_file(c, n) \in ChainSet(c) \X CellIndex /\ Named(At(find_file(c, n)), n)
<1> DEFINE w == Walk(Chain(c))
<1> DEFINE Hit(k) == Named(At(w[k]), n) /\ \A j \in 1 .. k - 1 : At(w[j]) # Zero
<1> DEFINE hits == {k \in DOMAIN w : Hit(k)}
<1>1. find_file(c, n) = IF hits = {} THEN NoLoc ELSE w[Min(hits)]
  BY Zenon DEF find_file, FirstWhere
<1>2. Chain(c) \in Seq(Clusters)
  BY ChainLen, ClusterFacts DEF Chain
<1>3. DOMAIN w \in SUBSET Nat /\ \A k \in DOMAIN w : w[k] \in ChainSet(c) \X CellIndex
  BY <1>2, WalkCells DEF ChainSet, Own, Chain
<1>4. hits # {} /\ hits \in SUBSET Nat
  BY <1>1, <1>3
<1>5. Min(hits) \in hits
  BY <1>4, MinNat
<1>6. Min(hits) \in DOMAIN w /\ Hit(Min(hits))
  BY <1>5
<1> QED
  BY <1>1, <1>3, <1>4, <1>6

LEMMA FindDir ==
  ASSUME Linked(fat), NEW c \in Clusters, NEW n, find_dir(c, n) # NoLoc
  PROVE  /\ find_dir(c, n) \in ChainSet(c) \X CellIndex
         /\ Named(At(find_dir(c, n)), n) /\ IsDir(At(find_dir(c, n)))
<1> DEFINE w == Walk(Chain(c))
<1> DEFINE SameSector(j, k) == w[j][1] = w[k][1] /\ SectorOf(w[j][2]) = SectorOf(w[k][2])
<1> DEFINE Hit(k) == /\ Named(At(w[k]), n) /\ IsDir(At(w[k]))
                     /\ \A j \in 1 .. k - 1 : SameSector(j, k) => At(w[j]) # Zero
<1> DEFINE hits == {k \in DOMAIN w : Hit(k)}
<1>1. find_dir(c, n) = IF hits = {} THEN NoLoc ELSE w[Min(hits)]
  BY Zenon DEF find_dir, FirstWhere
<1>2. Chain(c) \in Seq(Clusters)
  BY ChainLen, ClusterFacts DEF Chain
<1>3. DOMAIN w \in SUBSET Nat /\ \A k \in DOMAIN w : w[k] \in ChainSet(c) \X CellIndex
  BY <1>2, WalkCells DEF ChainSet, Own, Chain
<1>4. hits # {} /\ hits \in SUBSET Nat
  BY <1>1, <1>3
<1>5. Min(hits) \in hits
  BY <1>4, MinNat
<1>6. Min(hits) \in DOMAIN w /\ Hit(Min(hits))
  BY <1>5
<1> QED
  BY <1>1, <1>3, <1>4, <1>6

LEMMA FreeSlot ==
  ASSUME NEW s \in Seq(Clusters), free_slot(s) # NoLoc
  PROVE  /\ free_slot(s) \in Range(s) \X CellIndex /\ IsFree(At(free_slot(s)))
         /\ \E i \in DOMAIN Walk(s) : /\ free_slot(s) = Walk(s)[i]
                                      /\ \A j \in 1 .. i - 1 : ~IsFree(At(Walk(s)[j]))
<1> DEFINE w == Walk(s)
<1> DEFINE Hit(k) == IsFree(At(w[k]))
<1> DEFINE hits == {k \in DOMAIN w : Hit(k)}
<1>1. free_slot(s) = IF hits = {} THEN NoLoc ELSE w[Min(hits)]
  BY Zenon DEF free_slot, FirstWhere
<1>3. DOMAIN w \in SUBSET Nat /\ \A k \in DOMAIN w : w[k] \in Range(s) \X CellIndex
  BY WalkCells
<1>4. hits # {} /\ hits \in SUBSET Nat
  BY <1>1, <1>3
<1>5. Min(hits) \in hits
  BY <1>4, MinNat
<1>6. Min(hits) \in DOMAIN w /\ Hit(Min(hits))
  BY <1>5
<1>7. ASSUME NEW j \in 1 .. Min(hits) - 1 PROVE ~Hit(j)
  <2>1. Min(hits) \in Nat /\ \A y \in hits : Min(hits) <= y
    BY <1>4, <1>5, MinNat
  <2>2. j \in DOMAIN w
    <3>1. DOMAIN w = 1 .. Len(s) * CellsPerCluster /\ Len(s) * CellsPerCluster \in Nat
      BY WalkCells, Geometry
    <3> QED
      BY <3>1, <1>6, <2>1
  <2> SUFFICES ASSUME Hit(j) PROVE FALSE
    OBVIOUS
  <2>3. j \in hits
    BY <2>2
  <2>4. Min(hits) <= j
    BY <2>1, <2>3
  <2> HIDE DEF hits
  <2> QED
    BY <2>1, <2>4
<1> QED
  BY <1>1, <1>3, <1>4, <1>6, <1>7

LEMMA FindFree ==
  ASSUME FreeClusters # {}
  PROVE  find_free_cluster \in Clusters /\ fat[find_free_cluster] = FREE
<1>1. FreeClusters \in SUBSET Nat
  BY ClusterFacts DEF FreeClusters
<1>2. Min(FreeClusters) \in FreeClusters
  BY <1>1, MinNat
<1> QED
  BY <1>2 DEF find_free_cluster, FreeClusters

(* The searches of cd stay within A.                                       *)
Walled(A) == \A c \in A : \A n \in Names \cup {Dot, DotDot} :
               find_dir(c, n) # NoLoc => RootIfZero(At(find_dir(c, n)).first) \in A

(* Where cd can get by any path.                                           *)
LEMMA PathStays ==
  ASSUME NEW A \in SUBSET Clusters, Root \in A, NEW c \in A, NEW p \in Paths, Walled(A)
  PROVE  get_path_cluster(c, p) \in A \cup {NotFound}
<1> DEFINE N == Len(p.parts)  V == A \cup {NotFound}
<1> DEFINE base == IF p.absolute THEN Root ELSE c
<1> DEFINE next(v, i) == IF v = NotFound THEN NotFound
                         ELSE LET loc == find_dir(v, p.parts[i])
                              IN IF loc = NoLoc THEN NotFound ELSE RootIfZero(At(loc).first)
<1> DEFINE step == [i \in 1 .. N |-> [v \in V |-> next(v, i)]]
<1>1. /\ N \in Nat /\ p.absolute \in BOOLEAN /\ \A i \in 1 .. N : p.parts[i] \in Names \cup {Dot, DotDot}
  BY Fat32Assumption
<1>2. base \in V
  OBVIOUS
<1>3. ASSUME NEW v \in V, NEW i \in 1 .. N PROVE next(v, i) \in V
  BY <1>1 DEF Walled
<1>4. step \in Steps(N, V)
  BY <1>3 DEF Steps
<1>5. PICK g \in [0 .. N -> V] : g[0] = base /\ \A n \in 1 .. N : g[n] = step[n][g[n - 1]]
  <2> HIDE DEF N, V, base, step
  <2>2. Solvable(N, V, base, step)
    BY <1>1, <1>2, <1>4, RecursionExists, Zenon
  <2> QED
    BY <2>2, Zenon DEF Solvable
<1> DEFINE Eq(h) == h = [i \in 0 .. N |->
                          IF i = 0 THEN IF p.absolute THEN Root ELSE c
                          ELSE IF h[i - 1] = NotFound THEN NotFound
                          ELSE LET loc == find_dir(h[i - 1], p.parts[i])
                               IN IF loc = NoLoc THEN NotFound ELSE RootIfZero(At(loc).first)]
<1>6. \A n \in 1 .. N : g[n] = next(g[n - 1], n)
  <2> SUFFICES ASSUME NEW n \in 1 .. N PROVE g[n] = next(g[n - 1], n)
    OBVIOUS
  <2>1. g[n - 1] \in V
    BY <1>1
  <2>2. step[n] = [v \in V |-> next(v, n)]
    OBVIOUS
  <2> HIDE DEF V, next
  <2> QED
    BY <2>1, <2>2, <1>5
<1>7. Eq(g)
  <2>1. \A n \in 0 .. N : g[n] = IF n = 0 THEN base ELSE next(g[n - 1], n)
    <3> SUFFICES ASSUME NEW n \in 0 .. N PROVE g[n] = IF n = 0 THEN base ELSE next(g[n - 1], n)
      OBVIOUS
    <3>1. n = 0 \/ n \in 1 .. N
      BY <1>1
    <3> HIDE DEF base, next, step, N
    <3> QED
      BY <3>1, <1>5, <1>6
  <2>2. g = [n \in 0 .. N |-> IF n = 0 THEN base ELSE next(g[n - 1], n)]
    <3> HIDE DEF base, next, step, N, V
    <3> QED
      BY <2>1, <1>5
  <2> QED
    BY <2>2, Zenon
<1> DEFINE resolve == CHOOSE h : Eq(h)
<1>8. Eq(resolve)
  BY <1>7, Zenon
<1>9. get_path_cluster(c, p) = resolve[N]
  BY Zenon DEF get_path_cluster
<1> HIDE DEF resolve
<1>10. \A n \in 0 .. N : resolve[n] = IF n = 0 THEN base ELSE next(resolve[n - 1], n)
  <2>1. resolve = [n \in 0 .. N |-> IF n = 0 THEN base ELSE next(resolve[n - 1], n)]
    BY <1>8, Zenon
  <2> HIDE DEF base, next, N
  <2> QED
    BY <2>1
<1>11. \A n \in 0 .. N : resolve[n] \in V
  <2> DEFINE Bad == {n \in 0 .. N : resolve[n] \notin V}
  <2> SUFFICES ASSUME Bad # {} PROVE FALSE
    OBVIOUS
  <2>1. Bad \in SUBSET Nat
    OBVIOUS
  <2> DEFINE m == Min(Bad)
  <2>2. m \in Bad /\ \A y \in Bad : m <= y
    BY <2>1, MinNat
  <2> HIDE DEF m
  <2>3. m \in 0 .. N /\ resolve[m] \notin V
    BY <2>2
  <2> HIDE DEF Bad, V, base, next
  <2>4. m # 0
    BY <2>3, <1>10, <1>2
  <2>5. m \in Nat /\ m \in 1 .. N /\ m - 1 \in 0 .. N /\ ~(m <= m - 1)
    BY <2>3, <2>4, <1>1
  <2>6. resolve[m - 1] \in V
    <3>1. m - 1 \notin Bad
      BY <2>2, <2>5, Zenon
    <3> QED
      BY <3>1, <2>5, Zenon DEF Bad
  <2>7. resolve[m] = next(resolve[m - 1], m)
    BY <1>10, <2>3, <2>4
  <2> QED
    BY <2>7, <2>6, <2>5, <1>3, <2>3
<1>12. N \in 0 .. N
  BY <1>1
<1> QED
  BY <1>9, <1>11, <1>12, Zenon

(* The locals of a command, by how far it is.                              *)
WriteOp == [pc : {"alloc", "mark", "data"}, name : FileNames, text : Texts, size : Sizes,
            i : Nat, s : SectorIndex, first : Clusters \cup {0}, prev : Clusters \cup {0},
            cur : Clusters \cup {0}]
MkdirOp == [pc : {"init", "slot"}, name : DirNames, cur : Clusters, s : SectorIndex]
RemoveOp == [pc : {"free"}, loc : Clusters \X CellIndex, cur : Links]
OpType == {Idle} \cup WriteOp \cup MkdirOp \cup RemoveOp

(* The chain that the command o has built in the FAT f so far.             *)
Building(f, o) ==
  /\ o.pc = "alloc" => /\ o.i <= Needed(o.size)
                       /\ o.i = 0 => o.first = 0
                       /\ o.i > 0 => o.prev \in Own(f, o.first) /\ f[o.prev] = EOC
                       /\ Len(Chains(f)[o.first]) = o.i
                       /\ \A c \in Own(f, o.first) : f[c] # FREE
  /\ o.pc = "mark" => /\ o.i < Needed(o.size) /\ o.i > 0
                      /\ o.cur \in Own(f, o.first) /\ f[o.cur] = FREE
                      /\ Len(Chains(f)[o.first]) = o.i + 1
                      /\ \A c \in Own(f, o.first) : c # o.cur => f[c] # FREE
  /\ o.pc = "data" => /\ o.i < Needed(o.size)
                      /\ o.cur \in Own(f, o.first) /\ f[o.cur] = EOC
                      /\ Len(Chains(f)[o.first]) = o.i + 1
                      /\ \A c \in Own(f, o.first) : f[c] # FREE
  /\ o.pc \in {"init", "slot"} => f[o.cur] = EOC

Typed == /\ IsDisk(disk) /\ cwd \in Clusters /\ op \in OpType
         /\ torn \cup DOMAIN written \subseteq Clusters \X CellIndex /\ lost \subseteq Clusters

FatInv == Typed /\ Linked(fat) /\ Building(fat, op)

LEMMA OpKinds ==
  ASSUME NEW o \in OpType
  PROVE  /\ o.pc \in {"alloc", "mark", "data"} => o \in WriteOp
         /\ o.pc \in {"init", "slot"} => o \in MkdirOp
         /\ o.pc = "free" => o \in RemoveOp
         /\ o.pc = "idle" => o = Idle
         /\ o.pc \in {"idle", "alloc", "mark", "data", "init", "slot", "free"}
  BY DEF OpType, WriteOp, MkdirOp, RemoveOp, Idle

LEMMA IdleFacts ==
  /\ Idle.pc = "idle" /\ Idle \in OpType
  /\ \A f : Building(f, Idle)
  BY DEF Idle, OpType, Building

LEMMA InFlightClusters == FatInv => InFlight \subseteq Clusters
<1> SUFFICES ASSUME FatInv PROVE InFlight \subseteq Clusters
  OBVIOUS
<1>1. op \in OpType /\ Linked(fat)
  BY DEF FatInv, Typed
<1>2. Clusters \cup {0} \subseteq Links
  BY DEF Links, FREE
<1>3. \A c \in Links : Own(fat, c) \subseteq Clusters
  BY <1>1, OwnUnfold
<1>4. CASE op.pc \in {"alloc", "mark", "data"}
  <2>1. op.first \in Links
    BY <1>1, <1>2, <1>4, OpKinds DEF WriteOp
  <2> QED
    BY <1>3, <1>4, <2>1 DEF InFlight, ChainSet
<1>5. CASE op.pc \in {"init", "slot"}
  <2>1. op.cur \in Clusters
    BY <1>1, <1>5, OpKinds DEF MkdirOp
  <2> QED
    BY <1>5, <2>1 DEF InFlight
<1>6. CASE op.pc = "free"
  <2>1. op.cur \in Links
    BY <1>1, <1>6, OpKinds DEF RemoveOp
  <2> QED
    BY <1>3, <1>6, <2>1 DEF InFlight, ChainSet
<1>7. CASE op.pc = "idle"
  BY <1>7 DEF InFlight
<1> QED
  BY <1>1, <1>4, <1>5, <1>6, <1>7, OpKinds

LEMMA NeededFacts ==
  ASSUME NEW z \in Nat
  PROVE  Needed(z) \in Nat /\ (z = 0 => Needed(z) = 0)
<1>1. CellsPerCluster \in Nat \ {0}
  BY Geometry
<1> DEFINE C == CellsPerCluster
<1>2. z + C - 1 \in Nat
  BY <1>1
<1>3. Needed(z) = (z + C - 1) \div C
  BY DEF Needed
<1>4. (z + C - 1) \div C \in Nat
  BY <1>1, <1>2, DivMod
<1>5. ASSUME z = 0 PROVE (z + C - 1) \div C = 0
  <2>1. C - 1 \in Nat /\ C - 1 = C * 0 + (C - 1) /\ C - 1 < C /\ z + C - 1 = C - 1
    BY <1>1, <1>5
  <2> QED
    BY <2>1, <1>1, DivUnique
<1> QED
  BY <1>3, <1>4, <1>5

(* One entry of the disk is replaced.                                      *)
Put(d, l, x) == [d EXCEPT ![l[1]][l[2]] = x]

LEMMA PutFacts ==
  ASSUME NEW d, IsDisk(d), NEW l \in Clusters \X CellIndex, NEW x \in Cell
  PROVE  /\ IsDisk(Put(d, l, x)) /\ CellAt(Put(d, l, x), l) = x
         /\ \A c \in Clusters, k \in CellIndex : <<c, k>> # l => Put(d, l, x)[c][k] = d[c][k]
         /\ \A m \in Clusters \X CellIndex : m # l => CellAt(Put(d, l, x), m) = CellAt(d, m)
<1> DEFINE e == Put(d, l, x)
<1>1. /\ DOMAIN d = Clusters /\ l[1] \in Clusters /\ l[2] \in CellIndex /\ l = <<l[1], l[2]>>
      /\ \A c \in Clusters : DOMAIN d[c] = CellIndex /\ \A k \in CellIndex : d[c][k] \in Cell
  BY DEF IsDisk
<1>2. /\ DOMAIN e = Clusters /\ DOMAIN e[l[1]] = CellIndex /\ e[l[1]][l[2]] = x
      /\ \A c \in Clusters : c # l[1] => e[c] = d[c]
      /\ \A k \in CellIndex : k # l[2] => e[l[1]][k] = d[l[1]][k]
  BY <1>1 DEF Put
<1> HIDE DEF e
<1>3. \A c \in Clusters, k \in CellIndex : <<c, k>> # l => e[c][k] = d[c][k]
  BY <1>1, <1>2
<1>4. IsDisk(e)
  BY <1>1, <1>2, <1>3 DEF IsDisk
<1>5. \A m \in Clusters \X CellIndex : m # l => CellAt(e, m) = CellAt(d, m)
  <2> SUFFICES ASSUME NEW m \in Clusters \X CellIndex, m # l PROVE e[m[1]][m[2]] = d[m[1]][m[2]]
    BY DEF CellAt
  <2>1. m[1] \in Clusters /\ m[2] \in CellIndex /\ m = <<m[1], m[2]>>
    OBVIOUS
  <2> QED
    BY <2>1, <1>3
<1>6. CellAt(e, l) = x
  BY <1>2 DEF CellAt
<1> QED
  BY <1>3, <1>4, <1>5, <1>6 DEF e

(* One sector of cluster c is written.                                     *)
PutSector(d, c, s, cells) ==
  [d EXCEPT ![c] = [k \in CellIndex |-> IF SectorOf(k) = s THEN cells[k] ELSE @[k]]]

LEMMA SectorFacts ==
  ASSUME NEW d, IsDisk(d), NEW c \in Clusters, NEW s, NEW cells,
         \A k \in CellIndex : cells[k] \in Cell
  PROVE  /\ IsDisk(PutSector(d, c, s, cells))
         /\ \A k \in CellIndex :
              PutSector(d, c, s, cells)[c][k] = IF SectorOf(k) = s THEN cells[k] ELSE d[c][k]
         /\ \A b \in Clusters : b # c => PutSector(d, c, s, cells)[b] = d[b]
<1> DEFINE e == PutSector(d, c, s, cells)
<1>1. /\ DOMAIN d = Clusters
      /\ \A b \in Clusters : DOMAIN d[b] = CellIndex /\ \A k \in CellIndex : d[b][k] \in Cell
  BY DEF IsDisk
<1>2. /\ DOMAIN e = Clusters /\ DOMAIN e[c] = CellIndex
      /\ \A k \in CellIndex : e[c][k] = IF SectorOf(k) = s THEN cells[k] ELSE d[c][k]
      /\ \A b \in Clusters : b # c => e[b] = d[b]
  BY <1>1 DEF PutSector
<1> HIDE DEF e
<1>3. IsDisk(e)
  BY <1>1, <1>2 DEF IsDisk
<1> QED
  BY <1>2, <1>3 DEF e

-----------------------------------------------------------------------------
(* FatInv, step by step.                                                   *)

LEMMA FatInit == Init => FatInv
<1> SUFFICES ASSUME Init PROVE FatInv
  OBVIOUS
<1>1. PICK im \in Images : fat = im.fat /\ disk = im.disk /\ written = im.files
  BY DEF Init
<1>2. cwd = Root /\ op = Idle /\ torn = {} /\ lost = {}
  BY DEF Init
<1>3. /\ im.fat \in [Clusters -> Links] /\ Ranked(im.fat, Clusters)
      /\ IsDisk(im.disk) /\ DOMAIN im.files \subseteq Clusters \X CellIndex
  BY ImagesAssumption
<1>4. Linked(fat)
  BY <1>1, <1>3 DEF Linked, FatType, With
<1>5. Typed
  BY <1>1, <1>2, <1>3, ClusterFacts, IdleFacts DEF Typed
<1> QED
  BY <1>2, <1>4, <1>5, IdleFacts DEF FatInv

LEMMA FatStutter == FatInv /\ UNCHANGED vars => FatInv'
<1> SUFFICES ASSUME FatInv, UNCHANGED vars PROVE FatInv'
  OBVIOUS
<1>1. /\ fat' = fat /\ disk' = disk /\ cwd' = cwd /\ op' = op /\ written' = written
      /\ torn' = torn /\ lost' = lost
  BY DEF vars, ghosts
<1> QED
  BY <1>1 DEF FatInv, Typed

(* The command has ended and the FAT is as it was.                         *)
LEMMA FatEnds ==
  ASSUME FatInv, fat' = fat, op' = Idle, Typed'
  PROVE  FatInv'
  BY IdleFacts DEF FatInv

LEMMA FatWriteFile ==
  ASSUME NEW n \in FileNames, NEW t \in Texts, NEW z \in Sizes, FatInv, write_file(n, t, z)
  PROVE  FatInv'
<1> DEFINE o == [pc |-> "alloc", name |-> n, text |-> t, size |-> z,
                 i |-> 0, s |-> 0, first |-> 0, prev |-> 0, cur |-> 0]
<1>1. op' = o /\ UNCHANGED <<fat, disk, cwd, written, torn, lost>>
  BY DEF write_file, Begin, ghosts
<1>2. o \in WriteOp
  BY Geometry DEF WriteOp
<1>3. Needed(z) \in Nat
  BY NeededFacts, Fat32Assumption
<1>4. 0 \in Links \ Clusters
  BY ClusterFacts DEF FREE
<1>5. Len(Chains(fat)[0]) = 0 /\ Own(fat, 0) = {}
  BY <1>4, ChainLen, OwnUnfold DEF FatInv
<1>6. Building(fat, o)
  BY <1>3, <1>5 DEF Building
<1>7. Typed'
  BY <1>1, <1>2 DEF FatInv, Typed, OpType
<1> QED
  BY <1>1, <1>6, <1>7 DEF FatInv

LEMMA FatWriteFails == FatInv /\ WriteFails => FatInv'
<1> SUFFICES ASSUME FatInv, WriteFails PROVE FatInv'
  OBVIOUS
<1>1. op' = Idle /\ UNCHANGED <<fat, disk, cwd, written, torn>> /\ lost' = lost \cup InFlight
  BY DEF WriteFails, Continue
<1>2. Typed'
  BY <1>1, InFlightClusters, IdleFacts DEF FatInv, Typed
<1> QED
  BY <1>1, <1>2, FatEnds

LEMMA FatWriteFirst == FatInv /\ WriteFirst => FatInv'
<1> SUFFICES ASSUME FatInv, WriteFirst PROVE FatInv'
  OBVIOUS
<1>1. CASE FreeClusters = {}
  BY <1>1, FatWriteFails DEF WriteFirst
<1>2. CASE FreeClusters # {}
  <2> DEFINE c == find_free_cluster
  <2> DEFINE o == [op EXCEPT !.pc = "data", !.first = c, !.cur = c, !.s = 0]
  <2>1. /\ op.pc = "alloc" /\ op.i = 0 /\ op.i < Needed(op.size)
        /\ fat' = With(fat, c, EOC) /\ op' = o
        /\ UNCHANGED <<disk, cwd, written, torn, lost>>
    BY <1>2 DEF WriteFirst, set_next_cluster, Continue, With
  <2>2. c \in Clusters /\ fat[c] = FREE
    BY <1>2, FindFree
  <2>3. op \in WriteOp
    BY <2>1, OpKinds DEF FatInv, Typed
  <2> HIDE DEF c
  <2>4. o \in WriteOp /\ o.pc = "data" /\ o.first = c /\ o.cur = c /\ o.i = 0 /\ o.size = op.size
    BY <2>1, <2>2, <2>3, Geometry DEF WriteOp
  <2> HIDE DEF o
  <2>5. EOC \in Links \ Clusters
    BY ClusterFacts DEF Valid
  <2>6. Linked(fat') /\ fat'[c] = EOC
    BY <2>1, <2>2, <2>5, CutLinked DEF FatInv, Linked, FatType, With
  <2>7. Own(fat', c) = {c} /\ Len(Chains(fat')[c]) = 1
    <3>1. Own(fat', c) = {c} \cup Own(fat', EOC) /\ Own(fat', EOC) = {}
      BY <2>2, <2>5, <2>6, OwnUnfold
    <3>2. Len(Chains(fat')[c]) = 1 + Len(Chains(fat')[EOC]) /\ Len(Chains(fat')[EOC]) = 0
      BY <2>2, <2>5, <2>6, ChainLen
    <3> QED
      BY <3>1, <3>2
  <2>8. Building(fat', o)
    <3>1. o.i < Needed(o.size)
      BY <2>1, <2>4, Zenon
    <3>2. EOC # FREE
      BY ClusterFacts
    <3>3. o.cur \in Own(fat', o.first) /\ fat'[o.cur] = EOC /\ Len(Chains(fat')[o.first]) = o.i + 1
      BY <2>4, <2>6, <2>7
    <3>4. \A x \in Own(fat', o.first) : fat'[x] # FREE
      BY <3>2, <2>4, <2>6, <2>7
    <3> QED
      BY <3>1, <3>3, <3>4, <2>4 DEF Building
  <2>9. Typed'
    BY <2>1, <2>4 DEF FatInv, Typed, OpType
  <2> QED
    BY <2>1, <2>6, <2>8, <2>9 DEF FatInv
<1> QED
  BY <1>1, <1>2

LEMMA FatWriteLink == FatInv /\ WriteLink => FatInv'
<1> SUFFICES ASSUME FatInv, WriteLink PROVE FatInv'
  OBVIOUS
<1>1. CASE FreeClusters = {}
  BY <1>1, FatWriteFails DEF WriteLink
<1>2. CASE FreeClusters # {}
  <2> DEFINE c == find_free_cluster
  <2> DEFINE o == [op EXCEPT !.pc = "mark", !.cur = c]
  <2>1. /\ op.pc = "alloc" /\ op.i > 0 /\ op.i < Needed(op.size)
        /\ fat' = With(fat, op.prev, c) /\ op' = o
        /\ UNCHANGED <<disk, cwd, written, torn, lost>>
    BY <1>2 DEF WriteLink, set_next_cluster, Continue, With
  <2>2. c \in Clusters /\ fat[c] = FREE
    BY <1>2, FindFree
  <2>3. op \in WriteOp /\ Linked(fat)
    BY <2>1, OpKinds DEF FatInv, Typed
  <2> HIDE DEF c
  <2>4. /\ o \in WriteOp /\ o.pc = "mark" /\ o.first = op.first /\ o.cur = c
        /\ o.i = op.i /\ o.size = op.size /\ op.first \in Links
    BY <2>1, <2>2, <2>3 DEF WriteOp, Links, FREE
  <2> HIDE DEF o
  <2>5. /\ op.prev \in Own(fat, op.first) /\ fat[op.prev] = EOC
        /\ Len(Chains(fat)[op.first]) = op.i
        /\ \A x \in Own(fat, op.first) : fat[x] # FREE
    BY <2>1 DEF FatInv, Building
  <2>6. op.prev \in Clusters /\ c # op.prev
    BY <2>2, <2>3, <2>4, <2>5, OwnUnfold, ClusterFacts
  <2>7. fat[c] \notin Clusters /\ fat[op.prev] \notin Clusters
    BY <2>2, <2>5, ClusterFacts DEF Valid
  <2>8. Linked(fat')
    BY <2>1, <2>2, <2>3, <2>6, <2>7, LinkLinked
  <2>9. /\ Own(fat', op.first) = Own(fat, op.first) \cup {c}
        /\ Len(Chains(fat')[op.first]) = Len(Chains(fat)[op.first]) + 1
    BY <2>1, <2>2, <2>3, <2>4, <2>5, <2>6, <2>7, LinkChains
  <2>10. fat'[c] = FREE /\ fat'[op.prev] = c /\ \A x \in Clusters : x # op.prev => fat'[x] = fat[x]
    BY <2>1, <2>2, <2>3, <2>6 DEF Linked, FatType, With
  <2>11. \A x \in Own(fat', op.first) : x # c => fat'[x] # FREE
    BY <2>2, <2>3, <2>4, <2>5, <2>9, <2>10, OwnUnfold, ClusterFacts DEF Valid
  <2>12. Building(fat', o)
    BY <2>1, <2>4, <2>5, <2>9, <2>10, <2>11 DEF Building
  <2>13. Typed'
    BY <2>1, <2>4 DEF FatInv, Typed, OpType
  <2> QED
    BY <2>1, <2>8, <2>12, <2>13 DEF FatInv
<1> QED
  BY <1>1, <1>2

LEMMA FatWriteMark == FatInv /\ WriteMark => FatInv'
<1> SUFFICES ASSUME FatInv, WriteMark PROVE FatInv'
  OBVIOUS
<1> DEFINE o == [op EXCEPT !.pc = "data", !.s = 0]
<1>1. /\ op.pc = "mark" /\ fat' = With(fat, op.cur, EOC) /\ op' = o
      /\ UNCHANGED <<disk, cwd, written, torn, lost>>
  BY DEF WriteMark, set_next_cluster, Continue, With, ghosts
<1>2. op \in WriteOp /\ Linked(fat)
  BY <1>1, OpKinds DEF FatInv, Typed
<1>3. /\ o \in WriteOp /\ o.pc = "data" /\ o.first = op.first /\ o.cur = op.cur
      /\ o.i = op.i /\ o.size = op.size /\ op.first \in Links
  BY <1>2, Geometry DEF WriteOp, Links, FREE
<1> HIDE DEF o
<1>4. /\ op.i < Needed(op.size) /\ op.cur \in Own(fat, op.first) /\ fat[op.cur] = FREE
      /\ Len(Chains(fat)[op.first]) = op.i + 1
      /\ \A c \in Own(fat, op.first) : c # op.cur => fat[c] # FREE
  BY <1>1 DEF FatInv, Building
<1>5. op.cur \in Clusters /\ fat[op.cur] \notin Clusters /\ EOC \in Links \ Clusters /\ EOC # FREE
  BY <1>2, <1>3, <1>4, OwnUnfold, ClusterFacts DEF Valid
<1>6. Linked(fat') /\ Chains(fat')[op.first] = Chains(fat)[op.first]
  BY <1>1, <1>2, <1>3, <1>5, CutLinked, CutChains
<1>7. fat'[op.cur] = EOC /\ \A x \in Clusters : x # op.cur => fat'[x] = fat[x]
  BY <1>1, <1>2, <1>5 DEF Linked, FatType, With
<1>8. Own(fat', op.first) = Own(fat, op.first) /\ Own(fat, op.first) \subseteq Clusters
  BY <1>6, <1>2, <1>3, OwnUnfold DEF Own
<1>9. Building(fat', o)
  BY <1>3, <1>4, <1>5, <1>6, <1>7, <1>8 DEF Building
<1>10. Typed'
  BY <1>1, <1>3 DEF FatInv, Typed, OpType
<1> QED
  BY <1>1, <1>6, <1>9, <1>10 DEF FatInv

LEMMA ChunkCell ==
  ASSUME op \in WriteOp
  PROVE  \A k \in CellIndex : Chunk(ChunkOffset(op.i, op.s), k) \in Cell
<1> SUFFICES ASSUME NEW k \in CellIndex PROVE Chunk(ChunkOffset(op.i, op.s), k) \in Cell
  OBVIOUS
<1> DEFINE a == ChunkOffset(op.i, op.s) + (k % EntriesPerSector)
<1>1. op.i \in Nat /\ op.s \in Nat /\ op.text \in Texts /\ k \in Nat /\ EntriesPerSector \in Nat \ {0}
      /\ CellsPerCluster \in Nat
  BY Geometry DEF WriteOp, SectorIndex, CellIndex
<1>2. op.i * CellsPerCluster \in Nat /\ op.s * EntriesPerSector \in Nat /\ k % EntriesPerSector \in Nat
  BY <1>1, DivMod
<1>3. a \in Nat
  BY <1>2 DEF ChunkOffset
<1>4. Chunk(ChunkOffset(op.i, op.s), k) = IF a < op.size THEN Text(op.text, a) ELSE Zero
  BY DEF Chunk
<1> HIDE DEF a
<1> QED
  BY <1>1, <1>3, <1>4, TextCell, CellTags

LEMMA FatWriteData == FatInv /\ WriteData => FatInv'
<1> SUFFICES ASSUME FatInv, WriteData PROVE FatInv'
  OBVIOUS
<1>1. /\ op.pc = "data" /\ fat' = fat /\ UNCHANGED <<cwd, written, torn, lost>>
      /\ disk_write(op.cur, op.s, [k \in CellIndex |-> Chunk(ChunkOffset(op.i, op.s), k)])
  BY DEF WriteData, Continue, ghosts
<1>2. op \in WriteOp /\ Linked(fat) /\ IsDisk(disk) /\ op.first \in Links
  BY <1>1, OpKinds DEF FatInv, Typed, WriteOp, Links, FREE
<1>3. /\ op.i < Needed(op.size) /\ op.cur \in Own(fat, op.first) /\ fat[op.cur] = EOC
      /\ Len(Chains(fat)[op.first]) = op.i + 1
      /\ \A c \in Own(fat, op.first) : fat[c] # FREE
  BY <1>1 DEF FatInv, Building
<1>4. op.cur \in Clusters
  BY <1>2, <1>3, OwnUnfold
<1>5. IsDisk(disk')
  <2> DEFINE cells == [k \in CellIndex |-> Chunk(ChunkOffset(op.i, op.s), k)]
  <2>1. \A k \in CellIndex : cells[k] \in Cell
    BY <1>2, ChunkCell
  <2>2. disk' = PutSector(disk, op.cur, op.s, cells)
    BY <1>1 DEF disk_write, PutSector
  <2> HIDE DEF cells
  <2> QED
    BY <2>1, <2>2, <1>2, <1>4, SectorFacts
<1>6. CASE op.s + 1 \in SectorIndex /\ ChunkOffset(op.i, op.s + 1) < op.size
  <2> DEFINE o == [op EXCEPT !.s = @ + 1]
  <2>1. op' = o
    BY <1>6 DEF WriteData, Continue
  <2>2. /\ o \in WriteOp /\ o.pc = "data" /\ o.first = op.first /\ o.cur = op.cur
        /\ o.i = op.i /\ o.size = op.size
    BY <1>1, <1>2, <1>6 DEF WriteOp
  <2> HIDE DEF o
  <2>3. Building(fat, o)
    BY <2>2, <1>3 DEF Building
  <2>4. Typed'
    BY <1>1, <1>5, <2>1, <2>2 DEF FatInv, Typed, OpType
  <2> QED
    BY <1>1, <2>1, <2>3, <2>4 DEF FatInv
<1>7. CASE ~(op.s + 1 \in SectorIndex /\ ChunkOffset(op.i, op.s + 1) < op.size)
  <2> DEFINE o == [op EXCEPT !.pc = "alloc", !.i = @ + 1, !.prev = op.cur]
  <2>1. op' = o
    BY <1>7 DEF WriteData, Continue
  <2>2. /\ o \in WriteOp /\ o.pc = "alloc" /\ o.first = op.first /\ o.prev = op.cur
        /\ o.i = op.i + 1 /\ o.size = op.size /\ op.i \in Nat /\ op.size \in Nat
    <3>1. op.size \in Nat
      BY <1>2, Fat32Assumption DEF WriteOp
    <3>2. op.i \in Nat /\ op.i + 1 \in Nat
      BY <1>2 DEF WriteOp
    <3> QED
      BY <1>1, <1>2, <1>4, <3>1, <3>2 DEF WriteOp
  <2> HIDE DEF o
  <2>3. Needed(op.size) \in Nat
    BY <2>2, NeededFacts
  <2>4. o.i <= Needed(o.size) /\ o.i > 0
    BY <1>3, <2>2, <2>3
  <2>5. Building(fat, o)
    BY <2>2, <2>4, <1>3 DEF Building
  <2>6. Typed'
    BY <1>1, <1>5, <2>1, <2>2 DEF FatInv, Typed, OpType
  <2> QED
    BY <1>1, <2>1, <2>5, <2>6 DEF FatInv
<1> QED
  BY <1>6, <1>7

LEMMA FatWriteEntry == FatInv /\ WriteEntry => FatInv'
<1> SUFFICES ASSUME FatInv, WriteEntry PROVE FatInv'
  OBVIOUS
<1> DEFINE loc == free_slot(Chain(cwd))
<1>1. CASE loc = NoLoc
  BY <1>1, FatWriteFails DEF WriteEntry
<1>2. CASE loc # NoLoc
  <2> DEFINE x == Entry(op.name, "file", op.first, op.size)
  <2>1. /\ op.pc = "alloc" /\ op' = Idle /\ disk' = Put(disk, loc, x)
        /\ UNCHANGED <<fat, cwd, torn, lost>>
        /\ DOMAIN written' = DOMAIN written \cup {loc}
    BY <1>2 DEF WriteEntry, put_entry, Put, Continue
  <2>2. Chain(cwd) \in Seq(Clusters)
    BY ChainLen, ClusterFacts DEF FatInv, Typed, Chain
  <2>3. loc \in Range(Chain(cwd)) \X CellIndex
    BY <1>2, <2>2, FreeSlot
  <2>4. loc \in Clusters \X CellIndex
    BY <2>2, <2>3 DEF Range
  <2>5. op \in WriteOp
    BY <2>1, OpKinds DEF FatInv, Typed
  <2>6. op.name \in FileNames /\ op.first \in Clusters \cup {0} /\ op.size \in Nat
    BY <2>5, Fat32Assumption DEF WriteOp
  <2>7. x \in Cell
    BY <2>6, FileEntry
  <2> HIDE DEF loc, x
  <2>8. IsDisk(disk')
    BY <2>1, <2>4, <2>7, PutFacts DEF FatInv, Typed
  <2>9. Typed'
    BY <2>1, <2>4, <2>8, IdleFacts DEF FatInv, Typed
  <2> QED
    BY <2>1, <2>9, FatEnds
<1> QED
  BY <1>1, <1>2

LEMMA FatMkdir ==
  ASSUME NEW n \in DirNames, FatInv, create_directory(n)
  PROVE  FatInv'
<1>1. CASE op = Idle /\ UNCHANGED vars
  BY <1>1, FatStutter
<1>2. CASE ~(op = Idle /\ UNCHANGED vars)
  <2> DEFINE c == find_free_cluster
  <2> DEFINE o == [pc |-> "init", name |-> n, cur |-> c, s |-> 0]
  <2>1. /\ FreeClusters # {} /\ op' = o /\ fat' = With(fat, c, EOC)
        /\ UNCHANGED <<disk, cwd, written, torn, lost>>
    BY <1>2 DEF create_directory, Begin, set_next_cluster, With
  <2>2. c \in Clusters /\ fat[c] = FREE
    BY <2>1, FindFree
  <2> HIDE DEF c
  <2>3. o \in MkdirOp /\ o.pc = "init" /\ o.cur = c
    BY <2>2, Geometry DEF MkdirOp
  <2> HIDE DEF o
  <2>5. EOC \in Links \ Clusters
    BY ClusterFacts DEF Valid
  <2>6. Linked(fat') /\ fat'[c] = EOC
    BY <2>1, <2>2, <2>5, CutLinked DEF FatInv, Linked, FatType, With
  <2>8. Building(fat', o)
    BY <2>3, <2>6 DEF Building
  <2>9. Typed'
    BY <2>1, <2>3 DEF FatInv, Typed, OpType
  <2> QED
    BY <2>1, <2>6, <2>8, <2>9 DEF FatInv
<1> QED
  BY <1>1, <1>2

LEMMA DotsCells ==
  ASSUME NEW c \in Clusters, NEW p \in Clusters
  PROVE  \A k \in CellIndex : Dots(c, p)[k] \in Cell
<1> DEFINE z == IF p = Root THEN 0 ELSE p
<1>1. Entry(Dot, "dir", c, 0) \in Cell /\ Entry(DotDot, "dir", z, 0) \in Cell
  BY DotsEntry
<1>2. \A k \in CellIndex : Dots(c, p)[k] = CASE k = 0 -> Entry(Dot, "dir", c, 0)
                                            [] k = 1 -> Entry(DotDot, "dir", z, 0)
                                            [] OTHER -> Zero
  BY DEF Dots
<1> HIDE DEF z
<1>3. Zero \in Cell
  BY CellTags
<1> QED
  BY <1>1, <1>2, <1>3

LEMMA FatMkdirInit == FatInv /\ MkdirInit => FatInv'
<1> SUFFICES ASSUME FatInv, MkdirInit PROVE FatInv'
  OBVIOUS
<1>1. /\ op.pc = "init" /\ fat' = fat /\ UNCHANGED <<cwd, written, torn, lost>>
      /\ disk' = PutSector(disk, op.cur, op.s, Dots(op.cur, cwd))
  BY DEF MkdirInit, Continue, ghosts, disk_write, PutSector
<1>2. op \in MkdirOp /\ Linked(fat) /\ IsDisk(disk) /\ op.cur \in Clusters /\ cwd \in Clusters
  BY <1>1, OpKinds DEF FatInv, Typed, MkdirOp
<1>3. fat[op.cur] = EOC
  BY <1>1 DEF FatInv, Building
<1>4. IsDisk(disk')
  BY <1>1, <1>2, DotsCells, SectorFacts
<1>5. op' \in MkdirOp /\ op'.cur = op.cur /\ op'.pc \in {"init", "slot"}
  <2>1. CASE op.s + 1 \in SectorIndex
    <3>1. op' = [op EXCEPT !.s = @ + 1]
      BY <2>1 DEF MkdirInit, Continue
    <3> QED
      BY <1>1, <1>2, <2>1, <3>1 DEF MkdirOp
  <2>2. CASE op.s + 1 \notin SectorIndex
    <3>1. op' = [op EXCEPT !.pc = "slot"]
      BY <2>2 DEF MkdirInit, Continue
    <3> QED
      BY <1>1, <1>2, <3>1 DEF MkdirOp
  <2> QED
    BY <2>1, <2>2
<1>6. Building(fat, op')
  BY <1>3, <1>5 DEF Building
<1>7. Typed'
  BY <1>1, <1>4, <1>5 DEF FatInv, Typed, OpType
<1> QED
  BY <1>1, <1>6, <1>7 DEF FatInv

LEMMA FatMkdirEntry == FatInv /\ MkdirEntry => FatInv'
<1> SUFFICES ASSUME FatInv, MkdirEntry PROVE FatInv'
  OBVIOUS
<1> DEFINE loc == free_slot(<<cwd>>)
<1> DEFINE x == Entry(op.name, "dir", op.cur, 0)
<1>1. /\ op.pc = "slot" /\ loc # NoLoc /\ op' = Idle /\ disk' = Put(disk, loc, x)
      /\ UNCHANGED <<fat, cwd, written, torn, lost>>
  BY DEF MkdirEntry, put_entry, Put, Continue, ghosts
<1>2. <<cwd>> \in Seq(Clusters) /\ Range(<<cwd>>) \subseteq Clusters
  BY DEF FatInv, Typed, Range
<1>3. loc \in Range(<<cwd>>) \X CellIndex
  BY <1>1, <1>2, FreeSlot
<1>4. loc \in Clusters \X CellIndex
  BY <1>2, <1>3
<1>5. op \in MkdirOp
  BY <1>1, OpKinds DEF FatInv, Typed
<1>6. x \in Cell
  BY <1>5, DirEntry DEF MkdirOp
<1> HIDE DEF loc, x
<1>7. IsDisk(disk')
  BY <1>1, <1>4, <1>6, PutFacts DEF FatInv, Typed
<1>8. Typed'
  BY <1>1, <1>7, IdleFacts DEF FatInv, Typed
<1> QED
  BY <1>1, <1>8, FatEnds

LEMMA AtCell ==
  ASSUME Typed, NEW l \in Clusters \X CellIndex
  PROVE  At(l) \in Cell /\ At(l) = CellAt(disk, l)
  BY DEF Typed, IsDisk, At, CellAt

LEMMA FatBeginRemoval ==
  ASSUME FatInv, NEW n, BeginRemoval(find_file(cwd, n)), find_file(cwd, n) # NoLoc
  PROVE  FatInv'
<1> DEFINE loc == find_file(cwd, n)
<1> DEFINE o == [pc |-> "free", loc |-> loc, cur |-> At(loc).first]
<1>1. op' = o /\ UNCHANGED <<fat, disk, cwd, written, torn, lost>>
  BY DEF BeginRemoval, Begin, ghosts
<1>2. loc \in ChainSet(cwd) \X CellIndex /\ Named(At(loc), n)
  BY FindFile DEF FatInv, Typed
<1>3. loc \in Clusters \X CellIndex
  BY <1>2, OwnUnfold, ClusterFacts DEF FatInv, Typed, ChainSet
<1>4. At(loc).first \in Clusters \cup {0}
  BY <1>2, <1>3, AtCell, EntryFacts DEF FatInv, Named
<1>5. o \in RemoveOp /\ o.pc = "free"
  BY <1>3, <1>4 DEF RemoveOp, Links, FREE
<1> HIDE DEF o
<1>6. Building(fat, o)
  BY <1>5 DEF Building
<1>7. Typed'
  BY <1>1, <1>5 DEF FatInv, Typed, OpType
<1> QED
  BY <1>1, <1>6, <1>7 DEF FatInv

LEMMA FatDelete ==
  ASSUME NEW n \in FileNames, FatInv, delete_file(n)
  PROVE  FatInv'
<1>1. CASE op = Idle /\ UNCHANGED vars
  BY <1>1, FatStutter
<1>2. CASE ~(op = Idle /\ UNCHANGED vars)
  <2>1. find_file(cwd, n) # NoLoc /\ BeginRemoval(find_file(cwd, n))
    BY <1>2 DEF delete_file
  <2> QED
    BY <2>1, FatBeginRemoval
<1> QED
  BY <1>1, <1>2

LEMMA FatRmdir ==
  ASSUME NEW n \in RmdirNames, FatInv, rmdir(n)
  PROVE  FatInv'
<1>1. CASE op = Idle /\ UNCHANGED vars
  BY <1>1, FatStutter
<1>2. CASE ~(op = Idle /\ UNCHANGED vars)
  <2>1. find_file(cwd, n) # NoLoc /\ BeginRemoval(find_file(cwd, n))
    BY <1>2 DEF rmdir, MayRmdir
  <2> QED
    BY <2>1, FatBeginRemoval
<1> QED
  BY <1>1, <1>2

LEMMA FatRemoveCluster == FatInv /\ RemoveCluster => FatInv'
<1> SUFFICES ASSUME FatInv, RemoveCluster PROVE FatInv'
  OBVIOUS
<1> DEFINE o == [op EXCEPT !.cur = fat[op.cur]]
<1>1. /\ op.pc = "free" /\ op.cur \in Clusters /\ fat' = With(fat, op.cur, FREE) /\ op' = o
      /\ UNCHANGED <<disk, cwd, written, torn, lost>>
  BY DEF RemoveCluster, set_next_cluster, Continue, ghosts, With, Valid
<1>2. op \in RemoveOp /\ Linked(fat) /\ fat[op.cur] \in Links
  BY <1>1, OpKinds DEF FatInv, Typed, Linked, FatType
<1>3. o \in RemoveOp /\ o.pc = "free"
  BY <1>1, <1>2 DEF RemoveOp
<1> HIDE DEF o
<1>4. FREE \in Links \ Clusters
  BY ClusterFacts DEF Valid
<1>5. Linked(fat')
  BY <1>1, <1>2, <1>4, CutLinked
<1>6. Building(fat', o)
  BY <1>3 DEF Building
<1>7. Typed'
  BY <1>1, <1>3 DEF FatInv, Typed, OpType
<1> QED
  BY <1>1, <1>5, <1>6, <1>7 DEF FatInv

LEMMA FatRemoveEntry == FatInv /\ RemoveEntry => FatInv'
<1> SUFFICES ASSUME FatInv, RemoveEntry PROVE FatInv'
  OBVIOUS
<1>1. /\ op.pc = "free" /\ disk' = Put(disk, op.loc, Gone) /\ op' = Idle
      /\ written' = Restrict(written, DOMAIN written \ {op.loc})
      /\ torn' = torn \ {op.loc} /\ UNCHANGED <<fat, cwd, lost>>
  BY DEF RemoveEntry, put_entry, Put, Continue
<1>2. op.loc \in Clusters \X CellIndex
  BY <1>1, OpKinds DEF FatInv, Typed, RemoveOp
<1>3. IsDisk(disk')
  BY <1>1, <1>2, PutFacts, CellTags DEF FatInv, Typed
<1>4. DOMAIN written' = DOMAIN written \ {op.loc}
  BY <1>1 DEF Restrict
<1>5. Typed'
  BY <1>1, <1>3, <1>4, IdleFacts DEF FatInv, Typed
<1> QED
  BY <1>1, <1>5, FatEnds

LEMMA AllWalled == FatInv => Walled(Clusters)
<1> SUFFICES ASSUME FatInv, NEW c \in Clusters, NEW n, find_dir(c, n) # NoLoc
             PROVE  RootIfZero(At(find_dir(c, n)).first) \in Clusters
  BY DEF Walled
<1> DEFINE loc == find_dir(c, n)
<1>1. loc \in ChainSet(c) \X CellIndex /\ Named(At(loc), n)
  BY FindDir DEF FatInv
<1>2. loc \in Clusters \X CellIndex
  BY <1>1, OwnUnfold, ClusterFacts DEF FatInv, ChainSet
<1>3. At(loc).first \in Clusters \cup {0}
  BY <1>1, <1>2, AtCell, EntryFacts DEF FatInv, Named
<1> QED
  BY <1>3, ClusterFacts DEF RootIfZero

LEMMA FatCd ==
  ASSUME NEW p \in Paths, FatInv, cd(p)
  PROVE  FatInv'
<1>1. CASE op = Idle /\ UNCHANGED vars
  BY <1>1, FatStutter
<1>2. CASE ~(op = Idle /\ UNCHANGED vars)
  <2> DEFINE c == get_path_cluster(cwd, p)
  <2>1. c # NotFound /\ op' = Idle /\ cwd' = c /\ UNCHANGED <<fat, disk, written, torn, lost>>
    BY <1>2 DEF cd, Begin, ghosts
  <2>2. c \in Clusters
    BY <2>1, AllWalled, PathStays, ClusterFacts DEF FatInv, Typed
  <2> HIDE DEF c
  <2>3. Typed'
    BY <2>1, <2>2, IdleFacts DEF FatInv, Typed
  <2> QED
    BY <2>1, <2>3, FatEnds
<1> QED
  BY <1>1, <1>2

LEMMA FatCrash == FatInv /\ Crash => FatInv'
<1> SUFFICES ASSUME FatInv, Crash PROVE FatInv'
  OBVIOUS
<1>1. op' = Idle /\ cwd' = Root /\ UNCHANGED <<fat, disk>>
  BY DEF Crash
<1>2. InFlight \subseteq Clusters
  BY InFlightClusters
<1>3. torn' \cup DOMAIN written' \subseteq Clusters \X CellIndex /\ lost' \subseteq Clusters
  <2>1. CASE op.pc = "free" /\ Untouched
    BY <2>1 DEF Crash, ghosts, FatInv, Typed
  <2>2. CASE op.pc = "free" /\ ~Untouched
    <3>1. op.loc \in Clusters \X CellIndex
      BY <2>2, OpKinds DEF FatInv, Typed, RemoveOp
    <3>2. /\ torn' = torn \cup {op.loc} /\ lost' = lost \cup InFlight
          /\ written' = Restrict(written, DOMAIN written \ {op.loc})
      BY <2>2 DEF Crash
    <3>3. DOMAIN written' = DOMAIN written \ {op.loc}
      BY <3>2 DEF Restrict
    <3> QED
      BY <3>1, <3>2, <3>3, <1>2 DEF FatInv, Typed
  <2>3. CASE op.pc # "free"
    <3>1. lost' = lost \cup InFlight /\ UNCHANGED <<written, torn>>
      BY <2>3 DEF Crash
    <3> QED
      BY <3>1, <1>2 DEF FatInv, Typed
  <2> QED
    BY <2>1, <2>2, <2>3
<1>4. Typed'
  BY <1>1, <1>3, IdleFacts, ClusterFacts DEF FatInv, Typed
<1> QED
  BY <1>1, <1>4, FatEnds

LEMMA FatNext == FatInv /\ [Next]_vars => FatInv'
<1> SUFFICES ASSUME FatInv, [Next]_vars PROVE FatInv'
  OBVIOUS
<1>1. CASE UNCHANGED vars
  BY <1>1, FatStutter
<1>2. CASE Command
  BY <1>2, FatWriteFile, FatDelete, FatMkdir, FatRmdir, FatCd, FatStutter DEF Command, Look
<1>3. CASE Step
  BY <1>3, FatWriteFirst, FatWriteLink, FatWriteMark, FatWriteData, FatWriteEntry, FatMkdirInit,
     FatMkdirEntry, FatRemoveCluster, FatRemoveEntry, FatStutter DEF Step, MkdirSpin
<1>4. CASE Crash
  BY <1>4, FatCrash
<1> QED
  BY <1>1, <1>2, <1>3, <1>4 DEF Next

LEMMA FatAlways == Spec => []FatInv
<1>1. Init => FatInv
  BY FatInit
<1>2. FatInv /\ [Next]_vars => FatInv'
  BY FatNext
<1> QED
  BY <1>1, <1>2, PTL DEF Spec

(* The FAT, the data area, the current directory and the locals of the     *)
(* running command stay within their types: the driver follows no link and *)
(* writes no entry outside the FAT and the data area.                      *)
THEOREM VolumeIsTyped == Spec => []TypeOK
<1>1. FatInv => TypeOK
  BY OpKinds DEF FatInv, Typed, TypeOK, Linked, FatType
<1> QED
  BY <1>1, FatAlways, PTL

(* No chain of the FAT loops, whatever is written, removed or cut short by *)
(* a power loss: every walk along fat32_next_cluster ends.                 *)
THEOREM ChainsEnd == Spec => []Acyclic
<1>1. FatInv => Acyclic
  <2> SUFFICES ASSUME FatInv, NEW c \in Clusters
               PROVE  /\ Len(Chain(c)) = Cardinality(ChainSet(c))
                      /\ ~Valid(fat[Last(Chain(c))])
    BY DEF Acyclic
  <2> QED
    BY ChainDistinct, ChainEnds DEF FatInv, Chain, ChainSet, Valid
<1> QED
  BY <1>1, FatAlways, PTL

-----------------------------------------------------------------------------
(* Sound volumes.                                                          *)

Vol(f, d, D, X, G) == Linked(f) /\ IsDisk(d) /\ Sound(f, d, D, X, G)

(* The entries in place.                                                   *)
Live(f, d, D, X) == Entries(f, d, D) \ X

(* The clusters a user's data is in.                                       *)
Used(f, G) == {c \in Clusters : f[c] # FREE /\ c \notin G}

LEMMA EntryCells ==
  ASSUME NEW f, NEW d, NEW D, NEW X, NEW G, Vol(f, d, D, X, G), NEW l \in Entries(f, d, D)
  PROVE  /\ l \in Clusters \X CellIndex /\ l[1] \in D \cup Own(f, Root) /\ l[2] \in CellIndex
         /\ CellAt(d, l) \in Cell /\ Proper(CellAt(d, l)) /\ CellAt(d, l).tag = "entry"
         /\ CellAt(d, l).first \in Links /\ CellAt(d, l).first \in Clusters \cup {0}
         /\ CellAt(d, l).attr \in {"file", "dir"}
         /\ IsDir(CellAt(d, l)) <=> CellAt(d, l).attr = "dir"
<1>1. l \in (D \cup Own(f, Root)) \X CellIndex /\ Proper(CellAt(d, l))
  BY DEF Entries
<1>2. D \subseteq Clusters /\ Own(f, Root) \subseteq Clusters
  BY OwnUnfold, ClusterFacts DEF Vol, Sound, DirsSound
<1>3. l \in Clusters \X CellIndex
  BY <1>1, <1>2
<1>4. CellAt(d, l) \in Cell
  BY <1>3 DEF Vol, IsDisk, CellAt
<1>5. CellAt(d, l).tag = "entry"
  BY <1>1 DEF Proper
<1>6. CellAt(d, l).first \in Clusters \cup {0} /\ CellAt(d, l).attr \in {"file", "dir"}
  BY <1>4, <1>5, EntryFacts
<1> QED
  BY <1>1, <1>3, <1>4, <1>5, <1>6 DEF Links, FREE, IsDir

LEMMA DirFacts ==
  ASSUME NEW f, NEW d, NEW D, NEW X, NEW G, Vol(f, d, D, X, G)
  PROVE  /\ Root \in D /\ D \subseteq Clusters /\ G \subseteq Clusters /\ Own(f, Root) \subseteq Clusters
         /\ Root \in Own(f, Root) /\ D \cup Own(f, Root) \subseteq Used(f, G)
         /\ \A c \in D \ {Root} : Own(f, c) = {c} /\ c \notin Own(f, Root) /\ f[c] = EOC
         /\ \A c \in G : f[c] # FREE
<1>1. DirsSound(f, D, G) /\ Linked(f)
  BY DEF Vol, Sound
<1>2. \A c \in Links : Own(f, c) \subseteq Clusters
  BY <1>1, OwnUnfold
<1>3. Root \in Clusters /\ Root \in Links /\ EOC \in Links \ Clusters
  BY ClusterFacts DEF Valid
<1>4. Root \in Own(f, Root)
  BY <1>1, <1>3, OwnUnfold
<1>5. ASSUME NEW c \in D \ {Root} PROVE Own(f, c) = {c}
  <2>1. c \in Clusters /\ f[c] = EOC
    BY <1>1 DEF DirsSound
  <2>2. Own(f, c) = {c} \cup Own(f, EOC) /\ Own(f, EOC) = {}
    BY <1>1, <1>3, <2>1, OwnUnfold
  <2> QED
    BY <2>2
<1>6. \A c \in G : f[c] # FREE
  <2> SUFFICES ASSUME NEW c \in G PROVE f[c] # FREE
    OBVIOUS
  <2>1. c \in Clusters
    BY <1>1 DEF DirsSound
  <2> QED
    BY <2>1 DEF Vol, Sound
<1> QED
  BY <1>1, <1>2, <1>3, <1>4, <1>5, <1>6 DEF DirsSound, Used

LEMMA LiveFacts ==
  ASSUME NEW f, NEW d, NEW D, NEW X, NEW G, Vol(f, d, D, X, G), NEW l \in Live(f, d, D, X)
  PROVE  /\ Own(f, CellAt(d, l).first) \subseteq Used(f, G) \ Own(f, Root)
         /\ Len(Chains(f)[CellAt(d, l).first])
              = IF CellAt(d, l).attr = "file" THEN Needed(CellAt(d, l).size) ELSE 1
         /\ CellAt(d, l).attr = "dir" => CellAt(d, l).first \in D \ {Root}
         /\ \A m \in Live(f, d, D, X) :
              m # l => Own(f, CellAt(d, l).first) \cap Own(f, CellAt(d, m).first) = {}
<1>1. l \in Entries(f, d, D) \ X
  BY DEF Live
<1>2. EntrySound(f, D, G, CellAt(d, l))
  BY <1>1 DEF Vol, Sound
<1>3. \A m \in Live(f, d, D, X) :
              m # l => Own(f, CellAt(d, l).first) \cap Own(f, CellAt(d, m).first) = {}
  BY <1>1 DEF Vol, Sound, Live
<1>4. Own(f, CellAt(d, l).first) \subseteq Clusters
  BY <1>1, EntryCells, OwnUnfold DEF Vol
<1> QED
  BY <1>2, <1>3, <1>4 DEF EntrySound, Used

(* The FAT changes, but not where data is; G, the clusters without an      *)
(* entry, becomes H.                                                       *)
LEMMA FatFrame ==
  ASSUME NEW f, NEW g, NEW d, NEW D, NEW X, NEW G, NEW H, Vol(f, d, D, X, G), Linked(g),
         \A c \in Used(f, G) : g[c] = f[c],
         Used(g, H) = Used(f, G), H \subseteq Clusters,
         \A c \in H : g[c] # FREE,
         \A x \in X : g[CellAt(d, x).first] = FREE
  PROVE  Vol(g, d, D, X, H)
<1>1. /\ Root \in D /\ D \subseteq Clusters /\ Own(f, Root) \subseteq Clusters
      /\ D \cup Own(f, Root) \subseteq Used(f, G)
      /\ \A c \in D \ {Root} : Own(f, c) = {c} /\ c \notin Own(f, Root) /\ f[c] = EOC
  BY DirFacts
<1>2. ASSUME NEW c \in Links, Own(f, c) \subseteq Used(f, G)
      PROVE  Chains(g)[c] = Chains(f)[c] /\ Own(g, c) = Own(f, c)
  <2>1. \A x \in Own(f, c) : g[x] = f[x]
    BY <1>2
  <2>2. Chains(g)[c] = Chains(f)[c]
    BY <2>1, ChainFrame DEF Vol
  <2> QED
    BY <2>2 DEF Own
<1>3. Root \in Links /\ D \subseteq Links
  BY <1>1, ClusterFacts
<1>4. Own(g, Root) = Own(f, Root)
  BY <1>1, <1>2, <1>3
<1>5. \A c \in D : Own(g, c) = Own(f, c)
  BY <1>1, <1>2, <1>3, <1>4
<1>6. Entries(g, d, D) = Entries(f, d, D)
  BY <1>4 DEF Entries
<1>7. ASSUME NEW l \in Entries(f, d, D) \ X
      PROVE  /\ Chains(g)[CellAt(d, l).first] = Chains(f)[CellAt(d, l).first]
             /\ Own(g, CellAt(d, l).first) = Own(f, CellAt(d, l).first)
  <2>1. Own(f, CellAt(d, l).first) \subseteq Used(f, G)
    BY <1>7, LiveFacts DEF Live
  <2>2. CellAt(d, l).first \in Links
    BY <1>7, EntryCells
  <2> QED
    BY <1>2, <2>1, <2>2
<1>8. DirsSound(g, D, H)
  <2>1. \A c \in D \cup Own(g, Root) : g[c] # FREE /\ c \notin H
    BY <1>1, <1>4 DEF Used
  <2>2. \A c \in D \ {Root} : g[c] = EOC /\ c \notin Own(g, Root)
    BY <1>1, <1>4
  <2> QED
    BY <1>1, <2>1, <2>2 DEF DirsSound
<1>9. ASSUME NEW l \in Entries(f, d, D) \ X PROVE EntrySound(g, D, H, CellAt(d, l))
  <2>1. Own(f, CellAt(d, l).first) \subseteq Used(g, H) \ Own(g, Root)
    BY <1>4, <1>9, LiveFacts DEF Live
  <2>2. EntrySound(f, D, G, CellAt(d, l))
    BY <1>9 DEF Vol, Sound
  <2> QED
    BY <2>1, <2>2, <1>7, <1>9 DEF EntrySound, Used
<1>10. \A a, b \in Entries(f, d, D) \ X :
         a # b => Own(g, CellAt(d, a).first) \cap Own(g, CellAt(d, b).first) = {}
  BY <1>7 DEF Vol, Sound
<1>11. TreeSound(g, d, D, X)
  <2>1. PICK up \in [D \ {Root} -> D] :
          /\ Ranked(up, D \ {Root})
          /\ \A c \in D \ {Root} :
               /\ \E loc \in Entries(f, d, D) \ X :
                    IsDir(CellAt(d, loc)) /\ CellAt(d, loc).first = c /\ loc[1] \in Own(f, up[c])
               /\ \A k \in CellIndex : IsDots(d[c][k]) => RootIfZero(d[c][k].first) \in {c, up[c]}
          /\ \A c \in Own(f, Root), k \in CellIndex : ~IsDots(d[c][k])
    BY DEF Vol, Sound, TreeSound
  <2>2. \A c \in D \ {Root} : Own(g, up[c]) = Own(f, up[c])
    BY <1>5, <2>1
  <2> QED
    BY <2>1, <2>2, <1>4, <1>6 DEF TreeSound
<1>12. ASSUME NEW x \in X PROVE TornSound(g, d, D, x)
  <2>1. TornSound(f, d, D, x)
    BY <1>12 DEF Vol, Sound
  <2>2. g[CellAt(d, x).first] = FREE
    BY <1>12
  <2> QED
    BY <2>1, <2>2, <1>5, <1>6 DEF TornSound
<1>13. ASSUME NEW c \in Clusters
       PROVE  g[c] # FREE <=> \/ c \in Own(g, Root) \cup H
                              \/ \E loc \in Entries(g, d, D) \ X : c \in Own(g, CellAt(d, loc).first)
  <2>1. f[c] # FREE <=> \/ c \in Own(f, Root) \cup G
                        \/ \E loc \in Entries(f, d, D) \ X : c \in Own(f, CellAt(d, loc).first)
    BY DEF Vol, Sound
  <2>2. (\E loc \in Entries(g, d, D) \ X : c \in Own(g, CellAt(d, loc).first))
        <=> (\E loc \in Entries(f, d, D) \ X : c \in Own(f, CellAt(d, loc).first))
    BY <1>6, <1>7
  <2>3. ASSUME NEW loc \in Entries(f, d, D) \ X, c \in Own(f, CellAt(d, loc).first)
        PROVE  c \in Used(f, G)
    BY <2>3, LiveFacts DEF Live
  <2> QED
    BY <2>1, <2>2, <2>3, <1>1, <1>4 DEF Used
<1> QED
  BY <1>6, <1>8, <1>9, <1>10, <1>11, <1>12, <1>13 DEF Vol, Sound

(* What a command may leave in such a directory.                           *)
Harmless(x) == ~IsDots(x) /\ (Proper(x) => x.attr = "file" /\ x.first = 0)

LEMMA TornFacts ==
  ASSUME NEW f, NEW d, NEW D, NEW X, NEW G, Vol(f, d, D, X, G), NEW x \in X
  PROVE  /\ x \in Entries(f, d, D) /\ CellAt(d, x).first \in Clusters
         /\ f[CellAt(d, x).first] = FREE
         /\ CellAt(d, x).first \notin D \cup Own(f, Root) \cup G
<1>1. TornSound(f, d, D, x)
  BY DEF Vol, Sound
<1>2. x \in Entries(f, d, D) /\ CellAt(d, x).first \in Clusters /\ f[CellAt(d, x).first] = FREE
  BY <1>1 DEF TornSound, Valid
<1>3. D \cup Own(f, Root) \subseteq Used(f, G) /\ \A c \in G : f[c] # FREE
  BY DirFacts
<1> QED
  BY <1>2, <1>3 DEF Used

LEMMA TornDirFacts ==
  ASSUME NEW f, NEW d, NEW D, NEW X, NEW G, Vol(f, d, D, X, G), NEW c \in TornDirs(d, X)
  PROVE  /\ c \in Clusters /\ f[c] = FREE /\ c \notin D \cup Own(f, Root) \cup G
         /\ Own(f, c) = {c}
<1>1. PICK x \in X : IsDir(CellAt(d, x)) /\ c = CellAt(d, x).first
  BY DEF TornDirs
<1>2. c \in Clusters /\ f[c] = FREE /\ c \notin D \cup Own(f, Root) \cup G
  BY <1>1, TornFacts
<1>3. FREE \in Links \ Clusters
  BY ClusterFacts DEF Valid
<1>4. Own(f, c) = {c} \cup Own(f, FREE) /\ Own(f, FREE) = {}
  BY <1>2, <1>3, OwnUnfold DEF Vol
<1> QED
  BY <1>2, <1>4

(* Data outside the directories changes.                                   *)
LEMMA DataFrame ==
  ASSUME NEW f, NEW d, NEW e, NEW D, NEW X, NEW G, Vol(f, d, D, X, G), IsDisk(e),
         \A b \in D \cup Own(f, Root) : \A k \in CellIndex : e[b][k] = d[b][k],
         \A b \in TornDirs(d, X) : \A k \in CellIndex : e[b][k] = d[b][k] \/ Harmless(e[b][k])
  PROVE  Vol(f, e, D, X, G)
<1>1. \A l \in (D \cup Own(f, Root)) \X CellIndex : CellAt(e, l) = CellAt(d, l)
  BY DEF CellAt
<1>2. Entries(f, e, D) = Entries(f, d, D)
  BY <1>1 DEF Entries
<1>3. \A l \in Entries(f, d, D) : CellAt(e, l) = CellAt(d, l)
  BY <1>1 DEF Entries
<1>4. TreeSound(f, e, D, X)
  <2>1. PICK up \in [D \ {Root} -> D] :
          /\ Ranked(up, D \ {Root})
          /\ \A c \in D \ {Root} :
               /\ \E loc \in Entries(f, d, D) \ X :
                    IsDir(CellAt(d, loc)) /\ CellAt(d, loc).first = c /\ loc[1] \in Own(f, up[c])
               /\ \A k \in CellIndex : IsDots(d[c][k]) => RootIfZero(d[c][k].first) \in {c, up[c]}
          /\ \A c \in Own(f, Root), k \in CellIndex : ~IsDots(d[c][k])
    BY DEF Vol, Sound, TreeSound
  <2>2. \A c \in D \ {Root} : \E loc \in Entries(f, e, D) \ X :
          IsDir(CellAt(e, loc)) /\ CellAt(e, loc).first = c /\ loc[1] \in Own(f, up[c])
    BY <2>1, <1>2, <1>3
  <2>3. \A c \in D \ {Root} : \A k \in CellIndex :
          IsDots(e[c][k]) => RootIfZero(e[c][k].first) \in {c, up[c]}
    BY <2>1
  <2>4. \A c \in Own(f, Root), k \in CellIndex : ~IsDots(e[c][k])
    BY <2>1
  <2> QED
    BY <2>1, <2>2, <2>3, <2>4 DEF TreeSound
<1>5. ASSUME NEW x \in X PROVE TornSound(f, e, D, x)
  <2>1. TornSound(f, d, D, x)
    BY <1>5 DEF Vol, Sound
  <2>2. x \in Entries(f, d, D) /\ CellAt(e, x) = CellAt(d, x)
    BY <1>3, <2>1 DEF TornSound
  <2>3. CellAt(d, x).attr = "dir" => CellAt(d, x).first \in TornDirs(d, X)
    BY <2>2, <1>5, EntryCells DEF TornDirs
  <2> QED
    BY <2>1, <2>2, <2>3, <1>2 DEF TornSound, Harmless
<1>6. \A l \in Entries(f, e, D) \ X : EntrySound(f, D, G, CellAt(e, l))
  BY <1>2, <1>3 DEF Vol, Sound
<1>7. \A a, b \in Entries(f, e, D) \ X :
         a # b => Own(f, CellAt(e, a).first) \cap Own(f, CellAt(e, b).first) = {}
  BY <1>2, <1>3 DEF Vol, Sound
<1>8. ASSUME NEW c \in Clusters
      PROVE  f[c] # FREE <=> \/ c \in Own(f, Root) \cup G
                             \/ \E loc \in Entries(f, e, D) \ X : c \in Own(f, CellAt(e, loc).first)
  <2>1. f[c] # FREE <=> \/ c \in Own(f, Root) \cup G
                        \/ \E loc \in Entries(f, d, D) \ X : c \in Own(f, CellAt(d, loc).first)
    BY DEF Vol, Sound
  <2>2. (\E loc \in Entries(f, e, D) \ X : c \in Own(f, CellAt(e, loc).first))
        <=> (\E loc \in Entries(f, d, D) \ X : c \in Own(f, CellAt(d, loc).first))
    BY <1>2, <1>3
  <2> QED
    BY <2>1, <2>2
<1> QED
  BY <1>4, <1>5, <1>6, <1>7, <1>8 DEF Vol, Sound

(* A file whose chain no entry accounted for gets its entry.               *)
LEMMA PutFile ==
  ASSUME NEW f, NEW d, NEW D, NEW X, NEW G, Vol(f, d, D, X, G),
         NEW l \in (D \cup Own(f, Root)) \X CellIndex, ~Proper(CellAt(d, l)), ~IsDots(CellAt(d, l)),
         NEW x \in Cell, Proper(x), x.attr = "file",
         Own(f, x.first) \subseteq G, Len(Chains(f)[x.first]) = Needed(x.size)
  PROVE  Vol(f, Put(d, l, x), D, X, G \ Own(f, x.first))
<1> DEFINE e == Put(d, l, x)
<1> DEFINE H == G \ Own(f, x.first)
<1>0. /\ Root \in D /\ D \subseteq Clusters /\ G \subseteq Clusters /\ Own(f, Root) \subseteq Clusters
      /\ D \cup Own(f, Root) \subseteq Used(f, G) /\ \A c \in G : f[c] # FREE
  BY DirFacts
<1>1. l \in Clusters \X CellIndex
  BY <1>0
<1>2. /\ IsDisk(e) /\ CellAt(e, l) = x
      /\ \A c \in Clusters, k \in CellIndex : <<c, k>> # l => e[c][k] = d[c][k]
      /\ \A m \in Clusters \X CellIndex : m # l => CellAt(e, m) = CellAt(d, m)
  BY <1>1, PutFacts DEF Vol
<1> HIDE DEF e
<1>3. l \notin Entries(f, d, D) /\ l \notin X
  BY TornFacts DEF Entries
<1>4. Entries(f, e, D) = Entries(f, d, D) \cup {l}
  <2>1. \A m \in (D \cup Own(f, Root)) \X CellIndex : m # l => CellAt(e, m) = CellAt(d, m)
    BY <1>0, <1>2
  <2> QED
    BY <1>2, <2>1 DEF Entries
<1>5. \A m \in Entries(f, d, D) : CellAt(e, m) = CellAt(d, m) /\ m # l
  BY <1>2, <1>3, EntryCells
<1>6. x.first \in Links /\ ~IsDots(x)
  BY EntryFacts DEF Proper, Links, FREE
<1>7. DirsSound(f, D, H)
  BY <1>0 DEF Vol, Sound, DirsSound
<1>8. ASSUME NEW m \in Entries(f, e, D) \ X PROVE EntrySound(f, D, H, CellAt(e, m))
  <2>1. CASE m = l
    BY <2>1, <1>0, <1>2 DEF EntrySound, Used
  <2>2. CASE m # l
    <3>1. m \in Entries(f, d, D) \ X /\ CellAt(e, m) = CellAt(d, m)
      BY <2>2, <1>4, <1>5, <1>8
    <3>2. EntrySound(f, D, G, CellAt(d, m))
      BY <3>1 DEF Vol, Sound
    <3> QED
      BY <3>1, <3>2 DEF EntrySound
  <2> QED
    BY <2>1, <2>2
<1>9. ASSUME NEW m \in Entries(f, d, D) \ X
      PROVE  Own(f, CellAt(e, m).first) \cap Own(f, x.first) = {}
  BY <1>5, <1>9, LiveFacts DEF Live, Used
<1>10. ASSUME NEW a \in Entries(f, e, D) \ X, NEW b \in Entries(f, e, D) \ X, a # b
       PROVE  Own(f, CellAt(e, a).first) \cap Own(f, CellAt(e, b).first) = {}
  <2>1. CASE a = l
    BY <2>1, <1>2, <1>4, <1>9, <1>10
  <2>2. CASE b = l
    BY <2>2, <1>2, <1>4, <1>9, <1>10
  <2>3. CASE a # l /\ b # l
    <3>1. a \in Entries(f, d, D) \ X /\ b \in Entries(f, d, D) \ X
      BY <2>3, <1>4, <1>10
    <3>2. CellAt(e, a) = CellAt(d, a) /\ CellAt(e, b) = CellAt(d, b)
      BY <3>1, <1>5
    <3> QED
      BY <3>1, <3>2, <1>10 DEF Vol, Sound
  <2> QED
    BY <2>1, <2>2, <2>3
<1>11. TreeSound(f, e, D, X)
  <2>1. PICK up \in [D \ {Root} -> D] :
          /\ Ranked(up, D \ {Root})
          /\ \A c \in D \ {Root} :
               /\ \E loc \in Entries(f, d, D) \ X :
                    IsDir(CellAt(d, loc)) /\ CellAt(d, loc).first = c /\ loc[1] \in Own(f, up[c])
               /\ \A k \in CellIndex : IsDots(d[c][k]) => RootIfZero(d[c][k].first) \in {c, up[c]}
          /\ \A c \in Own(f, Root), k \in CellIndex : ~IsDots(d[c][k])
    BY DEF Vol, Sound, TreeSound
  <2>2. \A c \in D \ {Root} : \E loc \in Entries(f, e, D) \ X :
          IsDir(CellAt(e, loc)) /\ CellAt(e, loc).first = c /\ loc[1] \in Own(f, up[c])
    BY <2>1, <1>4, <1>5
  <2>3. ASSUME NEW c \in Clusters, NEW k \in CellIndex, IsDots(e[c][k])
        PROVE  e[c][k] = d[c][k]
    <3>1. CASE <<c, k>> = l
      BY <3>1, <2>3, <1>2, <1>6 DEF CellAt
    <3>2. CASE <<c, k>> # l
      BY <3>2, <1>2
    <3> QED
      BY <3>1, <3>2
  <2>4. \A c \in D \ {Root} : \A k \in CellIndex :
          IsDots(e[c][k]) => RootIfZero(e[c][k].first) \in {c, up[c]}
    BY <2>1, <2>3, <1>0
  <2>5. \A c \in Own(f, Root), k \in CellIndex : ~IsDots(e[c][k])
    BY <2>1, <2>3, <1>0
  <2> QED
    BY <2>1, <2>2, <2>4, <2>5 DEF TreeSound
<1>12. ASSUME NEW y \in X PROVE TornSound(f, e, D, y)
  <2>1. TornSound(f, d, D, y)
    BY <1>12 DEF Vol, Sound
  <2>2. /\ y \in Entries(f, d, D) /\ CellAt(d, y).first \in Clusters
        /\ CellAt(d, y).first \notin D \cup Own(f, Root)
    BY <1>12, TornFacts
  <2>3. CellAt(e, y) = CellAt(d, y) /\ y \in Entries(f, e, D)
    BY <2>2, <1>4, <1>5
  <2>4. \A k \in CellIndex : e[CellAt(d, y).first][k] = d[CellAt(d, y).first][k]
    BY <2>2, <1>2
  <2> QED
    BY <2>1, <2>3, <2>4 DEF TornSound
<1>13. ASSUME NEW c \in Clusters
       PROVE  f[c] # FREE <=> \/ c \in Own(f, Root) \cup H
                              \/ \E loc \in Entries(f, e, D) \ X : c \in Own(f, CellAt(e, loc).first)
  <2>1. f[c] # FREE <=> \/ c \in Own(f, Root) \cup G
                        \/ \E loc \in Entries(f, d, D) \ X : c \in Own(f, CellAt(d, loc).first)
    BY DEF Vol, Sound
  <2>2. (\E loc \in Entries(f, e, D) \ X : c \in Own(f, CellAt(e, loc).first))
        <=> \/ c \in Own(f, x.first)
            \/ \E loc \in Entries(f, d, D) \ X : c \in Own(f, CellAt(d, loc).first)
    BY <1>2, <1>3, <1>4, <1>5
  <2> QED
    BY <2>1, <2>2
<1>14. Vol(f, e, D, X, H)
  BY <1>2, <1>7, <1>8, <1>10, <1>11, <1>12, <1>13 DEF Vol, Sound
<1> QED
  BY <1>14 DEF e

(* An entry is marked deleted: one whose removal had begun, or one that    *)
(* owns no cluster.                                                        *)
LEMMA PutGone ==
  ASSUME NEW f, NEW d, NEW D, NEW X, NEW G, Vol(f, d, D, X, G),
         NEW l \in Entries(f, d, D), l \in X \/ CellAt(d, l).first \notin Clusters
  PROVE  Vol(f, Put(d, l, Gone), D, X \ {l}, G)
<1> DEFINE e == Put(d, l, Gone)
<1> DEFINE Y == X \ {l}
<1>0. /\ Root \in D /\ D \subseteq Clusters /\ G \subseteq Clusters /\ Own(f, Root) \subseteq Clusters
      /\ D \cup Own(f, Root) \subseteq Used(f, G)
  BY DirFacts
<1>1. l \in Clusters \X CellIndex /\ CellAt(d, l).first \in Links
  BY EntryCells
<1>2. /\ IsDisk(e) /\ CellAt(e, l) = Gone
      /\ \A c \in Clusters, k \in CellIndex : <<c, k>> # l => e[c][k] = d[c][k]
      /\ \A m \in Clusters \X CellIndex : m # l => CellAt(e, m) = CellAt(d, m)
  BY <1>1, PutFacts, CellTags DEF Vol
<1> HIDE DEF e
<1>3. ~Proper(Gone) /\ ~IsDots(Gone)
  BY CellTags
<1>4. Entries(f, e, D) = Entries(f, d, D) \ {l}
  <2>1. \A m \in (D \cup Own(f, Root)) \X CellIndex : m # l => CellAt(e, m) = CellAt(d, m)
    BY <1>0, <1>2
  <2> QED
    BY <1>2, <1>3, <2>1 DEF Entries
<1>5. \A m \in Entries(f, e, D) : CellAt(e, m) = CellAt(d, m) /\ m # l /\ m \in Entries(f, d, D)
  BY <1>2, <1>4, EntryCells
<1>6. Entries(f, e, D) \ Y \subseteq Entries(f, d, D) \ X
  BY <1>4
<1>7. \A m \in Entries(f, e, D) \ Y : EntrySound(f, D, G, CellAt(e, m))
  BY <1>5, <1>6 DEF Vol, Sound
<1>8. ASSUME NEW a \in Entries(f, e, D) \ Y, NEW b \in Entries(f, e, D) \ Y, a # b
      PROVE  Own(f, CellAt(e, a).first) \cap Own(f, CellAt(e, b).first) = {}
  <2>1. a \in Entries(f, d, D) \ X /\ b \in Entries(f, d, D) \ X
    BY <1>6, <1>8
  <2>2. CellAt(e, a) = CellAt(d, a) /\ CellAt(e, b) = CellAt(d, b)
    BY <1>5, <1>8
  <2> QED
    BY <2>1, <2>2, <1>8 DEF Vol, Sound
<1>9. TreeSound(f, e, D, Y)
  <2>1. PICK up \in [D \ {Root} -> D] :
          /\ Ranked(up, D \ {Root})
          /\ \A c \in D \ {Root} :
               /\ \E loc \in Entries(f, d, D) \ X :
                    IsDir(CellAt(d, loc)) /\ CellAt(d, loc).first = c /\ loc[1] \in Own(f, up[c])
               /\ \A k \in CellIndex : IsDots(d[c][k]) => RootIfZero(d[c][k].first) \in {c, up[c]}
          /\ \A c \in Own(f, Root), k \in CellIndex : ~IsDots(d[c][k])
    BY DEF Vol, Sound, TreeSound
  <2>2. ASSUME NEW c \in D \ {Root} PROVE \E loc \in Entries(f, e, D) \ Y :
          IsDir(CellAt(e, loc)) /\ CellAt(e, loc).first = c /\ loc[1] \in Own(f, up[c])
    <3>1. PICK loc \in Entries(f, d, D) \ X :
            IsDir(CellAt(d, loc)) /\ CellAt(d, loc).first = c /\ loc[1] \in Own(f, up[c])
      BY <2>1, <2>2
    <3>2. loc # l
      BY <3>1, <2>2, <1>0
    <3>3. loc \in Entries(f, e, D) \ Y /\ CellAt(e, loc) = CellAt(d, loc)
      BY <3>1, <3>2, <1>4, <1>5
    <3> QED
      BY <3>1, <3>3
  <2>3. ASSUME NEW c \in Clusters, NEW k \in CellIndex, IsDots(e[c][k])
        PROVE  e[c][k] = d[c][k]
    <3>1. CASE <<c, k>> = l
      BY <3>1, <2>3, <1>2, <1>3 DEF CellAt
    <3>2. CASE <<c, k>> # l
      BY <3>2, <1>2
    <3> QED
      BY <3>1, <3>2
  <2>4. \A c \in D \ {Root} : \A k \in CellIndex :
          IsDots(e[c][k]) => RootIfZero(e[c][k].first) \in {c, up[c]}
    BY <2>1, <2>3, <1>0
  <2>5. \A c \in Own(f, Root), k \in CellIndex : ~IsDots(e[c][k])
    BY <2>1, <2>3, <1>0
  <2> QED
    BY <2>1, <2>2, <2>4, <2>5 DEF TreeSound
<1>10. ASSUME NEW y \in Y PROVE TornSound(f, e, D, y)
  <2>1. TornSound(f, d, D, y)
    BY <1>10 DEF Vol, Sound
  <2>2. /\ y \in Entries(f, d, D) /\ CellAt(d, y).first \in Clusters
        /\ CellAt(d, y).first \notin D \cup Own(f, Root)
    BY <1>10, TornFacts
  <2>3. y \in Entries(f, e, D) /\ CellAt(e, y) = CellAt(d, y)
    BY <2>2, <1>4, <1>5, <1>10
  <2>4. l[1] \in D \cup Own(f, Root)
    BY EntryCells
  <2>5. \A k \in CellIndex : e[CellAt(d, y).first][k] = d[CellAt(d, y).first][k]
    BY <2>2, <2>4, <1>2
  <2> QED
    BY <2>1, <2>3, <2>5 DEF TornSound
<1>11. ASSUME NEW c \in Clusters
       PROVE  f[c] # FREE <=> \/ c \in Own(f, Root) \cup G
                              \/ \E loc \in Entries(f, e, D) \ Y : c \in Own(f, CellAt(e, loc).first)
  <2>1. f[c] # FREE <=> \/ c \in Own(f, Root) \cup G
                        \/ \E loc \in Entries(f, d, D) \ X : c \in Own(f, CellAt(d, loc).first)
    BY DEF Vol, Sound
  <2>2. ASSUME NEW loc \in Entries(f, d, D) \ X, c \in Own(f, CellAt(d, loc).first)
        PROVE  loc \in Entries(f, e, D) \ Y /\ CellAt(e, loc) = CellAt(d, loc)
    <3>1. loc # l
      <4> SUFFICES ASSUME loc = l PROVE FALSE
        OBVIOUS
      <4>1. CellAt(d, l).first \in Links \ Clusters
        BY <2>2, <1>1
      <4>2. Own(f, CellAt(d, l).first) = {}
        BY <4>1, OwnUnfold DEF Vol
      <4> QED
        BY <4>2, <2>2
    <3> QED
      BY <3>1, <2>2, <1>4, <1>5
  <2>3. (\E loc \in Entries(f, e, D) \ Y : c \in Own(f, CellAt(e, loc).first))
        <=> (\E loc \in Entries(f, d, D) \ X : c \in Own(f, CellAt(d, loc).first))
    BY <2>2, <1>5, <1>6
  <2> QED
    BY <2>1, <2>3
<1>12. Vol(f, e, D, Y, G)
  <2>1. DirsSound(f, D, G) /\ Linked(f)
    BY DEF Vol, Sound
  <2> QED
    BY <1>2, <2>1, <1>7, <1>8, <1>9, <1>10, <1>11 DEF Vol, Sound
<1> QED
  BY <1>12 DEF e

LEMMA DotsAre ==
  ASSUME NEW c \in Clusters, NEW w \in Clusters, NEW k \in CellIndex
  PROVE  /\ ~Proper(Dots(c, w)[k])
         /\ IsDots(Dots(c, w)[k]) => RootIfZero(Dots(c, w)[k].first) \in {c, w}
<1> DEFINE z == IF w = Root THEN 0 ELSE w
<1> DEFINE a == Entry(Dot, "dir", c, 0)  b == Entry(DotDot, "dir", z, 0)
<1>1. ~Proper(a) /\ a.first = c /\ ~Proper(b) /\ b.first = z
  BY DotsEntry
<1>2. ~Proper(Zero) /\ ~IsDots(Zero)
  BY CellTags
<1>3. RootIfZero(c) = c /\ RootIfZero(z) = w
  BY ClusterFacts DEF RootIfZero
<1>4. Dots(c, w)[k] = CASE k = 0 -> a [] k = 1 -> b [] OTHER -> Zero
  BY DEF Dots
<1> HIDE DEF a, b, z
<1>5. Dots(c, w)[k] \in {a, b, Zero}
  BY <1>4
<1> QED
  BY <1>1, <1>2, <1>3, <1>5

(* A new directory gets its entry in its parent w.                         *)
LEMMA PutDir ==
  ASSUME NEW f, NEW d, NEW D, NEW G, Vol(f, d, D, {}, G),
         NEW w \in D, NEW l \in {w} \X CellIndex, ~Proper(CellAt(d, l)), ~IsDots(CellAt(d, l)),
         NEW c \in G, f[c] = EOC, \A k \in CellIndex : d[c][k] = Dots(c, w)[k],
         NEW n \in DirNames
  PROVE  Vol(f, Put(d, l, Entry(n, "dir", c, 0)), D \cup {c}, {}, G \ {c})
<1> DEFINE x == Entry(n, "dir", c, 0)
<1> DEFINE e == Put(d, l, x)
<1> DEFINE E == D \cup {c}
<1> DEFINE H == G \ {c}
<1>0. /\ Root \in D /\ D \subseteq Clusters /\ G \subseteq Clusters /\ Own(f, Root) \subseteq Clusters
      /\ D \cup Own(f, Root) \subseteq Used(f, G) /\ \A b \in G : f[b] # FREE
      /\ \A b \in D \ {Root} : Own(f, b) = {b} /\ b \notin Own(f, Root) /\ f[b] = EOC
      /\ Root \in Own(f, Root)
  BY DirFacts
<1>1. l \in Clusters \X CellIndex /\ c \in Clusters /\ w \in Clusters /\ l[1] = w
  BY <1>0
<1>2. x \in Cell /\ Proper(x) /\ ~IsDots(x) /\ IsDir(x) /\ x.first = c /\ x.attr = "dir"
  BY <1>1, DirEntry
<1> HIDE DEF x
<1>3. /\ IsDisk(e) /\ CellAt(e, l) = x
      /\ \A b \in Clusters, k \in CellIndex : <<b, k>> # l => e[b][k] = d[b][k]
      /\ \A m \in Clusters \X CellIndex : m # l => CellAt(e, m) = CellAt(d, m)
  BY <1>1, <1>2, PutFacts DEF Vol
<1> HIDE DEF e
<1>4. c \notin D \cup Own(f, Root) /\ c # w /\ c # Root /\ f[c] # FREE
  BY <1>0 DEF Used
<1>5. Own(f, c) = {c} /\ Len(Chains(f)[c]) = 1
  <2>1. EOC \in Links \ Clusters
    BY ClusterFacts DEF Valid
  <2>2. Own(f, c) = {c} \cup Own(f, EOC) /\ Own(f, EOC) = {}
    BY <1>1, <2>1, OwnUnfold DEF Vol
  <2>3. Len(Chains(f)[c]) = 1 + Len(Chains(f)[EOC]) /\ Len(Chains(f)[EOC]) = 0
    BY <1>1, <2>1, ChainLen DEF Vol
  <2> QED
    BY <2>2, <2>3
<1>6. \A k \in CellIndex : /\ e[c][k] = d[c][k] /\ ~Proper(e[c][k])
                           /\ IsDots(e[c][k]) => RootIfZero(e[c][k].first) \in {c, w}
  BY <1>1, <1>3, <1>4, DotsAre
<1>7. l \notin Entries(f, d, D)
  BY DEF Entries
<1>8. Entries(f, e, E) = Entries(f, d, D) \cup {l}
  <2>1. \A m \in (D \cup Own(f, Root)) \X CellIndex : m # l => CellAt(e, m) = CellAt(d, m)
    BY <1>0, <1>3
  <2>2. \A m \in {c} \X CellIndex : ~Proper(CellAt(e, m))
    BY <1>6 DEF CellAt
  <2>3. l \in (D \cup Own(f, Root)) \X CellIndex
    OBVIOUS
  <2> QED
    BY <1>2, <1>3, <2>1, <2>2, <2>3 DEF Entries
<1>9. \A m \in Entries(f, d, D) : CellAt(e, m) = CellAt(d, m) /\ m # l
  BY <1>3, <1>7, EntryCells
<1>10. DirsSound(f, E, H)
  BY <1>0, <1>1, <1>4 DEF DirsSound, Used
<1>11. ASSUME NEW m \in Entries(f, e, E) PROVE EntrySound(f, E, H, CellAt(e, m))
  <2>1. CASE m = l
    BY <2>1, <1>2, <1>3, <1>4, <1>5 DEF EntrySound
  <2>2. CASE m # l
    <3>1. m \in Entries(f, d, D) /\ CellAt(e, m) = CellAt(d, m)
      BY <2>2, <1>8, <1>9, <1>11
    <3>2. EntrySound(f, D, G, CellAt(d, m))
      BY <3>1 DEF Vol, Sound
    <3> QED
      BY <3>1, <3>2 DEF EntrySound
  <2> QED
    BY <2>1, <2>2
<1>12. ASSUME NEW m \in Entries(f, d, D) PROVE c \notin Own(f, CellAt(e, m).first)
  BY <1>9, <1>12, LiveFacts DEF Live, Used
<1>13. ASSUME NEW a \in Entries(f, e, E), NEW b \in Entries(f, e, E), a # b
       PROVE  Own(f, CellAt(e, a).first) \cap Own(f, CellAt(e, b).first) = {}
  <2>1. CASE a = l
    BY <2>1, <1>2, <1>3, <1>5, <1>8, <1>12, <1>13
  <2>2. CASE b = l
    BY <2>2, <1>2, <1>3, <1>5, <1>8, <1>12, <1>13
  <2>3. CASE a # l /\ b # l
    <3>1. a \in Entries(f, d, D) /\ b \in Entries(f, d, D)
      BY <2>3, <1>8, <1>13
    <3>2. CellAt(e, a) = CellAt(d, a) /\ CellAt(e, b) = CellAt(d, b)
      BY <3>1, <1>9
    <3> QED
      BY <3>1, <3>2, <1>13 DEF Vol, Sound
  <2> QED
    BY <2>1, <2>2, <2>3
<1>14. TreeSound(f, e, E, {})
  <2>1. PICK up \in [D \ {Root} -> D] :
          /\ Ranked(up, D \ {Root})
          /\ \A b \in D \ {Root} :
               /\ \E loc \in Entries(f, d, D) \ {} :
                    IsDir(CellAt(d, loc)) /\ CellAt(d, loc).first = b /\ loc[1] \in Own(f, up[b])
               /\ \A k \in CellIndex : IsDots(d[b][k]) => RootIfZero(d[b][k].first) \in {b, up[b]}
          /\ \A b \in Own(f, Root), k \in CellIndex : ~IsDots(d[b][k])
    BY DEF Vol, Sound, TreeSound
  <2> DEFINE vp == [b \in E \ {Root} |-> IF b = c THEN w ELSE up[b]]
  <2>2. vp \in [E \ {Root} -> E] /\ vp[c] = w /\ \A b \in D \ {Root} : vp[b] = up[b]
    BY <1>0, <1>4
  <2>3. PICK r \in [D \ {Root} -> 0 .. Cardinality(D \ {Root}) - 1] :
          \A b \in D \ {Root} : up[b] \in D \ {Root} => r[up[b]] < r[b]
    BY <2>1, Zenon DEF Ranked
  <2> DEFINE q == [b \in E \ {Root} |-> IF b = c THEN IF w = Root THEN 0 ELSE r[w] + 1 ELSE r[b]]
  <2>4. r \in [D \ {Root} -> Nat]
    BY <2>3
  <2>5. q \in [E \ {Root} -> Nat] /\ \A b \in D \ {Root} : q[b] = r[b]
    BY <2>4, <1>4
  <2>6. ASSUME NEW b \in E \ {Root}, vp[b] \in E \ {Root} PROVE q[vp[b]] < q[b]
    <3>1. CASE b = c
      <4>1. vp[b] = w /\ w \in D \ {Root} /\ q[w] = r[w] /\ q[c] = r[w] + 1 /\ r[w] \in Nat
        BY <3>1, <2>2, <2>4, <2>5, <2>6, <1>4
      <4> QED
        BY <4>1, <3>1
    <3>2. CASE b # c
      <4>1. b \in D \ {Root} /\ vp[b] = up[b] /\ up[b] \in D
        BY <3>2, <2>2, <2>1
      <4>2. up[b] \in D \ {Root}
        BY <4>1, <2>6
      <4>3. q[up[b]] = r[up[b]] /\ q[b] = r[b]
        BY <4>1, <4>2, <2>5
      <4> QED
        BY <4>1, <4>2, <4>3, <2>3
    <3> QED
      BY <3>1, <3>2
  <2>7. IsFiniteSet(E \ {Root})
    <3>1. E \ {Root} \in SUBSET Clusters
      BY <1>0, <1>1
    <3> QED
      BY <3>1, ClusterFacts, FS_Subset
  <2> HIDE DEF vp, q
  <2>8. Ranked(vp, E \ {Root})
    BY <2>5, <2>6, <2>7, RankFits
  <2>9. ASSUME NEW b \in E \ {Root} PROVE \E loc \in Entries(f, e, E) \ {} :
          IsDir(CellAt(e, loc)) /\ CellAt(e, loc).first = b /\ loc[1] \in Own(f, vp[b])
    <3>1. CASE b = c
      <4>1. w \in Own(f, w)
        BY <1>0
      <4>2. l \in Entries(f, e, E) /\ l[1] = w /\ vp[b] = w
        BY <3>1, <2>2, <1>1, <1>8
      <4>3. IsDir(CellAt(e, l)) /\ CellAt(e, l).first = b
        BY <3>1, <1>2, <1>3
      <4> QED
        BY <4>1, <4>2, <4>3
    <3>2. CASE b # c
      <4>1. b \in D \ {Root} /\ vp[b] = up[b]
        BY <3>2, <2>2, <2>9
      <4>2. PICK loc \in Entries(f, d, D) :
              IsDir(CellAt(d, loc)) /\ CellAt(d, loc).first = b /\ loc[1] \in Own(f, up[b])
        BY <4>1, <2>1
      <4>3. loc \in Entries(f, e, E) /\ CellAt(e, loc) = CellAt(d, loc)
        BY <4>2, <1>8, <1>9
      <4> QED
        BY <4>1, <4>2, <4>3
    <3> QED
      BY <3>1, <3>2
  <2>10. ASSUME NEW b \in Clusters, NEW k \in CellIndex, IsDots(e[b][k]) PROVE e[b][k] = d[b][k]
    <3>1. CASE <<b, k>> = l
      BY <3>1, <2>10, <1>2, <1>3 DEF CellAt
    <3>2. CASE <<b, k>> # l
      BY <3>2, <1>3
    <3> QED
      BY <3>1, <3>2
  <2>11. ASSUME NEW b \in E \ {Root}, NEW k \in CellIndex, IsDots(e[b][k])
         PROVE  RootIfZero(e[b][k].first) \in {b, vp[b]}
    <3>1. CASE b = c
      BY <3>1, <2>11, <1>6, <2>2
    <3>2. CASE b # c
      <4>1. b \in D \ {Root} /\ b \in Clusters /\ vp[b] = up[b]
        BY <3>2, <1>0, <2>2, <2>11
      <4>2. e[b][k] = d[b][k]
        BY <4>1, <2>10, <2>11
      <4> QED
        BY <4>1, <4>2, <2>1, <2>11
    <3> QED
      BY <3>1, <3>2
  <2>12. \A b \in Own(f, Root), k \in CellIndex : ~IsDots(e[b][k])
    BY <2>1, <2>10, <1>0
  <2> QED
    BY <2>2, <2>8, <2>9, <2>11, <2>12 DEF TreeSound
<1>15. ASSUME NEW b \in Clusters
       PROVE  f[b] # FREE <=> \/ b \in Own(f, Root) \cup H
                              \/ \E loc \in Entries(f, e, E) : b \in Own(f, CellAt(e, loc).first)
  <2>1. f[b] # FREE <=> \/ b \in Own(f, Root) \cup G
                        \/ \E loc \in Entries(f, d, D) : b \in Own(f, CellAt(d, loc).first)
    BY DEF Vol, Sound
  <2>2. (\E loc \in Entries(f, e, E) : b \in Own(f, CellAt(e, loc).first))
        <=> \/ b = c
            \/ \E loc \in Entries(f, d, D) : b \in Own(f, CellAt(d, loc).first)
    BY <1>2, <1>3, <1>5, <1>8, <1>9
  <2> QED
    BY <2>1, <2>2
<1>16. Vol(f, e, E, {}, H)
  BY <1>3, <1>10, <1>11, <1>13, <1>14, <1>15 DEF Vol, Sound
<1> QED
  BY <1>16 DEF e, x

(* The first cluster of an entry is freed: its removal has begun.  The     *)
(* rest of its chain belongs to no entry any more.                         *)
LEMMA FreeFirst ==
  ASSUME NEW f, NEW d, NEW D, NEW X, NEW G, Vol(f, d, D, X, G),
         NEW l \in Live(f, d, D, X), NEW c \in Clusters, c = CellAt(d, l).first,
         CellAt(d, l).attr = "dir" => \A k \in CellIndex : ~Proper(d[c][k])
  PROVE  /\ Vol(With(f, c, FREE), d, D \ {c}, X \cup {l}, G \cup Own(f, f[c]))
         /\ c \in D => CellAt(d, l).attr = "dir"
<1> DEFINE g == With(f, c, FREE)
<1> DEFINE E == D \ {c}
<1> DEFINE Y == X \cup {l}
<1> DEFINE H == G \cup Own(f, f[c])
<1>0. /\ Root \in D /\ D \subseteq Clusters /\ G \subseteq Clusters /\ Own(f, Root) \subseteq Clusters
      /\ D \cup Own(f, Root) \subseteq Used(f, G) /\ \A b \in G : f[b] # FREE
      /\ \A b \in D \ {Root} : Own(f, b) = {b} /\ b \notin Own(f, Root) /\ f[b] = EOC
      /\ Root \in Own(f, Root)
  BY DirFacts
<1>1. /\ Own(f, c) \subseteq Used(f, G) \ Own(f, Root)
      /\ CellAt(d, l).attr = "dir" => c \in D \ {Root}
      /\ \A m \in Live(f, d, D, X) : m # l => Own(f, c) \cap Own(f, CellAt(d, m).first) = {}
  BY LiveFacts
<1>2. Own(f, c) = {c} \cup Own(f, f[c]) /\ c \notin Own(f, f[c]) /\ f[c] \in Links
  BY OwnUnfold, NotAgain DEF Vol
<1>3. c \notin Own(f, Root) /\ c # Root /\ f[c] # FREE /\ c \notin G
  BY <1>0, <1>1, <1>2 DEF Used
<1>4. Linked(f) /\ Linked(g) /\ g[c] = FREE /\ \A b \in Clusters : b # c => g[b] = f[b]
  <2>1. FREE \in Links \ Clusters
    BY ClusterFacts DEF Valid
  <2>2. Linked(f)
    BY DEF Vol
  <2> QED
    BY <2>1, <2>2, CutLinked DEF Linked, FatType, With
<1> HIDE DEF g
<1>5. ASSUME NEW a \in Links, c \notin Own(f, a)
      PROVE  Chains(g)[a] = Chains(f)[a] /\ Own(g, a) = Own(f, a)
  <2>1. Own(f, a) \subseteq Clusters
    BY <1>4, OwnUnfold
  <2>2. \A x \in Own(f, a) : g[x] = f[x]
    BY <1>4, <1>5, <2>1
  <2>3. Chains(g)[a] = Chains(f)[a]
    BY <1>4, <2>2, ChainFrame
  <2> QED
    BY <2>3 DEF Own
<1>6. Own(g, Root) = Own(f, Root)
  BY <1>3, <1>5, ClusterFacts
<1>7. \A b \in E : Own(g, b) = Own(f, b)
  <2> SUFFICES ASSUME NEW b \in E PROVE Own(g, b) = Own(f, b)
    OBVIOUS
  <2>1. b \in Links /\ c \notin Own(f, b)
    BY <1>0, <1>3, ClusterFacts
  <2> QED
    BY <2>1, <1>5
<1>8. ASSUME NEW m \in Live(f, d, D, X), CellAt(d, m).first = c PROVE m = l
  BY <1>1, <1>2, <1>8
<1>9. PICK up \in [D \ {Root} -> D] :
        /\ Ranked(up, D \ {Root})
        /\ \A b \in D \ {Root} :
             /\ \E loc \in Entries(f, d, D) \ X :
                  IsDir(CellAt(d, loc)) /\ CellAt(d, loc).first = b /\ loc[1] \in Own(f, up[b])
             /\ \A k \in CellIndex : IsDots(d[b][k]) => RootIfZero(d[b][k].first) \in {b, up[b]}
        /\ \A b \in Own(f, Root), k \in CellIndex : ~IsDots(d[b][k])
  BY DEF Vol, Sound, TreeSound
<1>10. ASSUME c \in D
       PROVE  /\ \A k \in CellIndex : ~Proper(d[c][k])
              /\ IsDir(CellAt(d, l)) /\ l[1] \in Own(f, up[c])
  <2>1. PICK loc \in Entries(f, d, D) \ X :
          IsDir(CellAt(d, loc)) /\ CellAt(d, loc).first = c /\ loc[1] \in Own(f, up[c])
    BY <1>3, <1>9, <1>10
  <2>2. loc = l
    BY <2>1, <1>8 DEF Live
  <2>3. CellAt(d, l).attr = "dir"
    BY <2>1, <2>2 DEF IsDir
  <2> QED
    BY <2>1, <2>2, <2>3
<1>11. ASSUME NEW m \in Entries(f, d, D) PROVE m[1] # c /\ m \in (E \cup Own(f, Root)) \X CellIndex
  <2>1. m \in (D \cup Own(f, Root)) \X CellIndex /\ Proper(CellAt(d, m))
    BY <1>11 DEF Entries
  <2>2. m[1] # c
    <3> SUFFICES ASSUME m[1] = c PROVE FALSE
      OBVIOUS
    <3>1. c \in D /\ m[2] \in CellIndex
      BY <2>1, <1>3
    <3> QED
      BY <2>1, <3>1, <1>10 DEF CellAt
  <2> QED
    BY <2>1, <2>2
<1>12. Entries(g, d, E) = Entries(f, d, D)
  BY <1>6, <1>11 DEF Entries
<1>13. ASSUME NEW m \in Entries(f, d, D) \ Y
       PROVE  /\ m \in Live(f, d, D, X) /\ Own(f, c) \cap Own(f, CellAt(d, m).first) = {}
              /\ Chains(g)[CellAt(d, m).first] = Chains(f)[CellAt(d, m).first]
              /\ Own(g, CellAt(d, m).first) = Own(f, CellAt(d, m).first)
  <2>1. m \in Live(f, d, D, X) /\ m # l
    BY <1>13 DEF Live
  <2>2. c \notin Own(f, CellAt(d, m).first) /\ Own(f, c) \cap Own(f, CellAt(d, m).first) = {}
    BY <2>1, <1>1, <1>2
  <2>3. CellAt(d, m).first \in Links
    BY <1>13, EntryCells
  <2> QED
    BY <2>1, <2>2, <2>3, <1>5
<1>14. ASSUME NEW b \in E PROVE b \notin Own(f, c)
  <2>1. CASE b = Root
    BY <2>1, <1>0, <1>1
  <2>2. CASE b # Root
    <3>1. PICK loc \in Entries(f, d, D) \ X :
            IsDir(CellAt(d, loc)) /\ CellAt(d, loc).first = b /\ loc[1] \in Own(f, up[b])
      BY <1>9, <1>14, <2>2
    <3>2. loc \in Live(f, d, D, X) /\ loc # l
      BY <3>1, <1>14 DEF Live
    <3>3. Own(f, c) \cap Own(f, b) = {} /\ Own(f, b) = {b}
      BY <3>1, <3>2, <1>0, <1>1, <1>14, <2>2
    <3> QED
      BY <3>3
  <2> QED
    BY <2>1, <2>2
<1>15. DirsSound(g, E, H)
  <2>1. Root \in E /\ E \subseteq Clusters
    BY <1>0, <1>3
  <2>2. H \subseteq Clusters
    BY <1>0, <1>2, <1>4, OwnUnfold
  <2>3. \A b \in E \ {Root} : g[b] = EOC /\ b \notin Own(g, Root)
    BY <1>0, <1>4, <1>6
  <2>4. \A b \in E \cup Own(g, Root) : g[b] # FREE /\ b \notin H
    <3> SUFFICES ASSUME NEW b \in E \cup Own(f, Root) PROVE g[b] # FREE /\ b \notin H
      BY <1>6
    <3>1. b \notin Own(f, c) /\ b # c /\ b \in Used(f, G) /\ b \in Clusters
      BY <1>0, <1>1, <1>3, <1>14
    <3> QED
      BY <3>1, <1>2, <1>4 DEF Used
  <2> QED
    BY <2>1, <2>2, <2>3, <2>4 DEF DirsSound
<1>16. ASSUME NEW m \in Entries(f, d, D) \ Y PROVE EntrySound(g, E, H, CellAt(d, m))
  <2>1. EntrySound(f, D, G, CellAt(d, m))
    BY <1>16 DEF Vol, Sound
  <2>2. Own(f, CellAt(d, m).first) \subseteq Used(f, G) \ Own(f, Root)
    BY <1>13, <1>16, LiveFacts
  <2>3. \A b \in Own(f, CellAt(d, m).first) : g[b] # FREE /\ b \notin H \cup Own(f, Root)
    BY <2>2, <1>2, <1>4, <1>13, <1>16 DEF Used
  <2>4. CellAt(d, m).attr = "dir" => CellAt(d, m).first \in E \ {Root}
    <3> SUFFICES ASSUME CellAt(d, m).attr = "dir" PROVE CellAt(d, m).first \in E \ {Root}
      OBVIOUS
    <3>1. CellAt(d, m).first \in D \ {Root}
      BY <2>1 DEF EntrySound
    <3>2. CellAt(d, m).first \in Own(f, CellAt(d, m).first)
      BY <3>1, <1>0
    <3> QED
      BY <3>1, <3>2, <1>2, <1>13, <1>16
  <2> QED
    BY <2>1, <2>3, <2>4, <1>6, <1>13, <1>16 DEF EntrySound
<1>17. ASSUME NEW a \in Entries(f, d, D) \ Y, NEW b \in Entries(f, d, D) \ Y, a # b
       PROVE  Own(g, CellAt(d, a).first) \cap Own(g, CellAt(d, b).first) = {}
  BY <1>13, <1>17, LiveFacts
<1>18. ASSUME NEW b \in E \ {Root} PROVE up[b] # c
  <2>1. PICK loc \in Entries(f, d, D) \ X :
          IsDir(CellAt(d, loc)) /\ CellAt(d, loc).first = b /\ loc[1] \in Own(f, up[b])
    BY <1>9, <1>18
  <2> SUFFICES ASSUME up[b] = c PROVE FALSE
    OBVIOUS
  <2>2. c \in D \ {Root}
    BY <1>3, <1>9, <1>18
  <2>3. loc[1] = c
    BY <2>1, <2>2, <1>0
  <2> QED
    BY <2>1, <2>3, <1>11
<1>19. PICK r \in [D \ {Root} -> 0 .. Cardinality(D \ {Root}) - 1] :
         \A b \in D \ {Root} : up[b] \in D \ {Root} => r[up[b]] < r[b]
  BY <1>9, Zenon DEF Ranked
<1>20. r \in [D \ {Root} -> Nat]
  BY <1>19
<1>21. TreeSound(g, d, E, Y)
  <2> DEFINE vp == [b \in E \ {Root} |-> up[b]]
  <2> DEFINE q == [b \in E \ {Root} |-> r[b]]
  <2>1. vp \in [E \ {Root} -> E] /\ \A b \in E \ {Root} : vp[b] = up[b]
    BY <1>9, <1>18
  <2>2. q \in [E \ {Root} -> Nat] /\ \A b \in E \ {Root} : q[b] = r[b]
    BY <1>20
  <2>3. \A b \in E \ {Root} : vp[b] \in E \ {Root} => q[vp[b]] < q[b]
    <3> SUFFICES ASSUME NEW b \in E \ {Root}, vp[b] \in E \ {Root} PROVE q[vp[b]] < q[b]
      OBVIOUS
    <3>1. vp[b] = up[b] /\ q[b] = r[b] /\ q[vp[b]] = r[up[b]]
      BY <2>1, <2>2
    <3>2. b \in D \ {Root} /\ up[b] \in D \ {Root}
      BY <3>1
    <3> QED
      BY <3>1, <3>2, <1>19
  <2>4. IsFiniteSet(E \ {Root})
    <3>1. E \ {Root} \in SUBSET Clusters
      BY <1>0
    <3> QED
      BY <3>1, ClusterFacts, FS_Subset
  <2> HIDE DEF vp, q
  <2>5. Ranked(vp, E \ {Root})
    BY <2>2, <2>3, <2>4, RankFits
  <2>6. ASSUME NEW b \in E \ {Root} PROVE \E loc \in Entries(g, d, E) \ Y :
          IsDir(CellAt(d, loc)) /\ CellAt(d, loc).first = b /\ loc[1] \in Own(g, vp[b])
    <3>1. PICK loc \in Entries(f, d, D) \ X :
            IsDir(CellAt(d, loc)) /\ CellAt(d, loc).first = b /\ loc[1] \in Own(f, up[b])
      BY <1>9, <2>6
    <3>2. loc # l
      BY <3>1, <2>6
    <3>3. Own(g, vp[b]) = Own(f, up[b])
      BY <1>7, <2>1, <2>6
    <3> QED
      BY <3>1, <3>2, <3>3, <1>12
  <2>7. \A b \in E \ {Root} : \A k \in CellIndex :
          IsDots(d[b][k]) => RootIfZero(d[b][k].first) \in {b, vp[b]}
    BY <1>9, <2>1
  <2>8. \A b \in Own(g, Root), k \in CellIndex : ~IsDots(d[b][k])
    BY <1>6, <1>9
  <2> QED
    BY <2>1, <2>5, <2>6, <2>7, <2>8 DEF TreeSound
<1>22. ASSUME NEW x \in X PROVE TornSound(g, d, E, x)
  <2>1. TornSound(f, d, D, x)
    BY <1>22 DEF Vol, Sound
  <2>2. x \in Entries(f, d, D) /\ CellAt(d, x).first \in Clusters /\ f[CellAt(d, x).first] = FREE
    BY <1>22, TornFacts
  <2>3. x \in Entries(g, d, E) /\ g[CellAt(d, x).first] = FREE
    BY <2>2, <1>3, <1>4, <1>12
  <2>4. ASSUME NEW z \in D, x[1] \in Own(f, z) PROVE z \in E /\ x[1] \in Own(g, z)
    <3>1. x[1] # c
      BY <2>2, <1>11
    <3>2. z # c
      BY <3>1, <2>4, <1>0, <1>3
    <3> QED
      BY <3>2, <2>4, <1>7
  <2> QED
    BY <2>1, <2>2, <2>3, <2>4 DEF TornSound
<1>23. TornSound(g, d, E, l)
  <2>1. l \in Entries(g, d, E)
    BY <1>12 DEF Live
  <2>2. ASSUME CellAt(d, l).attr = "dir", NEW k \in CellIndex, IsDots(d[c][k])
        PROVE  \/ d[c][k].first = c
               \/ RootIfZero(d[c][k].first) \in E /\ l[1] \in Own(g, RootIfZero(d[c][k].first))
    <3>1. c \in D \ {Root} /\ l[1] \in Own(f, up[c]) /\ up[c] \in D
      BY <2>2, <1>1, <1>9, <1>10
    <3>2. RootIfZero(d[c][k].first) \in {c, up[c]}
      BY <3>1, <2>2, <1>9
    <3>3. CASE RootIfZero(d[c][k].first) = c
      BY <3>3, <1>3 DEF RootIfZero
    <3>4. CASE RootIfZero(d[c][k].first) = up[c]
      <4>1. up[c] # c
        <5> SUFFICES ASSUME up[c] = c PROVE FALSE
          OBVIOUS
        <5>1. r[c] < r[c] /\ r[c] \in Nat
          BY <3>1, <1>19, <1>20
        <5> QED
          BY <5>1
      <4>2. up[c] \in E /\ l[1] \in Own(g, up[c])
        BY <3>1, <4>1, <1>7
      <4> QED
        BY <3>4, <4>2
    <3> QED
      BY <3>2, <3>3, <3>4
  <2>3. CellAt(d, l).attr = "dir" => \A k \in CellIndex : ~Proper(d[c][k])
    OBVIOUS
  <2>4. Valid(c) /\ g[c] = FREE
    BY <1>4 DEF Valid
  <2> QED
    BY <2>1, <2>2, <2>3, <2>4 DEF TornSound
<1>24. ASSUME NEW b \in Clusters
       PROVE  g[b] # FREE <=> \/ b \in Own(g, Root) \cup H
                              \/ \E loc \in Entries(g, d, E) \ Y : b \in Own(g, CellAt(d, loc).first)
  <2>1. f[b] # FREE <=> \/ b \in Own(f, Root) \cup G
                        \/ \E loc \in Entries(f, d, D) \ X : b \in Own(f, CellAt(d, loc).first)
    BY DEF Vol, Sound
  <2>2. (\E loc \in Entries(g, d, E) \ Y : b \in Own(g, CellAt(d, loc).first))
        <=> (\E loc \in Entries(f, d, D) \ Y : b \in Own(f, CellAt(d, loc).first))
    BY <1>12, <1>13
  <2>3. CASE b = c
    <3>1. ~\E loc \in Entries(f, d, D) \ Y : b \in Own(f, CellAt(d, loc).first)
      BY <2>3, <1>2, <1>13
    <3> QED
      BY <2>2, <2>3, <3>1, <1>2, <1>3, <1>4, <1>6
  <2>4. CASE b # c
    <3>1. g[b] = f[b] /\ (b \in Own(f, c) <=> b \in Own(f, f[c]))
      BY <2>4, <1>2, <1>4
    <3>2. l \in Entries(f, d, D) \ X
      BY DEF Live
    <3>3. (\E loc \in Entries(f, d, D) \ X : b \in Own(f, CellAt(d, loc).first))
          <=> \/ b \in Own(f, f[c])
              \/ \E loc \in Entries(f, d, D) \ Y : b \in Own(f, CellAt(d, loc).first)
      BY <3>1, <3>2
    <3> QED
      BY <2>1, <2>2, <3>1, <3>3, <1>6
  <2> QED
    BY <2>3, <2>4
<1>25. Vol(g, d, E, Y, H)
  <2>1. \A loc \in Y : TornSound(g, d, E, loc)
    BY <1>22, <1>23
  <2>2. IsDisk(d)
    BY DEF Vol
  <2> QED
    BY <2>1, <2>2, <1>4, <1>12, <1>15, <1>16, <1>17, <1>21, <1>24 DEF Vol, Sound
<1> QED
  BY <1>10, <1>25 DEF g, IsDir

-----------------------------------------------------------------------------
(* The inductive invariant, of a state with FAT f, data d, current         *)
(* directory w, command o, torn entries t and lost clusters L.             *)

(* The removal o has freed the first cluster of its victim.                *)
Begun(d, o) == o.pc = "free" /\ o.cur # CellAt(d, o.loc).first

(* The entries whose removal has begun and not ended.                      *)
Doom(d, o, t) == t \cup {l \in Clusters \X CellIndex : Begun(d, o) /\ l = o.loc}

(* The clusters in the hands of the running command.                       *)
Flying(f, d, o) ==
  {c \in Clusters :
     \/ o.pc \in {"alloc", "mark", "data"} /\ c \in Own(f, o.first) /\ f[c] # FREE
     \/ o.pc \in {"init", "slot"} /\ c = o.cur
     \/ Begun(d, o) /\ c \in Own(f, o.cur) /\ f[c] # FREE}

(* mkdir has written the sectors of the new directory before o.s.          *)
Initialised(d, w, o) ==
  o.pc \in {"init", "slot"} =>
    \A k \in CellIndex : o.pc = "slot" \/ SectorOf(k) < o.s => d[o.cur][k] = Dots(o.cur, w)[k]

(* What a removal works on: an entry in place, an empty directory if it is *)
(* a directory; or an entry whose removal had begun; or an empty file in a *)
(* directory whose removal had begun.                                      *)
Victim(f, d, w, o, t, D) ==
  o.pc = "free" =>
    \/ /\ o.loc \in Live(f, d, D, t) /\ ~Begun(d, o) /\ w \in D
       /\ CellAt(d, o.loc).attr = "dir" =>
            /\ CellAt(d, o.loc).first # w
            /\ \A k \in CellIndex : ~Proper(d[CellAt(d, o.loc).first][k])
    \/ /\ o.loc \in Doom(d, o, t) /\ w \in D
       /\ Begun(d, o) => \A c \in Own(f, o.cur) : f[c] # FREE
    \/ o.loc[1] \in TornDirs(d, t) /\ o.cur = 0 /\ ~Begun(d, o)

(* A write or a mkdir that has allocated found no torn entries.            *)
Allocated(o) == o.pc \in {"mark", "data", "init", "slot"} \/ (o.pc = "alloc" /\ o.i > 0)

Good(f, d, w, o, t, L, D) ==
  /\ Vol(f, d, D, Doom(d, o, t), L \cup Flying(f, d, o))
  /\ L \cap Flying(f, d, o) = {}
  /\ w \in D \cup TornDirs(d, t)
  /\ Allocated(o) => t = {}
  /\ Initialised(d, w, o)
  /\ Victim(f, d, w, o, t, D)

VolumeInv ==
  ~poisoned => \E D \in SUBSET Clusters : Good(fat, disk, cwd, op, torn, lost, D)

LEMMA GoodIdle ==
  ASSUME NEW f, NEW d, NEW w, NEW t, NEW L, NEW D
  PROVE  Good(f, d, w, Idle, t, L, D) <=> Vol(f, d, D, t, L) /\ w \in D \cup TornDirs(d, t)
<1>1. Idle.pc = "idle"
  BY IdleFacts
<1>2. ~Begun(d, Idle) /\ ~Allocated(Idle) /\ Initialised(d, w, Idle) /\ Victim(f, d, w, Idle, t, D)
  BY <1>1 DEF Begun, Allocated, Initialised, Victim
<1>3. Doom(d, Idle, t) = t
  BY <1>2 DEF Doom
<1>4. Flying(f, d, Idle) = {}
  BY <1>1, <1>2 DEF Flying
<1> QED
  BY <1>2, <1>3, <1>4 DEF Good

(* The clusters of the chain that a write is building.                     *)
Marked(f, o) == {c \in Own(f, o.first) : f[c] # FREE}

LEMMA GoodWrite ==
  ASSUME NEW f, NEW d, NEW w, NEW t, NEW L, NEW D, NEW o \in WriteOp, Linked(f)
  PROVE  Good(f, d, w, o, t, L, D)
           <=> /\ Vol(f, d, D, t, L \cup Marked(f, o)) /\ L \cap Marked(f, o) = {}
               /\ w \in D \cup TornDirs(d, t)
               /\ Allocated(o) => t = {}
<1>1. o.pc \in {"alloc", "mark", "data"} /\ o.first \in Links
  BY DEF WriteOp, Links, FREE
<1>2. ~Begun(d, o) /\ Initialised(d, w, o) /\ Victim(f, d, w, o, t, D)
  BY <1>1 DEF Begun, Initialised, Victim
<1>3. Doom(d, o, t) = t
  BY <1>2 DEF Doom
<1>4. Own(f, o.first) \subseteq Clusters
  BY <1>1, OwnUnfold
<1>5. Flying(f, d, o) = Marked(f, o)
  BY <1>1, <1>2, <1>4 DEF Flying, Marked
<1> QED
  BY <1>2, <1>3, <1>5 DEF Good

LEMMA GoodMkdir ==
  ASSUME NEW f, NEW d, NEW w, NEW t, NEW L, NEW D, NEW o \in MkdirOp
  PROVE  Good(f, d, w, o, t, L, D)
           <=> /\ Vol(f, d, D, {}, L \cup {o.cur}) /\ o.cur \notin L
               /\ w \in D /\ t = {} /\ Initialised(d, w, o)
<1>1. o.pc \in {"init", "slot"} /\ o.cur \in Clusters
  BY DEF MkdirOp
<1>2. ~Begun(d, o) /\ Allocated(o) /\ Victim(f, d, w, o, t, D)
  BY <1>1 DEF Begun, Allocated, Victim
<1>3. Doom(d, o, t) = t
  BY <1>2 DEF Doom
<1>4. Flying(f, d, o) = {o.cur}
  BY <1>1, <1>2 DEF Flying
<1>5. t = {} => TornDirs(d, t) = {}
  BY DEF TornDirs
<1> QED
  BY <1>2, <1>3, <1>4, <1>5 DEF Good

(* A removal, before and after the first cluster of the victim is freed.   *)
LEMMA GoodRemove ==
  ASSUME NEW f, NEW d, NEW w, NEW t, NEW L, NEW D, NEW o \in RemoveOp, Linked(f)
  PROVE  /\ ~Begun(d, o) => /\ Doom(d, o, t) = t
                            /\ Good(f, d, w, o, t, L, D)
                                 <=> /\ Vol(f, d, D, t, L) /\ w \in D \cup TornDirs(d, t)
                                     /\ Victim(f, d, w, o, t, D)
         /\ Begun(d, o) =>
              /\ Doom(d, o, t) = t \cup {o.loc}
              /\ Good(f, d, w, o, t, L, D)
                   <=> /\ Vol(f, d, D, t \cup {o.loc}, L \cup Own(f, o.cur))
                       /\ L \cap Own(f, o.cur) = {} /\ w \in D
                       /\ \A c \in Own(f, o.cur) : f[c] # FREE
<1>1. o.pc = "free" /\ o.loc \in Clusters \X CellIndex /\ o.cur \in Links
  BY DEF RemoveOp
<1>2. ~Allocated(o) /\ Initialised(d, w, o)
  BY <1>1 DEF Allocated, Initialised
<1>3. Own(f, o.cur) \subseteq Clusters
  BY <1>1, OwnUnfold
<1>4. ASSUME ~Begun(d, o)
      PROVE  Doom(d, o, t) = t /\ Flying(f, d, o) = {}
  BY <1>1, <1>4 DEF Doom, Flying
<1>5. ASSUME Begun(d, o)
      PROVE  /\ Doom(d, o, t) = t \cup {o.loc}
             /\ Flying(f, d, o) = {c \in Own(f, o.cur) : f[c] # FREE}
             /\ Victim(f, d, w, o, t, D) <=> w \in D /\ \A c \in Own(f, o.cur) : f[c] # FREE
  BY <1>1, <1>3, <1>5 DEF Doom, Flying, Victim
<1>6. (\A c \in Own(f, o.cur) : f[c] # FREE) => {c \in Own(f, o.cur) : f[c] # FREE} = Own(f, o.cur)
  OBVIOUS
<1>7. CASE ~Begun(d, o)
  BY <1>2, <1>4, <1>7 DEF Good
<1>8. CASE Begun(d, o)
  <2>1. Good(f, d, w, o, t, L, D)
          <=> /\ Vol(f, d, D, t \cup {o.loc}, L \cup {c \in Own(f, o.cur) : f[c] # FREE})
              /\ L \cap {c \in Own(f, o.cur) : f[c] # FREE} = {} /\ w \in D \cup TornDirs(d, t)
              /\ w \in D /\ \A c \in Own(f, o.cur) : f[c] # FREE
    BY <1>2, <1>5, <1>8 DEF Good
  <2> QED
    BY <2>1, <1>5, <1>6, <1>8
<1> QED
  BY <1>7, <1>8

-----------------------------------------------------------------------------
(* Good is kept, step by step.                                             *)

Consistent(D) == Good(fat, disk, cwd, op, torn, lost, D)

(* The directories after a step: none is new but the one mkdir has made,   *)
(* none is missing but the one whose removal begins.                       *)
Carried(D) ==
  \E E : /\ Consistent(E)'
         /\ \A c \in E : c \in D \/ (op.pc = "slot" /\ c = op.cur)
         /\ \A c \in D : c \in E \/ (op.pc = "free" /\ c = op.cur /\ fat'[c] = FREE)

(* A free cluster is reserved.                                             *)
LEMMA Reserve ==
  ASSUME NEW f, NEW d, NEW D, NEW G, Vol(f, d, D, {}, G), NEW c \in Clusters, f[c] = FREE
  PROVE  Vol(With(f, c, EOC), d, D, {}, G \cup {c}) /\ c \notin G
<1> DEFINE g == With(f, c, EOC)
<1> DEFINE H == G \cup {c}
<1>1. EOC \in Links \ Clusters /\ EOC # FREE
  BY ClusterFacts DEF Valid
<1>2. Linked(f)
  BY DEF Vol
<1>3. Linked(g) /\ g[c] = EOC /\ \A b \in Clusters : b # c => g[b] = f[b]
  BY <1>1, <1>2, CutLinked DEF Linked, FatType, With
<1> HIDE DEF g
<1>4. G \subseteq Clusters /\ \A b \in G : f[b] # FREE
  BY DirFacts
<1>5. c \notin G /\ H \subseteq Clusters /\ \A b \in H : g[b] # FREE
  BY <1>1, <1>3, <1>4
<1>6. Used(g, H) = Used(f, G) /\ \A b \in Used(f, G) : g[b] = f[b]
  BY <1>3 DEF Used
<1> HIDE DEF H
<1>7. Vol(g, d, D, {}, H)
  BY <1>3, <1>5, <1>6, FatFrame
<1> QED
  BY <1>5, <1>7 DEF g, H

LEMMA VolWriteFile ==
  ASSUME NEW n \in FileNames, NEW t \in Texts, NEW z \in Sizes, FatInv, FatInv',
         write_file(n, t, z), NEW D, Consistent(D)
  PROVE  Carried(D)
<1> DEFINE o == [pc |-> "alloc", name |-> n, text |-> t, size |-> z,
                 i |-> 0, s |-> 0, first |-> 0, prev |-> 0, cur |-> 0]
<1>1. op = Idle /\ op' = o /\ UNCHANGED <<fat, disk, cwd, torn, lost>>
  BY DEF write_file, Begin, ghosts
<1>2. o \in WriteOp
  BY Geometry DEF WriteOp
<1>3. 0 \in Links \ Clusters /\ Linked(fat)
  BY ClusterFacts DEF FREE, FatInv, Valid
<1>4. Marked(fat, o) = {} /\ ~Allocated(o)
  BY <1>3, OwnUnfold DEF Marked, Allocated
<1> HIDE DEF o
<1>5. Vol(fat, disk, D, torn, lost) /\ cwd \in D \cup TornDirs(disk, torn)
  BY <1>1, GoodIdle DEF Consistent
<1>6. Good(fat, disk, cwd, o, torn, lost, D)
  BY <1>2, <1>3, <1>4, <1>5, GoodWrite
<1> QED
  BY <1>1, <1>6 DEF Consistent, Carried

(* What a write knows.                                                     *)
LEMMA WriteState ==
  ASSUME FatInv, op.pc \in {"alloc", "mark", "data"}, NEW D, Consistent(D)
  PROVE  /\ op \in WriteOp /\ Linked(fat) /\ op.first \in Links /\ op.size \in Nat
         /\ Vol(fat, disk, D, torn, lost \cup Marked(fat, op)) /\ lost \cap Marked(fat, op) = {}
         /\ cwd \in D \cup TornDirs(disk, torn)
         /\ Allocated(op) => torn = {}
         /\ InFlight = Marked(fat, op)
<1>1. op \in WriteOp /\ Linked(fat)
  BY OpKinds DEF FatInv, Typed
<1>2. op.first \in Links /\ op.size \in Nat
  BY <1>1, Fat32Assumption DEF WriteOp, Links, FREE
<1>3. InFlight = Marked(fat, op)
  BY DEF InFlight, Marked, ChainSet
<1> QED
  BY <1>1, <1>2, <1>3, GoodWrite DEF Consistent, Carried

LEMMA VolWriteFails ==
  ASSUME FatInv, op.pc = "alloc", WriteFails, NEW D, Consistent(D)
  PROVE  Carried(D)
<1>1. op' = Idle /\ UNCHANGED <<fat, disk, cwd, torn>> /\ lost' = lost \cup InFlight
  BY DEF WriteFails, Continue
<1>2. Vol(fat, disk, D, torn, lost') /\ cwd \in D \cup TornDirs(disk, torn)
  BY <1>1, WriteState
<1>3. Good(fat, disk, cwd, Idle, torn, lost', D)
  BY <1>2, GoodIdle
<1> QED
  BY <1>1, <1>3 DEF Consistent, Carried

LEMMA VolWriteFirst ==
  ASSUME FatInv, FatInv', ~poisoned', WriteFirst, NEW D, Consistent(D)
  PROVE  Carried(D)
<1>1. CASE FreeClusters = {}
  BY <1>1, VolWriteFails DEF WriteFirst
<1>2. CASE FreeClusters # {}
  <2> DEFINE c == find_free_cluster
  <2>1. /\ op.pc = "alloc" /\ op.i = 0 /\ torn = {}
        /\ fat' = With(fat, c, EOC) /\ op' = [op EXCEPT !.pc = "data", !.first = c, !.cur = c, !.s = 0]
        /\ UNCHANGED <<disk, cwd, torn, lost>>
    BY <1>2 DEF WriteFirst, set_next_cluster, Continue, With, Allocating
  <2>2. c \in Clusters /\ fat[c] = FREE
    BY <1>2, FindFree
  <2> HIDE DEF c
  <2>3. /\ op \in WriteOp /\ Linked(fat)
        /\ Vol(fat, disk, D, torn, lost \cup Marked(fat, op)) /\ cwd \in D \cup TornDirs(disk, torn)
    BY <2>1, WriteState
  <2>4. op' \in WriteOp /\ op'.first = c
    BY <2>1, <2>2, <2>3, Geometry DEF WriteOp
  <2>5. Marked(fat, op) = {}
    <3>1. op.first = 0 /\ 0 \in Links \ Clusters
      BY <2>1, ClusterFacts DEF FatInv, Building, FREE, Valid
    <3> QED
      BY <2>3, <3>1, OwnUnfold DEF Marked
  <2>6. Vol(fat', disk, D, {}, lost \cup {c}) /\ c \notin lost
    BY <2>1, <2>2, <2>3, <2>5, Reserve
  <2>7. Marked(fat', op') = {c}
    <3>1. EOC \in Links \ Clusters /\ EOC # FREE
      BY ClusterFacts DEF Valid
    <3>2. Linked(fat') /\ fat'[c] = EOC
      BY <2>1, <2>2, <2>3, <2>6 DEF Vol, Linked, FatType, With
    <3>3. Own(fat', c) = {c} \cup Own(fat', EOC) /\ Own(fat', EOC) = {}
      BY <2>2, <3>1, <3>2, OwnUnfold
    <3> QED
      BY <2>4, <3>1, <3>2, <3>3 DEF Marked
  <2>8. Linked(fat')
    BY <2>6 DEF Vol
  <2>9. Good(fat', disk, cwd, op', {}, lost, D)
    BY <2>1, <2>3, <2>4, <2>6, <2>7, <2>8, GoodWrite
  <2> QED
    BY <2>1, <2>9 DEF Consistent, Carried
<1> QED
  BY <1>1, <1>2

LEMMA VolWriteLink ==
  ASSUME FatInv, FatInv', ~poisoned', WriteLink, NEW D, Consistent(D)
  PROVE  Carried(D)
<1>1. CASE FreeClusters = {}
  BY <1>1, VolWriteFails DEF WriteLink
<1>2. CASE FreeClusters # {}
  <2> DEFINE c == find_free_cluster
  <2>1. /\ op.pc = "alloc" /\ op.i > 0 /\ torn = {}
        /\ fat' = With(fat, op.prev, c) /\ op' = [op EXCEPT !.pc = "mark", !.cur = c]
        /\ UNCHANGED <<disk, cwd, torn, lost>>
    BY <1>2 DEF WriteLink, set_next_cluster, Continue, With, Allocating
  <2>2. c \in Clusters /\ fat[c] = FREE
    BY <1>2, FindFree
  <2> HIDE DEF c
  <2>3. /\ op \in WriteOp /\ Linked(fat) /\ op.first \in Links
        /\ Vol(fat, disk, D, torn, lost \cup Marked(fat, op)) /\ lost \cap Marked(fat, op) = {}
        /\ cwd \in D \cup TornDirs(disk, torn)
    BY <2>1, WriteState
  <2>4. op' \in WriteOp /\ op'.first = op.first
    BY <2>1, <2>2, <2>3 DEF WriteOp
  <2>5. /\ op.prev \in Own(fat, op.first) /\ fat[op.prev] = EOC
        /\ \A x \in Own(fat, op.first) : fat[x] # FREE
    BY <2>1 DEF FatInv, Building
  <2>6. /\ op.prev \in Clusters /\ c # op.prev /\ Own(fat, op.first) \subseteq Clusters
        /\ fat[c] \notin Clusters /\ fat[op.prev] \notin Clusters /\ c # FREE
    BY <2>2, <2>3, <2>5, OwnUnfold, ClusterFacts DEF Valid
  <2>7. Linked(fat') /\ Own(fat', op.first) = Own(fat, op.first) \cup {c}
    BY <2>1, <2>2, <2>3, <2>5, <2>6, LinkLinked, LinkChains
  <2>8. fat'[op.prev] = c /\ \A x \in Clusters : x # op.prev => fat'[x] = fat[x]
    BY <2>1, <2>3, <2>6 DEF Linked, FatType, With
  <2> DEFINE G == lost \cup Marked(fat, op)
  <2>9. Marked(fat', op') = Marked(fat, op) /\ op.prev \in G
    BY <2>2, <2>4, <2>5, <2>6, <2>7, <2>8 DEF Marked
  <2>10. G \subseteq Clusters /\ \A b \in G : fat[b] # FREE
    BY <2>3, DirFacts
  <2>11. \A b \in G : fat'[b] # FREE
    BY <2>6, <2>8, <2>10
  <2>12. Used(fat', G) = Used(fat, G) /\ \A b \in Used(fat, G) : fat'[b] = fat[b]
    BY <2>8, <2>9 DEF Used
  <2>13. Vol(fat, disk, D, {}, G)
    BY <2>1, <2>3
  <2> HIDE DEF G
  <2>14. Vol(fat', disk, D, {}, G)
    BY <2>7, <2>10, <2>11, <2>12, <2>13, FatFrame
  <2>15. Good(fat', disk, cwd, op', {}, lost, D)
    BY <2>1, <2>3, <2>4, <2>7, <2>9, <2>14, GoodWrite DEF G
  <2> QED
    BY <2>1, <2>15 DEF Consistent, Carried
<1> QED
  BY <1>1, <1>2

LEMMA VolWriteMark ==
  ASSUME FatInv, FatInv', WriteMark, NEW D, Consistent(D)
  PROVE  Carried(D)
<1>1. /\ op.pc = "mark" /\ fat' = With(fat, op.cur, EOC)
      /\ op' = [op EXCEPT !.pc = "data", !.s = 0]
      /\ UNCHANGED <<disk, cwd, torn, lost>>
  BY DEF WriteMark, set_next_cluster, Continue, ghosts, With
<1>2. /\ op \in WriteOp /\ Linked(fat) /\ op.first \in Links
      /\ Vol(fat, disk, D, torn, lost \cup Marked(fat, op)) /\ lost \cap Marked(fat, op) = {}
      /\ cwd \in D \cup TornDirs(disk, torn) /\ torn = {}
  BY <1>1, WriteState DEF Allocated
<1>3. op' \in WriteOp /\ op'.first = op.first
  BY <1>1, <1>2, Geometry DEF WriteOp
<1>4. /\ op.cur \in Own(fat, op.first) /\ fat[op.cur] = FREE
      /\ \A c \in Own(fat, op.first) : c # op.cur => fat[c] # FREE
  BY <1>1 DEF FatInv, Building
<1>5. /\ op.cur \in Clusters /\ fat[op.cur] \notin Clusters /\ Own(fat, op.first) \subseteq Clusters
      /\ EOC \in Links \ Clusters /\ EOC # FREE
  BY <1>2, <1>4, OwnUnfold, ClusterFacts DEF Valid
<1>6. Vol(fat', disk, D, {}, (lost \cup Marked(fat, op)) \cup {op.cur}) /\ op.cur \notin lost
  BY <1>1, <1>2, <1>4, <1>5, Reserve
<1>7. Linked(fat') /\ Own(fat', op.first) = Own(fat, op.first)
  <2>1. Chains(fat')[op.first] = Chains(fat)[op.first]
    BY <1>1, <1>2, <1>5, CutChains
  <2> QED
    BY <2>1, <1>6 DEF Vol, Own
<1>8. fat'[op.cur] = EOC /\ \A x \in Clusters : x # op.cur => fat'[x] = fat[x]
  BY <1>1, <1>2, <1>5 DEF Linked, FatType, With
<1>9. Marked(fat', op') = Marked(fat, op) \cup {op.cur}
  BY <1>3, <1>4, <1>5, <1>7, <1>8 DEF Marked
<1>10. (lost \cup Marked(fat, op)) \cup {op.cur} = lost \cup Marked(fat', op')
  BY <1>9
<1>11. lost \cap Marked(fat', op') = {}
  BY <1>2, <1>6, <1>9
<1>12. Good(fat', disk, cwd, op', {}, lost, D)
  BY <1>2, <1>3, <1>6, <1>7, <1>10, <1>11, GoodWrite
<1> QED
  BY <1>1, <1>2, <1>12 DEF Consistent, Carried

LEMMA VolWriteData ==
  ASSUME FatInv, FatInv', WriteData, NEW D, Consistent(D)
  PROVE  Carried(D)
<1> DEFINE cells == [k \in CellIndex |-> Chunk(ChunkOffset(op.i, op.s), k)]
<1>1. /\ op.pc = "data" /\ fat' = fat /\ disk' = PutSector(disk, op.cur, op.s, cells)
      /\ UNCHANGED <<cwd, torn, lost>>
  BY DEF WriteData, Continue, ghosts, disk_write, PutSector
<1>2. /\ op \in WriteOp /\ Linked(fat) /\ op.first \in Links
      /\ Vol(fat, disk, D, torn, lost \cup Marked(fat, op)) /\ lost \cap Marked(fat, op) = {}
      /\ cwd \in D \cup TornDirs(disk, torn) /\ torn = {}
  BY <1>1, WriteState DEF Allocated
<1>3. op.cur \in Marked(fat, op) /\ op.cur \in Clusters
  <2>1. op.cur \in Own(fat, op.first) /\ \A c \in Own(fat, op.first) : fat[c] # FREE
    BY <1>1 DEF FatInv, Building
  <2> QED
    BY <2>1, <1>2, OwnUnfold DEF Marked
<1>4. \A k \in CellIndex : cells[k] \in Cell
  BY <1>2, ChunkCell
<1> HIDE DEF cells
<1>5. IsDisk(disk') /\ \A b \in Clusters : b # op.cur => disk'[b] = disk[b]
  BY <1>1, <1>2, <1>3, <1>4, SectorFacts DEF Vol
<1>6. D \cup Own(fat, Root) \subseteq Used(fat, lost \cup Marked(fat, op))
  BY <1>2, DirFacts
<1>7. \A b \in D \cup Own(fat, Root) : \A k \in CellIndex : disk'[b][k] = disk[b][k]
  BY <1>3, <1>5, <1>6 DEF Used
<1>8. TornDirs(disk, {}) = {} /\ TornDirs(disk', {}) = {}
  BY DEF TornDirs
<1>9. Vol(fat, disk', D, {}, lost \cup Marked(fat, op))
  BY <1>2, <1>5, <1>7, <1>8, DataFrame
<1>10. op' \in WriteOp /\ op'.first = op.first
  <2>1. CASE op.s + 1 \in SectorIndex /\ ChunkOffset(op.i, op.s + 1) < op.size
    <3>1. op' = [op EXCEPT !.s = @ + 1]
      BY <2>1 DEF WriteData, Continue
    <3> QED
      BY <3>1, <2>1, <1>2 DEF WriteOp
  <2>2. CASE ~(op.s + 1 \in SectorIndex /\ ChunkOffset(op.i, op.s + 1) < op.size)
    <3>1. op' = [op EXCEPT !.pc = "alloc", !.i = @ + 1, !.prev = op.cur]
      BY <2>2 DEF WriteData, Continue
    <3>2. op.i \in Nat /\ op.i + 1 \in Nat
      BY <1>2 DEF WriteOp
    <3> QED
      BY <3>1, <3>2, <1>2, <1>3 DEF WriteOp
  <2> QED
    BY <2>1, <2>2
<1>11. Marked(fat, op') = Marked(fat, op)
  BY <1>10 DEF Marked
<1>12. Good(fat, disk', cwd, op', {}, lost, D)
  BY <1>2, <1>8, <1>9, <1>10, <1>11, GoodWrite
<1> QED
  BY <1>1, <1>2, <1>12 DEF Consistent, Carried

(* Where a file can be entered, from the current directory.                *)
LEMMA WhereCwd ==
  ASSUME NEW f, NEW d, NEW D, NEW X, NEW G, Vol(f, d, D, X, G), NEW w, NEW l \in Own(f, w) \X CellIndex
  PROVE  /\ w \in D => l \in (D \cup Own(f, Root)) \X CellIndex
         /\ w \in TornDirs(d, X) => l \in {w} \X CellIndex /\ l[1] \notin D \cup Own(f, Root)
<1>1. w \in D => Own(f, w) \subseteq D \cup Own(f, Root)
  <2>1. \A c \in D \ {Root} : Own(f, c) = {c}
    BY DirFacts
  <2> QED
    BY <2>1
<1>2. w \in TornDirs(d, X) => Own(f, w) = {w} /\ w \notin D \cup Own(f, Root)
  BY TornDirFacts
<1> QED
  BY <1>1, <1>2

(* The directories whose removal is unfinished stay the same when their    *)
(* entries are not touched.                                                *)
LEMMA TornDirsFrame ==
  ASSUME NEW d, NEW e, NEW X, \A x \in X : CellAt(e, x) = CellAt(d, x)
  PROVE  TornDirs(e, X) = TornDirs(d, X)
  BY DEF TornDirs

LEMMA VolWriteEntry ==
  ASSUME FatInv, FatInv', WriteEntry, NEW D, Consistent(D)
  PROVE  Carried(D)
<1> DEFINE l == free_slot(Chain(cwd))
<1>1. CASE l = NoLoc
  BY <1>1, VolWriteFails DEF WriteEntry
<1>2. CASE l # NoLoc
  <2> DEFINE x == Entry(op.name, "file", op.first, op.size)
  <2>1. /\ op.pc = "alloc" /\ op.i = Needed(op.size) /\ op' = Idle /\ disk' = Put(disk, l, x)
        /\ UNCHANGED <<fat, cwd, torn, lost>>
    BY <1>2 DEF WriteEntry, put_entry, Put, Continue
  <2>2. /\ op \in WriteOp /\ Linked(fat) /\ op.first \in Links /\ op.size \in Nat
        /\ Vol(fat, disk, D, torn, lost \cup Marked(fat, op)) /\ lost \cap Marked(fat, op) = {}
        /\ cwd \in D \cup TornDirs(disk, torn)
        /\ Allocated(op) => torn = {}
    BY <2>1, WriteState
  <2>3. Chain(cwd) \in Seq(Clusters) /\ Range(Chain(cwd)) = Own(fat, cwd) /\ cwd \in Links
    BY ChainLen, ClusterFacts DEF FatInv, Typed, Chain, Own
  <2>4. l \in Own(fat, cwd) \X CellIndex /\ IsFree(At(l))
    BY <1>2, <2>3, FreeSlot
  <2>5. /\ op.name \in FileNames /\ op.first \in Clusters \cup {0}
        /\ x \in Cell /\ Proper(x) /\ ~IsDots(x) /\ x.first = op.first /\ x.size = op.size /\ x.attr = "file"
    <3>1. op.name \in FileNames /\ op.first \in Clusters \cup {0}
      BY <2>2 DEF WriteOp
    <3> QED
      BY <3>1, <2>2, FileEntry
  <2> HIDE DEF l, x
  <2>6. l \in Clusters \X CellIndex
    BY <2>2, <2>3, <2>4, OwnUnfold
  <2>7. ~Proper(CellAt(disk, l)) /\ ~IsDots(CellAt(disk, l))
    BY <2>4 DEF IsFree, Proper, IsDots, At, CellAt
  <2>8. /\ Len(Chains(fat)[op.first]) = Needed(op.size) /\ Marked(fat, op) = Own(fat, op.first)
        /\ op.i = 0 => op.first = 0
    <3>1. /\ Len(Chains(fat)[op.first]) = op.i /\ \A c \in Own(fat, op.first) : fat[c] # FREE
          /\ op.i = 0 => op.first = 0
      BY <2>1 DEF FatInv, Building
    <3> QED
      BY <3>1, <2>1 DEF Marked
  <2>9. /\ IsDisk(disk')
        /\ \A b \in Clusters, k \in CellIndex : <<b, k>> # l => disk'[b][k] = disk[b][k]
        /\ \A m \in Clusters \X CellIndex : m # l => CellAt(disk', m) = CellAt(disk, m)
        /\ CellAt(disk', l) = x
    BY <2>1, <2>2, <2>5, <2>6, PutFacts DEF Vol
  <2>10. TornDirs(disk', torn) = TornDirs(disk, torn)
    <3>1. \A y \in torn : CellAt(disk', y) = CellAt(disk, y)
      <4> SUFFICES ASSUME NEW y \in torn PROVE CellAt(disk', y) = CellAt(disk, y)
        OBVIOUS
      <4>1. y \in Entries(fat, disk, D)
        BY <2>2, TornFacts
      <4>2. y \in Clusters \X CellIndex /\ Proper(CellAt(disk, y))
        BY <4>1, <2>2, EntryCells
      <4> QED
        BY <4>2, <2>7, <2>9
    <3> QED
      BY <3>1, TornDirsFrame
  <2>11. CASE cwd \in D
    <3>1. l \in (D \cup Own(fat, Root)) \X CellIndex
      BY <2>2, <2>4, <2>11, WhereCwd
    <3>2. Vol(fat, disk', D, torn, (lost \cup Marked(fat, op)) \ Own(fat, x.first))
      BY <3>1, <2>1, <2>2, <2>5, <2>7, <2>8, PutFile
    <3>3. (lost \cup Marked(fat, op)) \ Own(fat, x.first) = lost
      BY <2>2, <2>5, <2>8
    <3>4. Good(fat, disk', cwd, Idle, torn, lost, D)
      BY <3>2, <3>3, <2>11, GoodIdle
    <3> QED
      BY <3>4, <2>1 DEF Consistent, Carried
  <2>12. CASE cwd \notin D
    <3>1. cwd \in TornDirs(disk, torn)
      BY <2>2, <2>12
    <3>2. op.first = 0
      <4>1. torn # {}
        BY <3>1 DEF TornDirs
      <4>2. ~(op.i > 0)
        BY <4>1, <2>1, <2>2 DEF Allocated
      <4>3. op.i \in Nat
        BY <2>2 DEF WriteOp
      <4>4. op.i = 0
        BY <4>2, <4>3
      <4> QED
        BY <4>4, <2>8
    <3>3. Marked(fat, op) = {}
      <4>1. 0 \in Links \ Clusters
        BY ClusterFacts DEF FREE, Valid
      <4> QED
        BY <3>2, <4>1, <2>2, <2>8, OwnUnfold
    <3>4. Harmless(x)
      BY <3>2, <2>5 DEF Harmless
    <3>5. l[1] \notin D \cup Own(fat, Root) /\ l = <<l[1], l[2]>>
      BY <3>1, <2>2, <2>4, WhereCwd
    <3>6. D \subseteq Clusters /\ Own(fat, Root) \subseteq Clusters
      BY <2>2, DirFacts
    <3>7. \A b \in D \cup Own(fat, Root) : \A k \in CellIndex : disk'[b][k] = disk[b][k]
      BY <3>5, <3>6, <2>9
    <3>8. \A b \in Clusters : \A k \in CellIndex : disk'[b][k] = disk[b][k] \/ Harmless(disk'[b][k])
      BY <3>4, <2>9 DEF CellAt
    <3>9. TornDirs(disk, torn) \subseteq Clusters
      BY <2>2, TornDirFacts
    <3>10. Vol(fat, disk, D, torn, lost)
      BY <3>3, <2>2
    <3>11. Vol(fat, disk', D, torn, lost)
      BY <3>7, <3>8, <3>9, <3>10, <2>9, DataFrame
    <3>12. Good(fat, disk', cwd, Idle, torn, lost, D)
      BY <3>1, <3>11, <2>10, GoodIdle
    <3> QED
      BY <3>12, <2>1 DEF Consistent, Carried
  <2> QED
    BY <2>11, <2>12
<1> QED
  BY <1>1, <1>2

LEMMA SectorsOfCells ==
  ASSUME NEW k \in CellIndex
  PROVE  SectorOf(k) \in SectorIndex
<1> DEFINE E == EntriesPerSector
<1> DEFINE q == k \div E
<1>1. k \in Nat /\ E \in Nat \ {0} /\ SectorsPerCluster \in Nat /\ k < E * SectorsPerCluster
  BY Geometry DEF CellIndex, CellsPerCluster
<1>2. q \in Nat /\ E * q <= k
  BY <1>1, DivMod
<1>3. q < SectorsPerCluster
  <2> SUFFICES ASSUME q >= SectorsPerCluster PROVE FALSE
    BY <1>1, <1>2
  <2>1. E * q >= E * SectorsPerCluster
    <3> HIDE DEF q, E
    <3>1. E * q = E * SectorsPerCluster + E * (q - SectorsPerCluster)
      BY <1>1, <1>2
    <3>2. E * (q - SectorsPerCluster) \in Nat
      BY <1>1, <1>2
    <3> QED
      BY <3>1, <3>2, <1>1, <1>2
  <2>2. E * q \in Nat /\ E * SectorsPerCluster \in Nat
    BY <1>1, <1>2
  <2> QED
    BY <2>1, <2>2, <1>1, <1>2
<1> QED
  BY <1>1, <1>2, <1>3 DEF SectorOf, SectorIndex

LEMMA VolMkdir ==
  ASSUME FatInv, FatInv', ~poisoned', NEW n \in DirNames, create_directory(n),
         ~UNCHANGED vars, NEW D, Consistent(D)
  PROVE  Carried(D)
<1> DEFINE c == find_free_cluster
<1>1. /\ FreeClusters # {} /\ op = Idle /\ torn = {} /\ fat' = With(fat, c, EOC)
      /\ op' = [pc |-> "init", name |-> n, cur |-> c, s |-> 0]
      /\ UNCHANGED <<disk, cwd, torn, lost>>
  BY DEF create_directory, Begin, set_next_cluster, With, Allocating
<1>2. c \in Clusters /\ fat[c] = FREE
  BY <1>1, FindFree
<1> HIDE DEF c
<1>3. op' \in MkdirOp /\ op'.pc = "init" /\ op'.cur = c /\ op'.s = 0
  BY <1>1, <1>2, Geometry DEF MkdirOp
<1>4. Vol(fat, disk, D, {}, lost) /\ cwd \in D
  BY <1>1, GoodIdle DEF Consistent, TornDirs
<1>5. Vol(fat', disk, D, {}, lost \cup {c}) /\ c \notin lost
  BY <1>1, <1>2, <1>4, Reserve
<1>6. Initialised(disk, cwd, op')
  <2>1. \A k \in CellIndex : ~(SectorOf(k) < 0)
    BY SectorsOfCells DEF SectorIndex
  <2> QED
    BY <2>1, <1>3 DEF Initialised
<1>7. Good(fat', disk, cwd, op', {}, lost, D)
  BY <1>3, <1>4, <1>5, <1>6, GoodMkdir
<1> QED
  BY <1>1, <1>7 DEF Consistent, Carried

(* What a mkdir knows.                                                     *)
LEMMA MkdirState ==
  ASSUME FatInv, op.pc \in {"init", "slot"}, NEW D, Consistent(D)
  PROVE  /\ op \in MkdirOp /\ op.cur \in Clusters /\ op.s \in SectorIndex /\ fat[op.cur] = EOC
         /\ Vol(fat, disk, D, {}, lost \cup {op.cur}) /\ op.cur \notin lost
         /\ cwd \in D /\ torn = {} /\ Initialised(disk, cwd, op)
         /\ op.cur \notin D \cup Own(fat, Root) /\ cwd \in Clusters /\ IsDisk(disk)
<1>1. op \in MkdirOp /\ fat[op.cur] = EOC /\ cwd \in Clusters /\ IsDisk(disk)
  BY OpKinds DEF FatInv, Typed, Building
<1>2. op.cur \in Clusters /\ op.s \in SectorIndex
  BY <1>1 DEF MkdirOp
<1>3. /\ Vol(fat, disk, D, {}, lost \cup {op.cur}) /\ op.cur \notin lost
      /\ cwd \in D /\ torn = {} /\ Initialised(disk, cwd, op)
  BY <1>1, GoodMkdir DEF Consistent
<1>4. D \cup Own(fat, Root) \subseteq Used(fat, lost \cup {op.cur})
  BY <1>3, DirFacts
<1> QED
  BY <1>1, <1>2, <1>3, <1>4 DEF Used

LEMMA VolMkdirInit ==
  ASSUME FatInv, FatInv', MkdirInit, NEW D, Consistent(D)
  PROVE  Carried(D)
<1>1. /\ op.pc = "init" /\ fat' = fat /\ UNCHANGED <<cwd, torn, lost>>
      /\ disk' = PutSector(disk, op.cur, op.s, Dots(op.cur, cwd))
  BY DEF MkdirInit, Continue, ghosts, disk_write, PutSector
<1>2. /\ op \in MkdirOp /\ op.cur \in Clusters /\ op.s \in SectorIndex
      /\ Vol(fat, disk, D, {}, lost \cup {op.cur}) /\ op.cur \notin lost
      /\ cwd \in D /\ torn = {} /\ Initialised(disk, cwd, op)
      /\ op.cur \notin D \cup Own(fat, Root) /\ cwd \in Clusters /\ IsDisk(disk)
  BY <1>1, MkdirState
<1>3. /\ IsDisk(disk') /\ \A b \in Clusters : b # op.cur => disk'[b] = disk[b]
      /\ \A k \in CellIndex : disk'[op.cur][k]
           = IF SectorOf(k) = op.s THEN Dots(op.cur, cwd)[k] ELSE disk[op.cur][k]
  BY <1>1, <1>2, DotsCells, SectorFacts
<1>4. D \subseteq Clusters /\ Own(fat, Root) \subseteq Clusters
  BY <1>2, DirFacts
<1>5. \A b \in D \cup Own(fat, Root) : \A k \in CellIndex : disk'[b][k] = disk[b][k]
  BY <1>2, <1>3, <1>4
<1>6. TornDirs(disk, {}) = {}
  BY DEF TornDirs
<1>7. Vol(fat, disk', D, {}, lost \cup {op.cur})
  BY <1>2, <1>3, <1>5, <1>6, DataFrame
<1>8. \A k \in CellIndex : SectorOf(k) < op.s + 1 => disk'[op.cur][k] = Dots(op.cur, cwd)[k]
  <2> SUFFICES ASSUME NEW k \in CellIndex, SectorOf(k) < op.s + 1
               PROVE  disk'[op.cur][k] = Dots(op.cur, cwd)[k]
    OBVIOUS
  <2>1. SectorOf(k) \in Int /\ op.s \in Int
    BY <1>2, SectorsOfCells DEF SectorIndex
  <2>2. SectorOf(k) = op.s \/ SectorOf(k) < op.s
    BY <2>1
  <2> QED
    BY <2>2, <1>1, <1>2, <1>3 DEF Initialised
<1>9. op' \in MkdirOp /\ op'.cur = op.cur /\ Initialised(disk', cwd, op')
  <2>1. CASE op.s + 1 \in SectorIndex
    <3>1. op' = [op EXCEPT !.s = @ + 1]
      BY <2>1 DEF MkdirInit, Continue
    <3>2. op' \in MkdirOp /\ op'.cur = op.cur /\ op'.s = op.s + 1 /\ op'.pc = "init"
      BY <1>1, <1>2, <2>1, <3>1 DEF MkdirOp
    <3> QED
      BY <3>2, <1>8 DEF Initialised
  <2>2. CASE op.s + 1 \notin SectorIndex
    <3>1. op' = [op EXCEPT !.pc = "slot"]
      BY <2>2 DEF MkdirInit, Continue
    <3>2. op' \in MkdirOp /\ op'.cur = op.cur
      BY <1>1, <1>2, <3>1 DEF MkdirOp
    <3>3. \A k \in CellIndex : SectorOf(k) < op.s + 1
      BY <1>2, <2>2, SectorsOfCells, Geometry DEF SectorIndex
    <3> QED
      BY <3>2, <3>3, <1>8 DEF Initialised
  <2> QED
    BY <2>1, <2>2
<1>10. Good(fat, disk', cwd, op', {}, lost, D)
  BY <1>2, <1>7, <1>9, GoodMkdir
<1> QED
  BY <1>1, <1>2, <1>10 DEF Consistent, Carried

LEMMA VolMkdirEntry ==
  ASSUME FatInv, FatInv', MkdirEntry, NEW D, Consistent(D)
  PROVE  Carried(D)
<1> DEFINE l == free_slot(<<cwd>>)
<1>1. /\ op.pc = "slot" /\ l # NoLoc /\ op' = Idle
      /\ disk' = Put(disk, l, Entry(op.name, "dir", op.cur, 0))
      /\ UNCHANGED <<fat, cwd, torn, lost>>
  BY DEF MkdirEntry, put_entry, Put, Continue, ghosts
<1>2. /\ op \in MkdirOp /\ op.cur \in Clusters /\ fat[op.cur] = EOC
      /\ Vol(fat, disk, D, {}, lost \cup {op.cur}) /\ op.cur \notin lost
      /\ cwd \in D /\ torn = {} /\ Initialised(disk, cwd, op) /\ cwd \in Clusters
  BY <1>1, MkdirState
<1>3. <<cwd>> \in Seq(Clusters) /\ Range(<<cwd>>) = {cwd}
  BY <1>2 DEF Range
<1>4. l \in {cwd} \X CellIndex /\ IsFree(At(l))
  BY <1>1, <1>3, FreeSlot
<1> HIDE DEF l
<1>5. ~Proper(CellAt(disk, l)) /\ ~IsDots(CellAt(disk, l))
  BY <1>4 DEF IsFree, Proper, IsDots, At, CellAt
<1>6. \A k \in CellIndex : disk[op.cur][k] = Dots(op.cur, cwd)[k]
  BY <1>1, <1>2 DEF Initialised
<1>7. op.name \in DirNames
  BY <1>2 DEF MkdirOp
<1>8. Vol(fat, disk', D \cup {op.cur}, {}, (lost \cup {op.cur}) \ {op.cur})
  BY <1>1, <1>2, <1>4, <1>5, <1>6, <1>7, PutDir
<1>9. (lost \cup {op.cur}) \ {op.cur} = lost
  BY <1>2
<1>10. Good(fat, disk', cwd, Idle, {}, lost, D \cup {op.cur})
  BY <1>2, <1>8, <1>9, GoodIdle
<1> QED
  BY <1>1, <1>2, <1>10 DEF Consistent, Carried

(* What is in a directory whose removal is unfinished.                     *)
LEMMA InTornDir ==
  ASSUME NEW f, NEW d, NEW D, NEW X, NEW G, Vol(f, d, D, X, G), NEW c \in TornDirs(d, X),
         NEW k \in CellIndex
  PROVE  /\ Proper(d[c][k]) => d[c][k].attr = "file" /\ d[c][k].first = 0
         /\ IsDots(d[c][k]) => d[c][k].first = c \/ RootIfZero(d[c][k].first) \in D
<1>1. PICK x \in X : IsDir(CellAt(d, x)) /\ c = CellAt(d, x).first
  BY DEF TornDirs
<1>2. TornSound(f, d, D, x)
  BY DEF Vol, Sound
<1> QED
  BY <1>1, <1>2 DEF TornSound, IsDir

LEMMA VolBeginRemoval ==
  ASSUME FatInv, FatInv', NEW n \in Names, BeginRemoval(find_file(cwd, n)),
         find_file(cwd, n) # NoLoc,
         n \in FileNames \/ MayRmdir(find_file(cwd, n)), NEW D, Consistent(D)
  PROVE  Carried(D)
<1> DEFINE l == find_file(cwd, n)
<1>1. /\ op = Idle /\ op' = [pc |-> "free", loc |-> l, cur |-> At(l).first]
      /\ UNCHANGED <<fat, disk, cwd, torn, lost>>
  BY DEF BeginRemoval, Begin, ghosts
<1>2. Vol(fat, disk, D, torn, lost) /\ cwd \in D \cup TornDirs(disk, torn)
  BY <1>1, GoodIdle DEF Consistent
<1>3. l \in Own(fat, cwd) \X CellIndex /\ Named(At(l), n)
  BY FindFile DEF FatInv, Typed, ChainSet
<1>4. n \in FileNames \/ (IsDir(At(l)) /\ is_directory_empty(At(l).first))
  BY DEF MayRmdir
<1> HIDE DEF l
<1>5. l \in Clusters \X CellIndex /\ Linked(fat)
  BY <1>3, OwnUnfold, ClusterFacts DEF FatInv, Typed
<1> DEFINE x == CellAt(disk, l)
<1>6. x \in Cell /\ x = At(l) /\ x = disk[l[1]][l[2]]
  BY <1>5, AtCell DEF FatInv, CellAt
<1>7. Proper(x) /\ x.first \in Clusters \cup {0} /\ (n \in FileNames => x.attr = "file")
  <2>1. x.tag = "entry" /\ x.name = n
    BY <1>3, <1>6 DEF Named
  <2>2. n \notin {Dot, DotDot}
    BY Fat32Assumption
  <2> QED
    BY <2>1, <2>2, <1>6, EntryFacts DEF Proper, IsDots
<1>8. op' \in RemoveOp /\ op'.loc = l /\ op'.cur = x.first /\ op'.pc = "free" /\ ~Begun(disk, op')
  BY <1>1, <1>5, <1>6, <1>7 DEF RemoveOp, Links, FREE, Begun
<1> HIDE DEF x
<1>9. CASE cwd \in D
  <2>1. l \in Entries(fat, disk, D)
    BY <1>2, <1>3, <1>7, <1>9, WhereCwd DEF Entries, x
  <2>2. ASSUME l \in torn PROVE Victim(fat, disk, cwd, op', torn, D)
    BY <2>2, <1>8, <1>9 DEF Victim, Doom
  <2>3. ASSUME l \notin torn PROVE Victim(fat, disk, cwd, op', torn, D)
    <3>1. l \in Live(fat, disk, D, torn)
      BY <2>1, <2>3 DEF Live
    <3>2. ASSUME x.attr = "dir"
          PROVE  x.first # cwd /\ \A k \in CellIndex : ~Proper(disk[x.first][k])
      <4>1. is_directory_empty(x.first)
        BY <3>2, <1>4, <1>6, <1>7
      <4>2. x.first \in D \ {Root}
        BY <3>1, <3>2, <1>2, LiveFacts DEF x
      <4>3. Own(fat, x.first) = {x.first}
        BY <4>2, <1>2, DirFacts
      <4>4. \A k \in CellIndex : ~Proper(disk[x.first][k])
        <5> SUFFICES ASSUME NEW k \in CellIndex PROVE ~Proper(disk[x.first][k])
          OBVIOUS
        <5>1. \/ IsFree(disk[x.first][k]) \/ disk[x.first][k] = Lfn
              \/ IsDots(disk[x.first][k])
          BY <4>1, <4>3 DEF is_directory_empty, ChainSet
        <5> QED
          BY <5>1, CellTags DEF IsFree, Proper
      <4>5. x.first # cwd
        <5> SUFFICES ASSUME x.first = cwd PROVE FALSE
          OBVIOUS
        <5>1. l[1] = x.first /\ l[2] \in CellIndex
          BY <4>3, <1>3
        <5> QED
          BY <5>1, <4>4, <1>6, <1>7
      <4> QED
        BY <4>4, <4>5
    <3> QED
      BY <3>1, <3>2, <1>8, <1>9 DEF Victim, x
  <2>4. Victim(fat, disk, cwd, op', torn, D)
    BY <2>2, <2>3
  <2>5. Good(fat, disk, cwd, op', torn, lost, D)
    BY <2>4, <1>2, <1>5, <1>8, GoodRemove
  <2> QED
    BY <2>5, <1>1 DEF Consistent, Carried
<1>10. CASE cwd \notin D
  <2>1. cwd \in TornDirs(disk, torn)
    BY <1>2, <1>10
  <2>2. l \in {cwd} \X CellIndex
    BY <2>1, <1>2, <1>3, WhereCwd
  <2>3. l[1] = cwd /\ l[2] \in CellIndex
    BY <2>2
  <2>4. x.first = 0
    BY <2>1, <2>3, <1>2, <1>6, <1>7, InTornDir
  <2>5. Victim(fat, disk, cwd, op', torn, D)
    BY <2>1, <2>3, <2>4, <1>8 DEF Victim
  <2>6. Good(fat, disk, cwd, op', torn, lost, D)
    BY <2>5, <1>2, <1>5, <1>8, GoodRemove
  <2> QED
    BY <2>6, <1>1 DEF Consistent, Carried
<1> QED
  BY <1>9, <1>10

LEMMA VolRemoveCluster ==
  ASSUME FatInv, FatInv', RemoveCluster, NEW D, Consistent(D)
  PROVE  Carried(D)
<1> DEFINE c == op.cur
<1> DEFINE l == op.loc
<1>1. /\ op.pc = "free" /\ c \in Clusters /\ fat' = With(fat, c, FREE)
      /\ op' = [op EXCEPT !.cur = fat[c]]
      /\ UNCHANGED <<disk, cwd, torn, lost>>
  BY DEF RemoveCluster, set_next_cluster, Continue, ghosts, With, Valid
<1>2. op \in RemoveOp /\ Linked(fat) /\ fat[c] \in Links
  BY <1>1, OpKinds DEF FatInv, Typed, Linked, FatType
<1>3. op' \in RemoveOp /\ op'.pc = "free" /\ op'.loc = l /\ op'.cur = fat[c]
  BY <1>1, <1>2 DEF RemoveOp
<1>4. /\ Own(fat, c) = {c} \cup Own(fat, fat[c]) /\ c \notin Own(fat, fat[c])
      /\ Own(fat, fat[c]) \subseteq Clusters
  BY <1>1, <1>2, OwnUnfold, NotAgain
<1>5. FREE \in Links \ Clusters
  BY ClusterFacts DEF Valid
<1>6. Linked(fat')
  BY DEF FatInv
<1>7. fat'[c] = FREE /\ \A b \in Clusters : b # c => fat'[b] = fat[b]
  BY <1>1, <1>2 DEF Linked, FatType, With
<1>8. Own(fat', fat[c]) = Own(fat, fat[c])
  <2>1. Chains(fat')[fat[c]] = Chains(fat)[fat[c]]
    BY <1>1, <1>2, <1>4, <1>5, CutChains
  <2> QED
    BY <2>1 DEF Own
<1> HIDE DEF c, l
<1>9. CASE ~Begun(disk, op)
  <2>0. Good(fat, disk, cwd, op, torn, lost, D)
    BY DEF Consistent
  <2>1. /\ Vol(fat, disk, D, torn, lost) /\ Victim(fat, disk, cwd, op, torn, D)
        /\ Doom(disk, op, torn) = torn
    <3>1. op \in RemoveOp /\ Linked(fat)
      BY <1>2
    <3>2. /\ Doom(disk, op, torn) = torn
          /\ Good(fat, disk, cwd, op, torn, lost, D)
               <=> /\ Vol(fat, disk, D, torn, lost) /\ cwd \in D \cup TornDirs(disk, torn)
                   /\ Victim(fat, disk, cwd, op, torn, D)
      BY <3>1, <1>9, GoodRemove
    <3> QED
      BY <2>0, <3>2
  <2>2. c = CellAt(disk, l).first
    BY <1>1, <1>9 DEF Begun, c, l
  <2>3. Begun(disk, op')
    <3>1. fat[c] # c
      BY <1>4
    <3> QED
      BY <3>1, <2>2, <1>3 DEF Begun
  <2>4. c # 0
    BY <1>1, ClusterFacts
  <2>5. CASE l \in Live(fat, disk, D, torn) /\ cwd \in D
             /\ (CellAt(disk, l).attr = "dir" =>
                   c # cwd /\ \A k \in CellIndex : ~Proper(disk[c][k]))
    <3>1. /\ Vol(fat', disk, D \ {c}, torn \cup {l}, lost \cup Own(fat, fat[c]))
          /\ c \in D => CellAt(disk, l).attr = "dir"
      <4>1. CellAt(disk, l).attr = "dir" => \A k \in CellIndex : ~Proper(disk[c][k])
        BY <2>5
      <4>2. l \in Live(fat, disk, D, torn) /\ c \in Clusters
        BY <2>5, <1>1
      <4>3. /\ Vol(With(fat, c, FREE), disk, D \ {c}, torn \cup {l}, lost \cup Own(fat, fat[c]))
            /\ c \in D => CellAt(disk, l).attr = "dir"
        BY <4>1, <4>2, <2>1, <2>2, FreeFirst
      <4> QED
        BY <4>3, <1>1
    <3>2. cwd \in D \ {c}
      BY <3>1, <2>5
    <3>3. Own(fat, c) \subseteq Used(fat, lost)
      BY <2>1, <2>2, <2>5, LiveFacts
    <3>4. lost \cap Own(fat, fat[c]) = {}
      BY <3>3, <1>4 DEF Used
    <3>5. \A b \in Own(fat, fat[c]) : fat'[b] # FREE
      BY <3>3, <1>4, <1>7 DEF Used
    <3>6. Good(fat', disk, cwd, op', torn, lost, D \ {c})
      BY <3>1, <3>2, <3>4, <3>5, <2>3, <1>3, <1>6, <1>8, GoodRemove
    <3> QED
      BY <3>6, <1>1, <1>7 DEF Consistent, Carried, c
  <2>6. CASE l \in torn /\ cwd \in D
    <3>1. fat[c] = FREE
      BY <2>1, <2>2, <2>6, TornFacts
    <3>2. fat' = fat
      BY <3>1, <1>2, <1>6, <1>7 DEF Linked, FatType
    <3>3. Own(fat, fat[c]) = {}
      BY <3>1, <1>2, <1>5, OwnUnfold
    <3>4. torn \cup {l} = torn /\ lost \cup Own(fat, fat[c]) = lost
      BY <3>3, <2>6
    <3>5. Good(fat', disk, cwd, op', torn, lost, D)
      BY <3>2, <3>3, <3>4, <2>1, <2>3, <2>6, <1>2, <1>3, GoodRemove
    <3> QED
      BY <3>5, <1>1 DEF Consistent, Carried
  <2> QED
    BY <2>1, <2>2, <2>4, <2>5, <2>6, <1>1, <1>9 DEF Victim, c, l
<1>10. CASE Begun(disk, op)
  <2> DEFINE G == lost \cup Own(fat, c)
  <2> DEFINE H == lost \cup Own(fat, fat[c])
  <2> DEFINE X == torn \cup {l}
  <2>1. /\ Vol(fat, disk, D, X, G) /\ lost \cap Own(fat, c) = {} /\ cwd \in D
        /\ \A b \in Own(fat, c) : fat[b] # FREE
    BY <1>2, <1>10, GoodRemove DEF Consistent, c, l
  <2>2. G \subseteq Clusters /\ \A b \in G : fat[b] # FREE
    BY <2>1, DirFacts
  <2>3. CellAt(disk, l).first \in Clusters /\ fat[CellAt(disk, l).first] = FREE
    BY <2>1, TornFacts
  <2>4. Begun(disk, op')
    <3>1. fat[c] # CellAt(disk, l).first
      <4> SUFFICES ASSUME fat[c] = CellAt(disk, l).first PROVE FALSE
        OBVIOUS
      <4>1. fat[c] \in Own(fat, fat[c])
        BY <2>3, <1>2, OwnUnfold
      <4> QED
        BY <4>1, <2>1, <2>3, <1>4
    <3> QED
      BY <3>1, <1>3 DEF Begun
  <2>5. H \subseteq Clusters /\ \A b \in H : fat'[b] # FREE
    BY <2>1, <2>2, <1>4, <1>7
  <2>6. Used(fat', H) = Used(fat, G)
    BY <1>1, <1>4, <1>7 DEF Used
  <2>7. \A b \in Used(fat, G) : fat'[b] = fat[b]
    BY <1>4, <1>7 DEF Used
  <2>8. \A x \in X : fat'[CellAt(disk, x).first] = FREE
    <3> SUFFICES ASSUME NEW x \in X PROVE fat'[CellAt(disk, x).first] = FREE
      OBVIOUS
    <3>1. CellAt(disk, x).first \in Clusters /\ fat[CellAt(disk, x).first] = FREE
      BY <2>1, TornFacts
    <3> QED
      BY <3>1, <1>7
  <2> HIDE DEF G, H, X
  <2>9. Vol(fat', disk, D, X, H)
    BY <2>1, <2>5, <2>6, <2>7, <2>8, <1>6, FatFrame
  <2>10. lost \cap Own(fat, fat[c]) = {} /\ \A b \in Own(fat, fat[c]) : fat'[b] # FREE
    BY <2>1, <2>5, <1>4 DEF H
  <2>11. Good(fat', disk, cwd, op', torn, lost, D)
    BY <2>1, <2>4, <2>9, <2>10, <1>3, <1>6, <1>8, GoodRemove DEF H, X
  <2> QED
    BY <2>11, <1>1 DEF Consistent, Carried
<1> QED
  BY <1>9, <1>10

LEMMA VolRemoveEntry ==
  ASSUME FatInv, FatInv', RemoveEntry, NEW D, Consistent(D)
  PROVE  Carried(D)
<1> DEFINE l == op.loc
<1>1. /\ op.pc = "free" /\ op.cur \notin Clusters /\ disk' = Put(disk, l, Gone) /\ op' = Idle
      /\ torn' = torn \ {l} /\ UNCHANGED <<fat, cwd, lost>>
  BY DEF RemoveEntry, put_entry, Put, Continue, Valid
<1>2. op \in RemoveOp /\ Linked(fat) /\ op.cur \in Links /\ l \in Clusters \X CellIndex
  BY <1>1, OpKinds DEF FatInv, Typed, RemoveOp
<1>3. Own(fat, op.cur) = {}
  BY <1>1, <1>2, OwnUnfold
<1>4. Good(fat, disk, cwd, op, torn, lost, D)
  BY DEF Consistent
<1>5. IsDisk(disk)
  BY DEF FatInv, Typed
<1>6. /\ \A b \in Clusters, k \in CellIndex : <<b, k>> # l => disk'[b][k] = disk[b][k]
      /\ \A m \in Clusters \X CellIndex : m # l => CellAt(disk', m) = CellAt(disk, m)
      /\ CellAt(disk', l) = Gone /\ IsDisk(disk')
  BY <1>1, <1>2, <1>5, PutFacts, CellTags
<1> HIDE DEF l
<1>7. CASE Begun(disk, op)
  <2>1. Vol(fat, disk, D, torn \cup {l}, lost \cup Own(fat, op.cur)) /\ cwd \in D
    BY <1>2, <1>4, <1>7, GoodRemove DEF l
  <2>2. lost \cup Own(fat, op.cur) = lost /\ (torn \cup {l}) \ {l} = torn'
    BY <1>1, <1>3
  <2>3. l \in Entries(fat, disk, D)
    BY <2>1, TornFacts
  <2>4. Vol(fat, disk', D, torn', lost)
    <3>1. Vol(fat, disk, D, torn \cup {l}, lost) /\ l \in torn \cup {l}
      BY <2>1, <2>2
    <3>2. Vol(fat, Put(disk, l, Gone), D, (torn \cup {l}) \ {l}, lost)
      BY <3>1, <2>3, PutGone
    <3> QED
      BY <3>2, <2>2, <1>1
  <2>5. Good(fat, disk', cwd, Idle, torn', lost, D)
    BY <2>1, <2>4, GoodIdle
  <2> QED
    BY <2>5, <1>1 DEF Consistent, Carried
<1>8. CASE ~Begun(disk, op)
  <2>1. /\ Vol(fat, disk, D, torn, lost) /\ cwd \in D \cup TornDirs(disk, torn)
        /\ Victim(fat, disk, cwd, op, torn, D) /\ Doom(disk, op, torn) = torn
    <3>1. op \in RemoveOp /\ Linked(fat)
      BY <1>2
    <3>2. /\ Doom(disk, op, torn) = torn
          /\ Good(fat, disk, cwd, op, torn, lost, D)
               <=> /\ Vol(fat, disk, D, torn, lost) /\ cwd \in D \cup TornDirs(disk, torn)
                   /\ Victim(fat, disk, cwd, op, torn, D)
      BY <3>1, <1>8, GoodRemove
    <3> QED
      BY <1>4, <3>2
  <2>2. CellAt(disk, l).first = op.cur
    BY <1>1, <1>8 DEF Begun, l
  <2>3. CASE l \in Entries(fat, disk, D) /\ cwd \in D
    <3>1. Vol(fat, disk', D, torn', lost)
      BY <2>1, <2>2, <2>3, <1>1, PutGone
    <3>2. Good(fat, disk', cwd, Idle, torn', lost, D)
      BY <2>3, <3>1, GoodIdle
    <3> QED
      BY <3>2, <1>1 DEF Consistent, Carried
  <2>4. CASE l[1] \in TornDirs(disk, torn)
    <3>1. l[1] \notin D \cup Own(fat, Root) /\ l = <<l[1], l[2]>>
      BY <2>1, <2>4, <1>2, TornDirFacts
    <3>2. D \subseteq Clusters /\ Own(fat, Root) \subseteq Clusters
      BY <2>1, DirFacts
    <3>3. \A b \in D \cup Own(fat, Root) : \A k \in CellIndex : disk'[b][k] = disk[b][k]
      BY <3>1, <3>2, <1>6
    <3>4. Harmless(Gone)
      BY CellTags DEF Harmless
    <3>5. \A b \in Clusters : \A k \in CellIndex : disk'[b][k] = disk[b][k] \/ Harmless(disk'[b][k])
      BY <3>4, <1>6 DEF CellAt
    <3>6. TornDirs(disk, torn) \subseteq Clusters
      BY <2>1, TornDirFacts
    <3>7. Vol(fat, disk', D, torn, lost)
      BY <3>3, <3>5, <3>6, <2>1, <1>6, DataFrame
    <3>8. \A x \in torn : x # l /\ CellAt(disk', x) = CellAt(disk, x)
      <4> SUFFICES ASSUME NEW x \in torn PROVE x # l /\ CellAt(disk', x) = CellAt(disk, x)
        OBVIOUS
      <4>1. x \in Entries(fat, disk, D)
        BY <2>1, TornFacts
      <4>2. x \in Clusters \X CellIndex /\ x[1] \in D \cup Own(fat, Root)
        BY <4>1, <2>1, EntryCells
      <4> QED
        BY <4>2, <3>1, <1>6
    <3>9. torn' = torn /\ TornDirs(disk', torn) = TornDirs(disk, torn)
      BY <3>8, <1>1, TornDirsFrame
    <3>10. Good(fat, disk', cwd, Idle, torn, lost, D)
      BY <3>7, <3>9, <2>1, GoodIdle
    <3> QED
      BY <3>9, <3>10, <1>1 DEF Consistent, Carried
  <2>5. \A x \in torn : x \in Entries(fat, disk, D)
    BY <2>1, TornFacts
  <2> QED
    BY <2>1, <2>3, <2>4, <2>5, <1>1, <1>8 DEF Victim, Live, l
<1> QED
  BY <1>7, <1>8

(* cd stays in the directories of the tree and those whose removal is      *)
(* unfinished.                                                             *)
LEMMA TreeWalled ==
  ASSUME FatInv, NEW D, NEW L, Vol(fat, disk, D, torn, L)
  PROVE  Walled(D \cup TornDirs(disk, torn))
<1> DEFINE A == D \cup TornDirs(disk, torn)
<1>0. D \subseteq Clusters /\ TornDirs(disk, torn) \subseteq Clusters
  BY DirFacts, TornDirFacts
<1> SUFFICES ASSUME NEW c \in A, NEW n \in Names \cup {Dot, DotDot}, find_dir(c, n) # NoLoc
             PROVE  RootIfZero(At(find_dir(c, n)).first) \in A
  BY DEF Walled
<1> DEFINE l == find_dir(c, n)
<1> DEFINE x == CellAt(disk, l)
<1>1. l \in Own(fat, c) \X CellIndex /\ IsDir(At(l)) /\ At(l) = x /\ Linked(fat)
  BY <1>0, FindDir DEF FatInv, ChainSet, At, CellAt
<1> HIDE DEF l
<1>2. l \in Clusters \X CellIndex /\ x \in Cell /\ x = disk[l[1]][l[2]] /\ l[2] \in CellIndex
  BY <1>0, <1>1, OwnUnfold, ClusterFacts, AtCell DEF FatInv, CellAt
<1>3. IsDir(x) /\ x.attr = "dir" /\ x.tag = "entry" /\ (Proper(x) \/ IsDots(x))
  BY <1>1 DEF IsDir, Proper
<1> HIDE DEF x
<1>4. \A b \in Clusters : RootIfZero(b) = b
  BY ClusterFacts DEF RootIfZero
<1>5. CASE c \in D
  <2>1. l \in (D \cup Own(fat, Root)) \X CellIndex
    BY <1>1, <1>5, WhereCwd
  <2>2. CASE Proper(x)
    <3>1. l \in Entries(fat, disk, D)
      BY <2>1, <2>2 DEF Entries, x
    <3>2. CASE l \in torn
      <4>1. x.first \in TornDirs(disk, torn)
        BY <3>2, <1>3 DEF TornDirs, x
      <4> QED
        BY <4>1, <1>0, <1>1, <1>4 DEF l
    <3>3. CASE l \notin torn
      <4>1. l \in Live(fat, disk, D, torn)
        BY <3>1, <3>3 DEF Live
      <4>2. x.first \in D \ {Root}
        BY <4>1, <1>3, LiveFacts DEF x
      <4> QED
        BY <4>2, <1>0, <1>1, <1>4 DEF l
    <3> QED
      BY <3>2, <3>3
  <2>3. CASE IsDots(x)
    <3>1. PICK up \in [D \ {Root} -> D] :
            /\ \A b \in D \ {Root} : \A k \in CellIndex :
                 IsDots(disk[b][k]) => RootIfZero(disk[b][k].first) \in {b, up[b]}
            /\ \A b \in Own(fat, Root), k \in CellIndex : ~IsDots(disk[b][k])
      BY DEF Vol, Sound, TreeSound
    <3>2. l[1] \notin Own(fat, Root) /\ l[1] \in D \ {Root}
      <4>1. Root \in Own(fat, Root)
        BY DirFacts
      <4> QED
        BY <4>1, <2>1, <2>3, <3>1, <1>2
    <3>3. RootIfZero(x.first) \in D
      BY <2>3, <3>1, <3>2, <1>2
    <3> QED
      BY <3>3, <1>1 DEF l
  <2> QED
    BY <2>2, <2>3, <1>3
<1>6. CASE c \in TornDirs(disk, torn)
  <2>1. l \in {c} \X CellIndex
    BY <1>1, <1>6, WhereCwd
  <2>2. l[1] = c
    BY <2>1
  <2>3. ~Proper(x)
    BY <2>2, <1>2, <1>3, <1>6, InTornDir
  <2>4. x.first = c \/ RootIfZero(x.first) \in D
    BY <2>2, <2>3, <1>2, <1>3, <1>6, InTornDir
  <2> QED
    BY <2>4, <1>0, <1>1, <1>4 DEF l
<1> QED
  BY <1>5, <1>6

LEMMA VolCd ==
  ASSUME FatInv, NEW p \in Paths, cd(p), ~UNCHANGED vars, NEW D, Consistent(D)
  PROVE  Carried(D)
<1> DEFINE A == D \cup TornDirs(disk, torn)
<1>1. /\ op = Idle /\ get_path_cluster(cwd, p) # NotFound /\ op' = Idle
      /\ cwd' = get_path_cluster(cwd, p) /\ UNCHANGED <<fat, disk, torn, lost>>
  BY DEF cd, Begin, ghosts
<1>2. Vol(fat, disk, D, torn, lost) /\ cwd \in A
  BY <1>1, GoodIdle DEF Consistent
<1>3. Walled(A)
  BY <1>2, TreeWalled
<1>4. A \in SUBSET Clusters /\ Root \in A
  BY <1>2, DirFacts, TornDirFacts
<1> HIDE DEF A
<1>5. cwd' \in A
  BY <1>1, <1>2, <1>3, <1>4, PathStays
<1>6. Good(fat, disk, cwd', Idle, torn, lost, D)
  BY <1>2, <1>5, GoodIdle DEF A
<1> QED
  BY <1>1, <1>6 DEF Consistent, Carried

LEMMA VolCrash ==
  ASSUME FatInv, Crash, NEW D, Consistent(D)
  PROVE  Carried(D)
<1>1. op' = Idle /\ cwd' = Root /\ UNCHANGED <<fat, disk>>
  BY DEF Crash
<1>2. op \in OpType /\ Linked(fat)
  BY DEF FatInv, Typed
<1>3. Good(fat, disk, cwd, op, torn, lost, D)
  BY DEF Consistent
<1>4. Vol(fat, disk, D, torn', lost')
  <2>1. CASE op.pc \in {"alloc", "mark", "data"}
    <3>1. torn' = torn /\ lost' = lost \cup Marked(fat, op)
      BY <2>1 DEF Crash, InFlight, Marked, ChainSet
    <3> QED
      BY <3>1, <2>1, WriteState
  <2>2. CASE op.pc \in {"init", "slot"}
    <3>1. torn' = torn /\ lost' = lost \cup {op.cur}
      BY <2>2 DEF Crash, InFlight
    <3> QED
      BY <3>1, <2>2, MkdirState
  <2>3. CASE op.pc = "idle"
    <3>1. op = Idle /\ torn' = torn /\ lost' = lost
      BY <2>3, <1>2, OpKinds DEF Crash, InFlight
    <3> QED
      BY <3>1, <1>3, GoodIdle
  <2>4. CASE op.pc = "free"
    <3>1. op \in RemoveOp /\ (Untouched <=> ~Begun(disk, op))
      BY <2>4, <1>2, OpKinds DEF Untouched, Begun, At, CellAt
    <3>2. CASE ~Begun(disk, op)
      <4>1. torn' = torn /\ lost' = lost
        BY <2>4, <3>1, <3>2 DEF Crash, ghosts, Begun, Untouched, At, CellAt
      <4> QED
        BY <4>1, <3>1, <3>2, <1>2, <1>3, GoodRemove
    <3>3. CASE Begun(disk, op)
      <4>1. torn' = torn \cup {op.loc} /\ lost' = lost \cup InFlight
        BY <2>4, <3>1, <3>3 DEF Crash
      <4>2. /\ Vol(fat, disk, D, torn \cup {op.loc}, lost \cup Own(fat, op.cur))
            /\ \A c \in Own(fat, op.cur) : fat[c] # FREE
        BY <3>1, <3>3, <1>2, <1>3, GoodRemove
      <4>3. InFlight = Own(fat, op.cur)
        BY <4>2, <2>4 DEF InFlight, ChainSet
      <4> QED
        BY <4>1, <4>2, <4>3
    <3> QED
      BY <3>2, <3>3
  <2> QED
    BY <2>1, <2>2, <2>3, <2>4, <1>2, OpKinds
<1>5. Root \in D
  BY <1>4, DirFacts
<1>6. Good(fat, disk, Root, Idle, torn', lost', D)
  BY <1>4, <1>5, GoodIdle
<1> QED
  BY <1>1, <1>6 DEF Consistent, Carried

LEMMA ConsistentInv ==
  (\E D : Consistent(D)) => VolumeInv
<1> SUFFICES ASSUME NEW D, Consistent(D) PROVE D \in SUBSET Clusters
  BY DEF VolumeInv, Consistent
<1> QED
  BY DirFacts DEF Consistent, Good

LEMMA VolInit == Init => VolumeInv
<1> SUFFICES ASSUME Init PROVE VolumeInv
  OBVIOUS
<1>1. PICK im \in Images : fat = im.fat /\ disk = im.disk
  BY DEF Init
<1>2. cwd = Root /\ op = Idle /\ torn = {} /\ lost = {}
  BY DEF Init
<1>3. Linked(fat) /\ IsDisk(disk)
  BY FatInit DEF FatInv, Typed
<1>4. PICK D \in SUBSET Clusters : Sound(fat, disk, D, {}, {})
  BY <1>1, ImagesAssumption
<1>5. Vol(fat, disk, D, {}, {})
  BY <1>3, <1>4 DEF Vol
<1>6. Root \in D
  BY <1>5, DirFacts
<1>7. Good(fat, disk, Root, Idle, {}, {}, D)
  BY <1>5, <1>6, GoodIdle
<1> QED
  BY <1>2, <1>7, ConsistentInv DEF Consistent, Carried

LEMMA VolStep ==
  ASSUME FatInv, FatInv', ~poisoned', Next, ~UNCHANGED vars, NEW D, Consistent(D)
  PROVE  Carried(D)
<1>1. CASE Command
  <2>1. ASSUME NEW n \in FileNames, NEW t \in Texts, NEW z \in Sizes, write_file(n, t, z)
        PROVE  Carried(D)
    BY <2>1, VolWriteFile
  <2>2. ASSUME NEW n \in FileNames, delete_file(n) PROVE Carried(D)
    <3>1. find_file(cwd, n) # NoLoc /\ BeginRemoval(find_file(cwd, n)) /\ n \in Names
      BY <2>2 DEF delete_file, Names
    <3> QED
      BY <3>1, <2>2, VolBeginRemoval
  <2>3. ASSUME NEW n \in DirNames, create_directory(n) PROVE Carried(D)
    BY <2>3, VolMkdir
  <2>4. ASSUME NEW n \in RmdirNames, rmdir(n) PROVE Carried(D)
    <3>1. /\ MayRmdir(find_file(cwd, n)) /\ BeginRemoval(find_file(cwd, n)) /\ n \in Names
          /\ find_file(cwd, n) # NoLoc
      BY <2>4, Fat32Assumption DEF rmdir, MayRmdir
    <3> QED
      BY <3>1, VolBeginRemoval
  <2>5. ASSUME NEW p \in Paths, cd(p) PROVE Carried(D)
    BY <2>5, VolCd
  <2> QED
    BY <1>1, <2>1, <2>2, <2>3, <2>4, <2>5 DEF Command, Look
<1>2. CASE Step
  BY <1>2, VolWriteFirst, VolWriteLink, VolWriteMark, VolWriteData, VolWriteEntry, VolMkdirInit,
     VolMkdirEntry, VolRemoveCluster, VolRemoveEntry DEF Step, MkdirSpin
<1>3. CASE Crash
  BY <1>3, VolCrash
<1> QED
  BY <1>1, <1>2, <1>3 DEF Next

(* Once poisoned, for ever poisoned.                                       *)
LEMMA StaysPoisoned == [Next]_vars /\ poisoned => poisoned'
<1> SUFFICES ASSUME [Next]_vars, poisoned PROVE poisoned'
  OBVIOUS
<1>1. CASE UNCHANGED vars
  BY <1>1 DEF vars, ghosts
<1>2. CASE Command
  BY <1>2 DEF Command, write_file, delete_file, create_directory, rmdir, cd, Look, BeginRemoval,
     Allocating, vars, ghosts
<1>3. CASE Step
  BY <1>3 DEF Step, WriteFirst, WriteLink, WriteMark, WriteData, WriteEntry, WriteFails, MkdirInit,
     MkdirEntry, MkdirSpin, RemoveCluster, RemoveEntry, Allocating, vars, ghosts
<1>4. CASE Crash
  BY <1>4 DEF Crash, ghosts
<1> QED
  BY <1>1, <1>2, <1>3, <1>4 DEF Next

LEMMA VolNext == FatInv /\ FatInv' /\ VolumeInv /\ [Next]_vars => VolumeInv'
<1> SUFFICES ASSUME FatInv, FatInv', VolumeInv, [Next]_vars PROVE VolumeInv'
  OBVIOUS
<1>1. CASE UNCHANGED vars
  BY <1>1 DEF VolumeInv, vars, ghosts
<1>2. CASE poisoned'
  BY <1>2 DEF VolumeInv
<1>3. CASE ~UNCHANGED vars /\ ~poisoned'
  <2>1. ~poisoned
    BY <1>3, StaysPoisoned
  <2>2. PICK D : Consistent(D)
    BY <2>1 DEF VolumeInv, Consistent
  <2>3. PICK E : Consistent(E)'
    BY <2>2, <1>3, VolStep DEF Carried
  <2>4. E \in SUBSET Clusters
    <3>1. Good(fat', disk', cwd', op', torn', lost', E)
      BY <2>3 DEF Consistent
    <3> QED
      BY <3>1, DirFacts DEF Good
  <2> QED
    BY <2>3, <2>4 DEF VolumeInv, Consistent
<1> QED
  BY <1>1, <1>2, <1>3

LEMMA VolumeAlways == Spec => [](FatInv /\ VolumeInv)
<1>1. Init => FatInv /\ VolumeInv
  BY FatInit, VolInit
<1>2. FatInv /\ VolumeInv /\ [Next]_vars => (FatInv /\ VolumeInv)'
  BY FatNext, VolNext
<1> QED
  BY <1>1, <1>2, PTL DEF Spec

-----------------------------------------------------------------------------
(* The tree that the properties speak of.                                  *)

(* The directories v, and those entered in them.                           *)
Grown(v) == v \cup {At(loc).first : loc \in {l \in UNION {Kept(c) : c \in v} : IsDir(At(l))}}

LEMMA KeptCells ==
  ASSUME FatInv, NEW c \in Links, NEW l \in Kept(c)
  PROVE  /\ l \in Own(fat, c) \X CellIndex /\ l \in Clusters \X CellIndex /\ Proper(At(l))
         /\ At(l) = CellAt(disk, l) /\ At(l).first \in Links /\ At(l).first \in Clusters \cup {0}
         /\ l \notin torn /\ ~(op.pc = "free" /\ op.loc = l)
<1>1. /\ l \in Own(fat, c) \X CellIndex /\ Proper(At(l))
      /\ l \notin torn /\ ~(op.pc = "free" /\ op.loc = l)
  BY DEF Kept, Slots, ChainSet
<1>2. l \in Clusters \X CellIndex
  BY <1>1, OwnUnfold DEF FatInv
<1>3. At(l) \in Cell /\ At(l) = CellAt(disk, l)
  BY <1>2, AtCell DEF FatInv
<1>4. At(l).first \in Clusters \cup {0}
  BY <1>1, <1>3, EntryFacts DEF Proper
<1> QED
  BY <1>1, <1>2, <1>3, <1>4 DEF Links, FREE

LEMMA DirsRecursion ==
  ASSUME FatInv
  PROVE  /\ DirsWithin[0] = {Root}
         /\ \A n \in 1 .. Cardinality(Clusters) : DirsWithin[n] = Grown(DirsWithin[n - 1])
         /\ \A n \in 0 .. Cardinality(Clusters) : DirsWithin[n] \subseteq Links
         /\ DOMAIN DirsWithin = 0 .. Cardinality(Clusters)
<1> DEFINE N == Cardinality(Clusters)
<1> DEFINE V == SUBSET Links
<1> DEFINE step == [n \in 1 .. N |-> [v \in V |-> Grown(v)]]
<1>1. N \in Nat
  BY ClusterFacts
<1>2. {Root} \in V
  BY ClusterFacts
<1>3. ASSUME NEW v \in V PROVE Grown(v) \in V
  BY <1>3, KeptCells DEF Grown
<1>4. step \in [1 .. N -> [V -> V]]
  BY <1>3
<1>5. PICK g \in [0 .. N -> V] : g[0] = {Root} /\ \A n \in 1 .. N : g[n] = step[n][g[n - 1]]
  <2>1. step \in Steps(N, V)
    BY <1>4, Zenon DEF Steps
  <2> HIDE DEF N, V, step
  <2>2. Solvable(N, V, {Root}, step)
    BY <1>1, <1>2, <2>1, RecursionExists, Zenon
  <2> QED
    BY <2>2, Zenon DEF Solvable
<1>6. \A n \in 1 .. N : g[n] = Grown(g[n - 1])
  <2> SUFFICES ASSUME NEW n \in 1 .. N PROVE g[n] = Grown(g[n - 1])
    OBVIOUS
  <2>1. g[n - 1] \in V
    BY <1>1
  <2>2. step[n] = [v \in V |-> Grown(v)]
    OBVIOUS
  <2> HIDE DEF V
  <2> QED
    BY <2>1, <2>2, <1>5
<1> DEFINE Eq(h) == h = [n \in 0 .. N |-> IF n = 0 THEN {Root} ELSE Grown(h[n - 1])]
<1>7. Eq(g)
  <2>1. \A n \in 0 .. N : g[n] = IF n = 0 THEN {Root} ELSE Grown(g[n - 1])
    <3> SUFFICES ASSUME NEW n \in 0 .. N PROVE g[n] = IF n = 0 THEN {Root} ELSE Grown(g[n - 1])
      OBVIOUS
    <3>1. n = 0 \/ n \in 1 .. N
      BY <1>1
    <3> HIDE DEF step, N
    <3> QED
      BY <3>1, <1>5, <1>6
  <2> HIDE DEF step, N, V
  <2> QED
    BY <2>1, <1>5
<1>8. DirsWithin = CHOOSE h : Eq(h)
  BY Zenon DEF DirsWithin, Grown
<1>9. Eq(DirsWithin)
  BY <1>7, <1>8, Zenon
<1>10. \A n \in 0 .. N : DirsWithin[n] = IF n = 0 THEN {Root} ELSE Grown(DirsWithin[n - 1])
  <2> DEFINE W == DirsWithin
  <2>1. W = [n \in 0 .. N |-> IF n = 0 THEN {Root} ELSE Grown(W[n - 1])]
    BY <1>9, Zenon
  <2> HIDE DEF W, N
  <2>2. \A n \in 0 .. N : W[n] = IF n = 0 THEN {Root} ELSE Grown(W[n - 1])
    BY <2>1
  <2> QED
    BY <2>2 DEF W
<1>11. DirsWithin[0] = {Root} /\ \A n \in 1 .. N : DirsWithin[n] = Grown(DirsWithin[n - 1])
  <2>1. 0 \in 0 .. N /\ \A n \in 1 .. N : n \in 0 .. N /\ n # 0
    BY <1>1
  <2> HIDE DEF N
  <2> QED
    BY <1>10, <2>1, Zenon
<1>12. 0 .. N \subseteq {n \in Nat : DirsWithin[n] \in V}
  <2> DEFINE S == {n \in Nat : DirsWithin[n] \in V}
  <2> DEFINE back == [n \in 0 .. N |-> n - 1]  same == [n \in 0 .. N |-> n]
  <2>1. Descends(back, 0 .. N, same)
    BY <1>1 DEF Descends
  <2>2. Inherits(back, 0 .. N, S)
    <3> SUFFICES ASSUME NEW n \in 0 .. N, back[n] \in 0 .. N => back[n] \in S PROVE n \in S
      BY DEF Inherits
    <3>1. CASE n = 0
      BY <3>1, <1>2, <1>11
    <3>2. CASE n # 0
      <4>1. n \in 1 .. N /\ back[n] = n - 1 /\ n - 1 \in 0 .. N
        BY <3>2, <1>1
      <4>2. DirsWithin[n - 1] \in V
        BY <4>1
      <4>3. DirsWithin[n] = Grown(DirsWithin[n - 1])
        BY <4>1, <1>11
      <4>4. DirsWithin[n] \in V
        BY <4>2, <4>3, <1>3
      <4> QED
        BY <4>4
    <3> QED
      BY <3>1, <3>2
  <2> HIDE DEF S, back, same
  <2>3. 0 .. N \subseteq S
    BY <2>1, <2>2, RankInduction
  <2> QED
    BY <2>3 DEF S
<1>13. DOMAIN DirsWithin = 0 .. N
  <2> DEFINE W == DirsWithin
  <2>1. W = [n \in 0 .. N |-> IF n = 0 THEN {Root} ELSE Grown(W[n - 1])]
    BY <1>9, Zenon
  <2> HIDE DEF W, N
  <2>2. DOMAIN W = 0 .. N
    BY <2>1
  <2> QED
    BY <2>2 DEF W
<1> QED
  BY <1>11, <1>12, <1>13

(* Every directory of the tree is one of D.                                *)
LEMMA DirsInside ==
  ASSUME FatInv, NEW D, Root \in D, D \subseteq Links,
         \A c \in D : \A l \in Kept(c) : IsDir(At(l)) => At(l).first \in D
  PROVE  Dirs \subseteq D
<1> DEFINE N == Cardinality(Clusters)
<1> DEFINE S == {n \in Nat : DirsWithin[n] \subseteq D}
<1> DEFINE back == [n \in 0 .. N |-> n - 1]  same == [n \in 0 .. N |-> n]
<1>1. N \in Nat
  BY ClusterFacts
<1>2. Descends(back, 0 .. N, same)
  BY <1>1 DEF Descends
<1>3. Inherits(back, 0 .. N, S)
  <2> SUFFICES ASSUME NEW n \in 0 .. N, back[n] \in 0 .. N => back[n] \in S PROVE n \in S
    BY DEF Inherits
  <2>1. CASE n = 0
    BY <2>1, DirsRecursion
  <2>2. CASE n # 0
    <3>1. n \in 1 .. N /\ back[n] = n - 1 /\ n - 1 \in 0 .. N
      BY <2>2, <1>1
    <3>2. DirsWithin[n - 1] \subseteq D
      BY <3>1
    <3>3. DirsWithin[n] = Grown(DirsWithin[n - 1])
      BY <3>1, DirsRecursion
    <3>4. DirsWithin[n] \subseteq D
      BY <3>2, <3>3 DEF Grown
    <3> QED
      BY <3>4
  <2> QED
    BY <2>1, <2>2
<1> HIDE DEF S, back, same
<1>4. 0 .. N \subseteq S
  BY <1>2, <1>3, RankInduction
<1>5. N \in S
  BY <1>1, <1>4
<1> QED
  BY <1>5 DEF S, Dirs

(* The entries in place, as the inductive invariant sees them.             *)
Placed(D) == Live(fat, disk, D, Doom(disk, op, torn))

LEMMA TreePlaced ==
  ASSUME FatInv, NEW D, Consistent(D)
  PROVE  /\ Dirs \subseteq D
         /\ \A l \in Tree : l \in Placed(D) /\ ~(op.pc = "free" /\ op.loc = l)
                            /\ At(l) = CellAt(disk, l)
<1> DEFINE X == Doom(disk, op, torn)
<1> DEFINE G == lost \cup Flying(fat, disk, op)
<1>1. Vol(fat, disk, D, X, G)
  BY DEF Consistent, Good
<1> HIDE DEF X, G
<1>2. Root \in D /\ D \subseteq Links
  BY <1>1, DirFacts, ClusterFacts
<1>3. ASSUME NEW c \in D, NEW l \in Kept(c)
      PROVE  /\ l \in Placed(D) /\ ~(op.pc = "free" /\ op.loc = l) /\ At(l) = CellAt(disk, l)
             /\ IsDir(At(l)) => At(l).first \in D
  <2>1. /\ l \in Own(fat, c) \X CellIndex /\ Proper(At(l)) /\ At(l) = CellAt(disk, l)
        /\ l \notin torn /\ ~(op.pc = "free" /\ op.loc = l)
    BY <1>2, <1>3, KeptCells
  <2>2. l \in Entries(fat, disk, D)
    BY <2>1, <1>1, <1>3, WhereCwd DEF Entries
  <2>3. l \in Placed(D)
    BY <2>1, <2>2 DEF Placed, Live, Doom, Begun
  <2>4. IsDir(At(l)) => At(l).first \in D
    BY <2>1, <2>3, <1>1, LiveFacts DEF Placed, IsDir, X
  <2> QED
    BY <2>1, <2>3, <2>4
<1>4. Dirs \subseteq D
  BY <1>2, <1>3, DirsInside
<1> QED
  BY <1>3, <1>4 DEF Tree

(* The clusters in the hands of the running command; the victim of a       *)
(* removal that has not begun is still in place.                           *)
LEMMA FlightFacts ==
  ASSUME FatInv, NEW D, Consistent(D)
  PROVE  /\ op.pc = "free" /\ op.loc \in Placed(D) =>
              /\ InFlight = Own(fat, CellAt(disk, op.loc).first) /\ Flying(fat, disk, op) = {}
              /\ CellAt(disk, op.loc).attr = "dir" =>
                   \A k \in CellIndex : ~Proper(disk[CellAt(disk, op.loc).first][k])
         /\ ~(op.pc = "free" /\ op.loc \in Placed(D)) => InFlight = Flying(fat, disk, op)
<1>1. op \in OpType /\ Linked(fat)
  BY DEF FatInv, Typed
<1>2. Vol(fat, disk, D, Doom(disk, op, torn), lost \cup Flying(fat, disk, op))
  BY DEF Consistent, Good
<1>3. InFlight \subseteq Clusters
  BY InFlightClusters
<1>4. CASE op.pc # "free"
  <2>1. ~Begun(disk, op)
    BY <1>4 DEF Begun
  <2>2. op.pc \in {"init", "slot"} => op.cur \in Clusters
    BY <1>1, OpKinds DEF MkdirOp
  <2>3. InFlight = Flying(fat, disk, op)
    BY <2>1, <2>2, <1>3, <1>4 DEF InFlight, Flying, ChainSet
  <2> QED
    BY <2>3, <1>4
<1>5. CASE op.pc = "free" /\ Begun(disk, op)
  <2>1. op \in RemoveOp /\ op.loc \in Clusters \X CellIndex
    BY <1>1, <1>5, OpKinds DEF RemoveOp
  <2>2. op.loc \notin Placed(D)
    BY <2>1, <1>5 DEF Placed, Live, Doom
  <2>3. InFlight = Flying(fat, disk, op)
    BY <1>3, <1>5 DEF InFlight, Flying, ChainSet
  <2> QED
    BY <2>2, <2>3
<1>6. CASE op.pc = "free" /\ ~Begun(disk, op)
  <2>1. op \in RemoveOp
    BY <1>1, <1>6, OpKinds
  <2>2. Good(fat, disk, cwd, op, torn, lost, D)
    BY DEF Consistent
  <2>3. Doom(disk, op, torn) = torn /\ Flying(fat, disk, op) = {}
    BY <1>6 DEF Doom, Flying
  <2>4. Victim(fat, disk, cwd, op, torn, D)
    BY <2>2 DEF Good
  <2>5. op.cur = CellAt(disk, op.loc).first
    BY <1>6 DEF Begun
  <2>6. InFlight = {c \in Own(fat, op.cur) : fat[c] # FREE}
    BY <1>6 DEF InFlight, ChainSet
  <2>7. ASSUME op.loc \in Placed(D)
        PROVE  /\ InFlight = Own(fat, op.cur)
               /\ CellAt(disk, op.loc).attr = "dir" =>
                    \A k \in CellIndex : ~Proper(disk[CellAt(disk, op.loc).first][k])
    <3>1. op.loc \in Live(fat, disk, D, torn) /\ Vol(fat, disk, D, torn, lost)
      BY <2>3, <2>7, <1>2 DEF Placed
    <3>2. Own(fat, op.cur) \subseteq Used(fat, lost)
      BY <3>1, <2>5, LiveFacts
    <3>3. op.loc \notin torn
      BY <3>1 DEF Live
    <3>4. op.loc[1] \notin TornDirs(disk, torn)
      <4>1. op.loc \in Entries(fat, disk, D)
        BY <3>1 DEF Live
      <4>2. op.loc[1] \in D \cup Own(fat, Root)
        BY <4>1, <3>1, EntryCells
      <4> QED
        BY <4>2, <3>1, TornDirFacts
    <3>5. CellAt(disk, op.loc).attr = "dir" =>
            \A k \in CellIndex : ~Proper(disk[CellAt(disk, op.loc).first][k])
      BY <3>3, <3>4, <2>3, <2>4, <1>6 DEF Victim
    <3> QED
      BY <3>2, <3>5, <2>6 DEF Used
  <2>8. ASSUME op.loc \notin Placed(D) PROVE InFlight = {}
    <3>1. op.loc \in torn \/ op.cur = 0
      BY <2>3, <2>4, <2>8, <1>6 DEF Victim, Placed
    <3>2. CASE op.cur = 0
      <4>1. 0 \in Links \ Clusters
        BY ClusterFacts DEF FREE, Valid
      <4> QED
        BY <3>2, <4>1, <2>6, <1>1, OwnUnfold
    <3>3. CASE op.loc \in torn
      <4>1. op.cur \in Clusters /\ fat[op.cur] = FREE
        BY <3>3, <2>3, <2>5, <1>2, TornFacts
      <4>2. FREE \in Links \ Clusters
        BY ClusterFacts DEF Valid
      <4>3. Own(fat, op.cur) = {op.cur} \cup Own(fat, FREE) /\ Own(fat, FREE) = {}
        BY <4>1, <4>2, <1>1, OwnUnfold
      <4> QED
        BY <4>1, <4>3, <2>6
    <3> QED
      BY <3>1, <3>2, <3>3
  <2> QED
    BY <2>3, <2>5, <2>7, <2>8, <1>6
<1> QED
  BY <1>4, <1>5, <1>6

LEMMA SharesNothing == FatInv /\ VolumeInv => NoSharing
<1> SUFFICES ASSUME FatInv, VolumeInv, ~poisoned
             PROVE  /\ \A a, b \in Tree : a # b => Owned(a) \cap Owned(b) = {}
                    /\ \A loc \in Tree :
                         /\ \A c \in Owned(loc) : fat[c] # FREE
                         /\ Owned(loc) \cap (ChainSet(Root) \cup InFlight \cup lost) = {}
                         /\ Len(Chain(At(loc).first))
                              = IF At(loc).attr = "file" THEN Needed(At(loc).size) ELSE 1
                         /\ Chain(At(loc).first) # <<>> => fat[Last(Chain(At(loc).first))] = EOC
  BY DEF NoSharing
<1>1. PICK D : Consistent(D)
  BY DEF VolumeInv, Consistent
<1> DEFINE X == Doom(disk, op, torn)
<1> DEFINE G == lost \cup Flying(fat, disk, op)
<1>2. Vol(fat, disk, D, X, G) /\ Linked(fat)
  BY <1>1 DEF Consistent, Good, FatInv
<1>3. \A l \in Tree : l \in Placed(D) /\ ~(op.pc = "free" /\ op.loc = l) /\ At(l) = CellAt(disk, l)
  BY <1>1, TreePlaced
<1> HIDE DEF X, G
<1>4. ASSUME NEW a \in Tree, NEW b \in Tree, a # b PROVE Owned(a) \cap Owned(b) = {}
  <2>1. a \in Live(fat, disk, D, X) /\ b \in Live(fat, disk, D, X)
    BY <1>3, <1>4 DEF Placed, X
  <2>2. Own(fat, CellAt(disk, a).first) \cap Own(fat, CellAt(disk, b).first) = {}
    BY <2>1, <1>2, <1>4, LiveFacts
  <2> QED
    BY <2>2, <1>3, <1>4 DEF Owned, ChainSet
<1>5. ASSUME NEW l \in Tree
      PROVE  /\ \A c \in Owned(l) : fat[c] # FREE
             /\ Owned(l) \cap (ChainSet(Root) \cup InFlight \cup lost) = {}
             /\ Len(Chain(At(l).first)) = IF At(l).attr = "file" THEN Needed(At(l).size) ELSE 1
             /\ Chain(At(l).first) # <<>> => fat[Last(Chain(At(l).first))] = EOC
  <2>1. l \in Live(fat, disk, D, X) /\ At(l) = CellAt(disk, l)
    BY <1>3, <1>5 DEF Placed, X
  <2>2. /\ Owned(l) \subseteq Used(fat, G) \ Own(fat, Root)
        /\ Len(Chain(At(l).first)) = IF At(l).attr = "file" THEN Needed(At(l).size) ELSE 1
    BY <2>1, <1>2, LiveFacts DEF Owned, ChainSet, Chain
  <2>3. Owned(l) \cap InFlight = {}
    <3>1. CASE op.pc = "free" /\ op.loc \in Placed(D)
      <4>1. InFlight = Own(fat, CellAt(disk, op.loc).first)
        BY <3>1, <1>1, FlightFacts
      <4>2. op.loc \in Live(fat, disk, D, X) /\ op.loc # l
        BY <3>1, <1>3, <1>5 DEF Placed, X
      <4>3. Own(fat, CellAt(disk, l).first) \cap Own(fat, CellAt(disk, op.loc).first) = {}
        BY <4>2, <2>1, <1>2, LiveFacts
      <4> QED
        BY <4>1, <4>3, <2>1 DEF Owned, ChainSet
    <3>2. CASE ~(op.pc = "free" /\ op.loc \in Placed(D))
      <4>1. InFlight = Flying(fat, disk, op)
        BY <3>2, <1>1, FlightFacts
      <4> QED
        BY <4>1, <2>2 DEF Used, G
    <3> QED
      BY <3>1, <3>2
  <2>4. ASSUME Chain(At(l).first) # <<>> PROVE fat[Last(Chain(At(l).first))] = EOC
    <3>1. l \in Entries(fat, disk, D)
      BY <2>1 DEF Live
    <3>2. At(l).first \in Links
      BY <3>1, <2>1, <1>2, EntryCells
    <3>3. At(l).first \in Clusters
      BY <3>2, <2>4, <1>2, ChainUnfold DEF Chain
    <3>4. /\ Last(Chain(At(l).first)) \in Owned(l)
          /\ fat[Last(Chain(At(l).first))] \in Links \ Clusters
      BY <3>3, <1>2, ChainEnds DEF Chain, Owned, ChainSet
    <3> QED
      BY <3>4, <2>2 DEF Used, Links
  <2> QED
    BY <2>2, <2>3, <2>4 DEF Used, G, ChainSet
<1> QED
  BY <1>4, <1>5

(* No two files or directories own the same cluster, none owns a free one  *)
(* or one in flight, and each has the clusters its size needs: write_file, *)
(* create_directory and the removals keep FAT and entries in step, between *)
(* any two sector writes and across power losses, until a cluster is       *)
(* allocated while a removal is unfinished.                                *)
THEOREM NothingIsShared == Spec => []NoSharing
  BY VolumeAlways, SharesNothing, PTL

LEMMA DirsMonotone ==
  ASSUME FatInv, NEW m \in 0 .. Cardinality(Clusters), NEW n \in m .. Cardinality(Clusters)
  PROVE  DirsWithin[m] \subseteq DirsWithin[n]
<1> DEFINE N == Cardinality(Clusters)
<1> DEFINE S == {i \in Nat : DirsWithin[m] \subseteq DirsWithin[i]}
<1> DEFINE back == [i \in m .. N |-> i - 1]  same == [i \in m .. N |-> i]
<1>1. N \in Nat /\ m \in Nat
  BY ClusterFacts
<1>2. Descends(back, m .. N, same)
  BY <1>1 DEF Descends
<1>3. Inherits(back, m .. N, S)
  <2> SUFFICES ASSUME NEW i \in m .. N, back[i] \in m .. N => back[i] \in S PROVE i \in S
    BY DEF Inherits
  <2>1. CASE i = m
    BY <2>1, <1>1
  <2>2. CASE i # m
    <3>1. i \in 1 .. N /\ back[i] = i - 1 /\ i - 1 \in m .. N /\ i \in Nat
      BY <2>2, <1>1
    <3>2. DirsWithin[m] \subseteq DirsWithin[i - 1]
      BY <3>1
    <3>3. DirsWithin[i] = Grown(DirsWithin[i - 1])
      BY <3>1, DirsRecursion
    <3>4. DirsWithin[m] \subseteq DirsWithin[i]
      BY <3>2, <3>3 DEF Grown
    <3> QED
      BY <3>1, <3>4
  <2> QED
    BY <2>1, <2>2
<1> HIDE DEF S, back, same
<1>4. m .. N \subseteq S
  BY <1>2, <1>3, RankInduction
<1> QED
  BY <1>4 DEF S

(* The directory that the running rmdir has found empty.                   *)
Leaving(D, c) == /\ op.pc = "free" /\ op.loc \in Placed(D)
                 /\ IsDir(CellAt(disk, op.loc)) /\ CellAt(disk, op.loc).first = c

(* Nothing is entered in a directory that is being removed.                *)
LEMMA LeavingEmpty ==
  ASSUME FatInv, NEW D, Consistent(D), NEW c, Leaving(D, c),
         NEW l \in Entries(fat, disk, D)
  PROVE  l[1] # c
<1>1. Vol(fat, disk, D, Doom(disk, op, torn), lost \cup Flying(fat, disk, op))
  BY DEF Consistent, Good
<1>2. CellAt(disk, op.loc).attr = "dir" /\ CellAt(disk, op.loc).first = c
  BY DEF Leaving, IsDir
<1>3. \A k \in CellIndex : ~Proper(disk[c][k])
  BY <1>2, FlightFacts DEF Leaving
<1>4. Proper(CellAt(disk, l)) /\ l[2] \in CellIndex
  BY <1>1, EntryCells
<1> QED
  BY <1>3, <1>4 DEF CellAt

(* Every directory of D is in the tree, unless it is being removed.        *)
LEMMA DirsReached ==
  ASSUME FatInv, NEW D, Consistent(D), NEW b \in D, ~Leaving(D, b)
  PROVE  b \in Dirs
<1> DEFINE N == Cardinality(Clusters)
<1> DEFINE C == D \ {Root}
<1> DEFINE X == Doom(disk, op, torn)
<1> DEFINE G == lost \cup Flying(fat, disk, op)
<1>1. Vol(fat, disk, D, X, G)
  BY DEF Consistent, Good
<1> HIDE DEF X, G
<1>2. D \subseteq Clusters /\ Root \in D /\ \A c \in C : Own(fat, c) = {c}
  BY <1>1, DirFacts
<1>3. PICK up \in [C -> D] :
        /\ Ranked(up, C)
        /\ \A c \in C : \E loc \in Entries(fat, disk, D) \ X :
             IsDir(CellAt(disk, loc)) /\ CellAt(disk, loc).first = c /\ loc[1] \in Own(fat, up[c])
  BY <1>1 DEF Vol, Sound, TreeSound
<1>4. N \in Nat /\ Cardinality(C) \in Nat /\ Cardinality(C) <= N
  <2>1. C \in SUBSET Clusters /\ IsFiniteSet(Clusters)
    BY <1>2, ClusterFacts
  <2>2. IsFiniteSet(C) /\ Cardinality(C) <= Cardinality(Clusters)
    BY <2>1, FS_Subset
  <2> QED
    BY <2>2, FS_CardinalityType, ClusterFacts
<1>5. PICK r \in [C -> 0 .. Cardinality(C) - 1] : \A c \in C : up[c] \in C => r[up[c]] < r[c]
  BY <1>3, Zenon DEF Ranked
<1>6. \A c \in C : r[c] \in 0 .. N - 1 /\ r[c] \in Nat /\ r[c] + 1 \in 1 .. N
  BY <1>4, <1>5
<1> DEFINE S == {c \in C : Leaving(D, c) \/ c \in DirsWithin[r[c] + 1]}
<1>7. Descends(up, C, r)
  BY <1>5, <1>6 DEF Descends
<1>8. Inherits(up, C, S)
  <2> SUFFICES ASSUME NEW c \in C, up[c] \in C => up[c] \in S, ~Leaving(D, c)
               PROVE  c \in DirsWithin[r[c] + 1]
    BY DEF Inherits
  <2>1. PICK l \in Entries(fat, disk, D) \ X :
          IsDir(CellAt(disk, l)) /\ CellAt(disk, l).first = c /\ l[1] \in Own(fat, up[c])
    BY <1>3
  <2>2. l \in Placed(D) /\ ~(op.pc = "free" /\ op.loc = l)
    <3>1. l \in Placed(D)
      BY <2>1 DEF Placed, Live, X
    <3> QED
      BY <2>1, <3>1 DEF Leaving
  <2>3. ~Leaving(D, up[c]) \/ up[c] = Root
    <3> SUFFICES ASSUME Leaving(D, up[c]), up[c] # Root PROVE FALSE
      OBVIOUS
    <3>1. l[1] = up[c]
      BY <2>1, <1>2, <1>3
    <3> QED
      BY <2>1, <3>1, LeavingEmpty
  <2>4. up[c] \in DirsWithin[r[c]]
    <3>1. CASE up[c] = Root
      <4>1. 0 \in 0 .. N /\ r[c] \in 0 .. N
        BY <1>4, <1>6
      <4>2. DirsWithin[0] \subseteq DirsWithin[r[c]]
        BY <4>1, DirsMonotone
      <4> QED
        BY <3>1, <4>2, DirsRecursion
    <3>2. CASE up[c] # Root
      <4>1. up[c] \in C /\ up[c] \in DirsWithin[r[up[c]] + 1]
        BY <3>2, <2>3, <1>3
      <4>2. r[up[c]] + 1 \in 0 .. N /\ r[c] \in r[up[c]] + 1 .. N
        BY <4>1, <1>4, <1>5, <1>6
      <4>3. DirsWithin[r[up[c]] + 1] \subseteq DirsWithin[r[c]]
        BY <4>2, DirsMonotone
      <4> QED
        BY <4>1, <4>3
    <3> QED
      BY <3>1, <3>2
  <2>5. l \in Kept(up[c]) /\ At(l) = CellAt(disk, l)
    <3>1. l \in Entries(fat, disk, D)
      BY <2>1
    <3>2. l \in Clusters \X CellIndex /\ Proper(CellAt(disk, l))
      BY <3>1, <1>1, EntryCells
    <3>3. l \in Own(fat, up[c]) \X CellIndex
      BY <2>1, <3>2
    <3>4. l \notin torn
      BY <2>1 DEF X, Doom
    <3> QED
      BY <2>2, <3>2, <3>3, <3>4 DEF Kept, Slots, ChainSet, At, CellAt
  <2>6. c \in Grown(DirsWithin[r[c]])
    BY <2>1, <2>4, <2>5 DEF Grown
  <2>7. r[c] + 1 \in 1 .. N /\ (r[c] + 1) - 1 = r[c]
    BY <1>6
  <2>8. DirsWithin[r[c] + 1] = Grown(DirsWithin[(r[c] + 1) - 1])
    BY <2>7, DirsRecursion
  <2> QED
    BY <2>6, <2>7, <2>8
<1> HIDE DEF S
<1>9. C \subseteq S
  BY <1>7, <1>8, RankInduction
<1>10. CASE b = Root
  <2>1. 0 \in 0 .. N /\ N \in 0 .. N
    BY <1>4
  <2>2. DirsWithin[0] \subseteq DirsWithin[N]
    BY <2>1, DirsMonotone
  <2> QED
    BY <1>10, <2>2, DirsRecursion DEF Dirs
<1>11. CASE b # Root
  <2>1. b \in C /\ b \in DirsWithin[r[b] + 1]
    BY <1>9, <1>11 DEF S
  <2>2. r[b] + 1 \in 0 .. N /\ N \in r[b] + 1 .. N
    BY <2>1, <1>4, <1>6
  <2>3. DirsWithin[r[b] + 1] \subseteq DirsWithin[N]
    BY <2>2, DirsMonotone
  <2> QED
    BY <2>1, <2>3 DEF Dirs
<1> QED
  BY <1>10, <1>11

(* The entries in place make up the tree, except for the victim of a       *)
(* removal that has not begun.                                             *)
LEMMA PlacedInTree ==
  ASSUME FatInv, NEW D, Consistent(D), NEW l \in Placed(D), ~(op.pc = "free" /\ op.loc = l)
  PROVE  l \in Tree
<1>1. Vol(fat, disk, D, Doom(disk, op, torn), lost \cup Flying(fat, disk, op))
  BY DEF Consistent, Good
<1>2. l \in Entries(fat, disk, D) /\ l \notin torn
  BY DEF Placed, Live, Doom
<1>3. /\ l \in Clusters \X CellIndex /\ l[1] \in D \cup Own(fat, Root) /\ Proper(CellAt(disk, l))
      /\ l = <<l[1], l[2]>> /\ l[2] \in CellIndex
  BY <1>1, <1>2, EntryCells
<1>4. ASSUME NEW c, l[1] \in Own(fat, c) PROVE l \in Kept(c)
  BY <1>2, <1>3, <1>4 DEF Kept, Slots, ChainSet, At, CellAt
<1>5. CASE l[1] \in Own(fat, Root)
  <2>1. ~Leaving(D, Root) /\ Root \in D
    <3>1. Root \in D /\ ~(op.loc \in Placed(D) /\ IsDir(CellAt(disk, op.loc))
                            /\ CellAt(disk, op.loc).first = Root)
      BY <1>1, DirFacts, LiveFacts DEF Placed, IsDir
    <3> QED
      BY <3>1 DEF Leaving
  <2>2. Root \in Dirs
    BY <2>1, DirsReached
  <2> QED
    BY <2>2, <1>4, <1>5 DEF Tree
<1>6. CASE l[1] \notin Own(fat, Root)
  <2>1. l[1] \in D \ {Root} /\ l[1] \in Own(fat, l[1])
    BY <1>1, <1>3, <1>6, DirFacts
  <2>2. ~Leaving(D, l[1])
    BY <1>2, LeavingEmpty
  <2>3. l[1] \in Dirs
    BY <2>1, <2>2, DirsReached
  <2> QED
    BY <2>1, <2>3, <1>4 DEF Tree
<1> QED
  BY <1>5, <1>6

LEMMA LeaksNothing == FatInv /\ VolumeInv => NoLeak
<1> DEFINE R == ChainSet(Root) \cup Held \cup InFlight \cup lost
<1> SUFFICES ASSUME FatInv, VolumeInv, ~poisoned PROVE FreeClusters = Clusters \ R
  BY DEF NoLeak, fat32_show_usage
<1>1. PICK D : Consistent(D)
  BY DEF VolumeInv, Consistent
<1>2. Vol(fat, disk, D, Doom(disk, op, torn), lost \cup Flying(fat, disk, op))
  BY <1>1 DEF Consistent, Good
<1>3. \A l \in Tree : l \in Placed(D) /\ ~(op.pc = "free" /\ op.loc = l) /\ At(l) = CellAt(disk, l)
  BY <1>1, TreePlaced
<1>4. \A l \in Placed(D) : l \in Tree \/ (op.pc = "free" /\ op.loc = l)
  BY <1>1, PlacedInTree
<1>5. ASSUME NEW c \in Clusters PROVE fat[c] # FREE <=> c \in R
  <2>1. fat[c] # FREE
          <=> \/ c \in Own(fat, Root) \cup (lost \cup Flying(fat, disk, op))
              \/ \E loc \in Placed(D) : c \in Own(fat, CellAt(disk, loc).first)
    BY <1>2 DEF Vol, Sound, Placed, Live
  <2>2. c \in Held <=> \E loc \in Tree : c \in Own(fat, CellAt(disk, loc).first)
    BY <1>3 DEF Held, Owned, ChainSet
  <2>3. CASE op.pc = "free" /\ op.loc \in Placed(D)
    <3>1. InFlight = Own(fat, CellAt(disk, op.loc).first) /\ Flying(fat, disk, op) = {}
      BY <2>3, <1>1, FlightFacts
    <3>2. (\E loc \in Placed(D) : c \in Own(fat, CellAt(disk, loc).first))
            <=> \/ c \in InFlight
                \/ \E loc \in Tree : c \in Own(fat, CellAt(disk, loc).first)
      BY <2>3, <3>1, <1>3, <1>4
    <3> QED
      BY <2>1, <2>2, <3>1, <3>2 DEF ChainSet
  <2>4. CASE ~(op.pc = "free" /\ op.loc \in Placed(D))
    <3>1. InFlight = Flying(fat, disk, op)
      BY <2>4, <1>1, FlightFacts
    <3>2. (\E loc \in Placed(D) : c \in Own(fat, CellAt(disk, loc).first))
            <=> \E loc \in Tree : c \in Own(fat, CellAt(disk, loc).first)
      BY <2>4, <1>3, <1>4
    <3> QED
      BY <2>1, <2>2, <3>1, <3>2 DEF ChainSet
  <2> QED
    BY <2>3, <2>4
<1> QED
  BY <1>5 DEF FreeClusters

(* Every cluster that the FAT calls reserved is in the tree, in the hands  *)
(* of the running command or among those given up: rm and rmdir give back  *)
(* all they own, and df counts what is free.                               *)
THEOREM NothingLeaks == Spec => []NoLeak
  BY VolumeAlways, LeaksNothing, PTL

-----------------------------------------------------------------------------
(* Directories end with their first 0x00 and hold no text.                 *)

(* No cluster comes twice in a chain.                                      *)
LEMMA ChainOnce ==
  ASSUME NEW f, Linked(f), NEW c \in Clusters
  PROVE  \A i, j \in DOMAIN Chains(f)[c] : Chains(f)[c][i] = Chains(f)[c][j] => i = j
<1>1. PICK r : Descends(f, Clusters, r)
  BY LinkedRank
<1> DEFINE Once(s) == \A i, j \in DOMAIN s : s[i] = s[j] => i = j
<1> DEFINE S == {z \in Clusters : Once(Chains(f)[z])}
<1>2. ASSUME NEW z \in Clusters, f[z] \in Clusters => f[z] \in S PROVE z \in S
  <2> DEFINE t == Chains(f)[f[z]]  s == Chains(f)[z]
  <2>1. f[z] \in Links
    BY OwnUnfold
  <2>2. t \in Seq(Clusters) /\ s = <<z>> \o t /\ z \notin Range(t)
    BY <2>1, ChainUnfold, NotAgain DEF Own
  <2>3. Once(t)
    <3>1. CASE f[z] \in Clusters
      BY <3>1, <1>2
    <3>2. CASE f[z] \notin Clusters
      BY <3>2, <2>1, ChainUnfold
    <3> QED
      BY <3>1, <3>2
  <2> HIDE DEF s, t
  <2>4. /\ Len(s) = 1 + Len(t) /\ s[1] = z /\ DOMAIN s = 1 .. Len(s) /\ DOMAIN t = 1 .. Len(t)
        /\ Len(t) \in Nat /\ \A k \in 1 .. Len(t) : s[k + 1] = t[k]
    BY <2>2
  <2>5. ASSUME NEW k \in DOMAIN s, k # 1 PROVE k - 1 \in DOMAIN t /\ s[k] = t[k - 1]
    <3>1. k - 1 \in 1 .. Len(t) /\ (k - 1) + 1 = k
      BY <2>4, <2>5
    <3> QED
      BY <3>1, <2>4
  <2>6. ASSUME NEW i \in DOMAIN s, NEW j \in DOMAIN s, s[i] = s[j] PROVE i = j
    <3>1. CASE i = 1 /\ j = 1
      BY <3>1
    <3>2. CASE i = 1 /\ j # 1
      BY <3>2, <2>2, <2>4, <2>5, <2>6 DEF Range
    <3>3. CASE i # 1 /\ j = 1
      BY <3>3, <2>2, <2>4, <2>5, <2>6 DEF Range
    <3>4. CASE i # 1 /\ j # 1
      <4>1. i - 1 = j - 1
        BY <3>4, <2>3, <2>5, <2>6
      <4>2. i \in Int /\ j \in Int
        BY <2>4
      <4> QED
        BY <4>1, <4>2
    <3> QED
      BY <3>1, <3>2, <3>3, <3>4
  <2>7. Once(s)
    BY <2>6
  <2> QED
    BY <2>7 DEF s
<1>3. Clusters \subseteq S
  <2> HIDE DEF S
  <2>1. Inherits(f, Clusters, S)
    BY <1>2 DEF Inherits
  <2> QED
    BY <2>1, <1>1, RankInduction
<1> QED
  BY <1>3

(* The cells of the chain that begins at c, in the order they are read.    *)
LEMMA DirWalk ==
  ASSUME NEW f, Linked(f), NEW c \in Clusters
  PROVE  LET w == Walk(Chains(f)[c])
         IN /\ \E n \in Nat : DOMAIN w = 1 .. n
            /\ \A k \in DOMAIN w : w[k] \in Own(f, c) \X CellIndex
            /\ \A i, j \in DOMAIN w : w[i] = w[j] => i = j
            /\ \A l \in Own(f, c) \X CellIndex : \E k \in DOMAIN w : w[k] = l
            /\ \A k \in CellIndex : k + 1 \in DOMAIN w /\ w[k + 1] = <<c, k>>
<1> DEFINE s == Chains(f)[c]  w == Walk(s)
<1>1. s \in Seq(Clusters) /\ Range(s) = Own(f, c) /\ Len(s) \in Nat
  BY ChainLen, ClusterFacts DEF Own
<1>2. 1 \in DOMAIN s /\ s[1] = c
  <2> DEFINE t == Chains(f)[f[c]]
  <2>1. f[c] \in Links
    BY OwnUnfold
  <2>2. t \in Seq(Clusters) /\ s = <<c>> \o t
    BY <2>1, ChainUnfold
  <2> HIDE DEF s, t
  <2> QED
    BY <2>2
<1>3. \A i, j \in DOMAIN s : s[i] = s[j] => i = j
  BY ChainOnce
<1> HIDE DEF s
<1>4. DOMAIN w = 1 .. Len(s) * CellsPerCluster /\ Len(s) * CellsPerCluster \in Nat
  BY <1>1, WalkCells, Geometry
<1>5. \A k \in DOMAIN w : w[k] \in Own(f, c) \X CellIndex
  BY <1>1, WalkCells
<1>6. \A i, j \in DOMAIN w : w[i] = w[j] => i = j
  BY <1>1, <1>3, WalkOnce
<1>7. ASSUME NEW l \in Own(f, c) \X CellIndex PROVE \E k \in DOMAIN w : w[k] = l
  <2>1. PICK i \in DOMAIN s : s[i] = l[1]
    BY <1>1 DEF Range
  <2>2. l[2] \in CellIndex /\ l = <<l[1], l[2]>>
    OBVIOUS
  <2> DEFINE k == CellsPerCluster * (i - 1) + l[2] + 1
  <2>3. k \in DOMAIN w /\ w[k] = <<s[i], l[2]>>
    BY <2>2, <1>1, WalkOnto
  <2> HIDE DEF k, w
  <2> QED
    BY <2>1, <2>2, <2>3
<1>8. ASSUME NEW k \in CellIndex PROVE k + 1 \in DOMAIN w /\ w[k + 1] = <<c, k>>
  <2> DEFINE p == CellsPerCluster * (1 - 1) + k + 1
  <2>1. p \in DOMAIN w /\ w[p] = <<c, k>>
    BY <1>1, <1>2, WalkOnto
  <2>2. p = k + 1
    BY Geometry
  <2> QED
    BY <2>1, <2>2
<1> QED
  BY <1>4, <1>5, <1>6, <1>7, <1>8 DEF s

LEMMA TidyFrame ==
  ASSUME NEW f, NEW g, NEW d, NEW e, NEW c \in Clusters, Linked(f), Chains(g)[c] = Chains(f)[c],
         \A b \in Own(f, c) : \A k \in CellIndex : e[b][k] = d[b][k], Tidy(f, d, c)
  PROVE  Tidy(g, e, c)
<1> DEFINE w == Walk(Chains(f)[c])
<1>1. w = Walk(Chains(g)[c])
  OBVIOUS
<1>2. /\ \E n \in Nat : DOMAIN w = 1 .. n
      /\ \A k \in DOMAIN w : w[k] \in Own(f, c) \X CellIndex
  BY DirWalk
<1>3. \A k \in DOMAIN w : /\ CellAt(d, w[k]).tag # "text"
                          /\ \A j \in 1 .. k - 1 : CellAt(d, w[j]) = Zero => CellAt(d, w[k]) = Zero
  BY DEF Tidy
<1> HIDE DEF w
<1>4. \A k \in DOMAIN w : CellAt(e, w[k]) = CellAt(d, w[k])
  BY <1>2 DEF CellAt
<1>5. \A k \in DOMAIN w : \A j \in 1 .. k - 1 : j \in DOMAIN w
  BY <1>2
<1>6. \A k \in DOMAIN w : /\ CellAt(e, w[k]).tag # "text"
                          /\ \A j \in 1 .. k - 1 : CellAt(e, w[j]) = Zero => CellAt(e, w[k]) = Zero
  BY <1>3, <1>4, <1>5
<1> QED
  BY <1>1, <1>6 DEF Tidy

(* An entry or a 0xE5 is written where no 0x00 comes before.               *)
LEMMA TidyPut ==
  ASSUME NEW f, NEW d, NEW c \in Clusters, Linked(f), IsDisk(d), Tidy(f, d, c),
         NEW x \in Cell, x.tag # "text", x # Zero,
         NEW i \in DOMAIN Walk(Chains(f)[c]),
         \A j \in 1 .. i - 1 : CellAt(d, Walk(Chains(f)[c])[j]) # Zero
  PROVE  Tidy(f, Put(d, Walk(Chains(f)[c])[i], x), c)
<1> DEFINE w == Walk(Chains(f)[c])  e == Put(d, w[i], x)
<1>2. /\ \E n \in Nat : DOMAIN w = 1 .. n
      /\ \A k \in DOMAIN w : w[k] \in Own(f, c) \X CellIndex
      /\ \A k, j \in DOMAIN w : w[k] = w[j] => k = j
  BY DirWalk
<1>3. \A k \in DOMAIN w : /\ CellAt(d, w[k]).tag # "text"
                          /\ \A j \in 1 .. k - 1 : CellAt(d, w[j]) = Zero => CellAt(d, w[k]) = Zero
  BY DEF Tidy
<1>4. i \in DOMAIN w /\ \A j \in 1 .. i - 1 : CellAt(d, w[j]) # Zero
  OBVIOUS
<1> HIDE DEF w
<1>5. \A k \in DOMAIN w : w[k] \in Clusters \X CellIndex
  BY <1>2, OwnUnfold, ClusterFacts
<1>6. CellAt(e, w[i]) = x /\ \A k \in DOMAIN w : w[k] # w[i] => CellAt(e, w[k]) = CellAt(d, w[k])
  BY <1>4, <1>5, PutFacts
<1> HIDE DEF e
<1>7. \A k \in DOMAIN w : \A j \in 1 .. k - 1 : j \in DOMAIN w
  BY <1>2
<1>8. ASSUME NEW k \in DOMAIN w
      PROVE  /\ CellAt(e, w[k]).tag # "text"
             /\ \A j \in 1 .. k - 1 : CellAt(e, w[j]) = Zero => CellAt(e, w[k]) = Zero
  <2>1. CellAt(e, w[k]).tag # "text"
    BY <1>3, <1>6
  <2>2. ASSUME NEW j \in 1 .. k - 1, CellAt(e, w[j]) = Zero PROVE CellAt(e, w[k]) = Zero
    <3>1. w[j] # w[i] /\ CellAt(d, w[j]) = Zero
      BY <2>2, <1>6, <1>7
    <3>2. CellAt(d, w[k]) = Zero
      BY <3>1, <1>3
    <3>3. k # i
      BY <3>1, <1>4
    <3> QED
      BY <3>2, <3>3, <1>2, <1>4, <1>6
  <2> QED
    BY <2>1, <2>2
<1> QED
  BY <1>8 DEF Tidy, w, e

(* The directory that mkdir has initialised.                               *)
LEMMA FreshTidy ==
  ASSUME FatInv, NEW D, Consistent(D), op.pc = "slot"
  PROVE  Tidy(fat, disk, op.cur) /\ Own(fat, op.cur) = {op.cur}
<1> DEFINE c == op.cur  w == Walk(Chains(fat)[c])
<1>1. c \in Clusters /\ fat[c] = EOC /\ Linked(fat) /\ cwd \in Clusters /\ Initialised(disk, cwd, op)
  BY MkdirState DEF FatInv
<1>2. Own(fat, c) = {c}
  <2>1. EOC \in Links \ Clusters
    BY ClusterFacts DEF Valid
  <2> QED
    BY <2>1, <1>1, OwnUnfold
<1>3. \A k \in CellIndex : disk[c][k] = Dots(c, cwd)[k]
  BY <1>1 DEF Initialised
<1>4. \A k \in DOMAIN w : w[k] \in {c} \X CellIndex
  BY <1>1, <1>2, DirWalk
<1>5. \A k \in CellIndex : k + 1 \in DOMAIN w /\ w[k + 1] = <<c, k>>
  <2> HIDE DEF c
  <2>1. c \in Clusters /\ Linked(fat)
    BY <1>1
  <2>2. LET v == Walk(Chains(fat)[c]) IN \A k \in CellIndex : k + 1 \in DOMAIN v /\ v[k + 1] = <<c, k>>
    BY <2>1, DirWalk
  <2> QED
    BY <2>2
<1>6. \A i, j \in DOMAIN w : w[i] = w[j] => i = j
  BY <1>1, DirWalk
<1>7. PICK n \in Nat : DOMAIN w = 1 .. n
  BY <1>1, DirWalk
<1> HIDE DEF c, w
<1>8. ASSUME NEW k \in DOMAIN w PROVE k - 1 \in CellIndex /\ CellAt(disk, w[k]) = Dots(c, cwd)[k - 1]
  <2>1. w[k][2] \in CellIndex /\ w[k] = <<c, w[k][2]>>
    BY <1>4
  <2>2. w[k][2] + 1 = k
    BY <2>1, <1>5, <1>6
  <2>3. w[k][2] \in Nat
    BY <2>1, Geometry
  <2>4. k - 1 = w[k][2]
    BY <2>2, <2>3
  <2>5. CellAt(disk, w[k]) = disk[c][w[k][2]]
    BY <2>1 DEF CellAt
  <2> QED
    BY <2>1, <2>4, <2>5, <1>3
<1>9. /\ \A k \in CellIndex : Dots(c, cwd)[k].tag # "text"
      /\ \A k \in CellIndex : Dots(c, cwd)[k] = Zero <=> k # 0 /\ k # 1
  BY DEF Dots, Entry, Zero
<1>10. ASSUME NEW k \in DOMAIN w, NEW j \in 1 .. k - 1, CellAt(disk, w[j]) = Zero
       PROVE  CellAt(disk, w[k]) = Zero
  <2>1. j \in DOMAIN w /\ k \in Nat /\ j \in Nat
    BY <1>7
  <2>2. j - 1 # 0 /\ j - 1 # 1
    BY <2>1, <1>8, <1>9, <1>10
  <2>3. k - 1 # 0 /\ k - 1 # 1
    BY <2>1, <2>2
  <2> QED
    BY <2>3, <1>8, <1>9
<1>11. \A k \in DOMAIN w : CellAt(disk, w[k]).tag # "text"
  BY <1>8, <1>9
<1> QED
  BY <1>2, <1>10, <1>11 DEF Tidy, w, c

(* A directory's clusters are in use, and in nobody's hands.               *)
LEMMA DirClusters ==
  ASSUME FatInv, NEW D, Consistent(D), NEW c \in D
  PROVE  /\ c \in Clusters /\ Linked(fat) /\ IsDisk(disk) /\ Own(fat, c) \subseteq Clusters
         /\ Vol(fat, disk, D, Doom(disk, op, torn), lost \cup Flying(fat, disk, op))
         /\ \A b \in Own(fat, c) : /\ b \in D \cup Own(fat, Root) /\ fat[b] # FREE
                                   /\ b \notin Flying(fat, disk, op)
         /\ \A b \in D : b # c => Own(fat, b) \cap Own(fat, c) = {}
<1>1. Vol(fat, disk, D, Doom(disk, op, torn), lost \cup Flying(fat, disk, op))
  BY DEF Consistent, Good
<1>2. Linked(fat) /\ IsDisk(disk)
  BY DEF FatInv, Typed
<1>3. c \in Clusters /\ D \subseteq Clusters
  BY <1>1, DirFacts
<1>4. Own(fat, c) \subseteq D \cup Own(fat, Root)
  <2>1. \A b \in D \ {Root} : Own(fat, b) = {b}
    BY <1>1, DirFacts
  <2> QED
    BY <2>1
<1>5. \A b \in D \cup Own(fat, Root) : fat[b] # FREE /\ b \notin Flying(fat, disk, op)
  BY <1>1, DirFacts DEF Used
<1>6. \A b \in D : b # c => Own(fat, b) \cap Own(fat, c) = {}
  <2>1. \A b \in D \ {Root} : Own(fat, b) = {b} /\ b \notin Own(fat, Root)
    BY <1>1, DirFacts
  <2> QED
    BY <2>1
<1>7. Own(fat, c) \subseteq Clusters
  BY <1>2, <1>3, OwnUnfold, ClusterFacts
<1> QED
  BY <1>1, <1>2, <1>3, <1>4, <1>5, <1>6, <1>7

(* A directory's chain and cells stay as they are.                         *)
Unmoved(c) == /\ Chains(fat')[c] = Chains(fat)[c]
              /\ \A b \in Own(fat, c) : \A k \in CellIndex : disk'[b][k] = disk[b][k]

(* Clusters are reserved, data is written to clusters in flight.           *)
LEMMA UnmovedReserve ==
  ASSUME FatInv, FatInv', NEW D, Consistent(D), NEW c \in D,
         \A b \in Clusters : fat'[b] # fat[b] => fat[b] = FREE \/ b \in Flying(fat, disk, op),
         \A b \in Clusters : b \notin Flying(fat, disk, op) => disk'[b] = disk[b]
  PROVE  Unmoved(c)
<1>1. /\ c \in Clusters /\ Linked(fat) /\ Own(fat, c) \subseteq Clusters
      /\ \A b \in Own(fat, c) : fat[b] # FREE /\ b \notin Flying(fat, disk, op)
  BY DirClusters
<1>2. Linked(fat')
  BY DEF FatInv
<1>3. Chains(fat')[c] = Chains(fat)[c]
  <2>1. \A b \in Own(fat, c) : fat'[b] = fat[b]
    BY <1>1
  <2>2. c \in Links
    BY <1>1, ClusterFacts
  <2> QED
    BY <2>1, <2>2, <1>1, <1>2, ChainFrame
<1> QED
  BY <1>1, <1>3 DEF Unmoved

(* Clusters are freed, but none of c.                                      *)
LEMMA UnmovedFree ==
  ASSUME FatInv, FatInv', NEW E, Consistent(E)', NEW c \in E, disk' = disk,
         \A b \in Clusters : fat'[b] # fat[b] => fat'[b] = FREE
  PROVE  Unmoved(c)
<1>1. Good(fat', disk', cwd', op', torn', lost', E) /\ Linked(fat) /\ Linked(fat')
  BY DEF Consistent, FatInv
<1>2. Vol(fat', disk', E, Doom(disk', op', torn'), lost' \cup Flying(fat', disk', op'))
  BY <1>1 DEF Good
<1>3. /\ E \subseteq Clusters /\ \A b \in E \cup Own(fat', Root) : fat'[b] # FREE
      /\ \A b \in E \ {Root} : Own(fat', b) = {b}
  BY <1>2, DirFacts DEF Used
<1>4. Own(fat', c) \subseteq Clusters /\ \A b \in Own(fat', c) : fat'[b] # FREE
  <2>1. c \in Links
    BY <1>3, ClusterFacts
  <2>2. Own(fat', c) \subseteq Clusters
    BY <2>1, <1>1, OwnUnfold
  <2> QED
    BY <2>2, <1>3
<1>5. Chains(fat)[c] = Chains(fat')[c]
  <2>1. \A b \in Own(fat', c) : fat[b] = fat'[b]
    BY <1>4
  <2> QED
    BY <2>1, <1>1, <1>3, ChainFrame, ClusterFacts
<1> QED
  BY <1>5 DEF Unmoved

(* An entry is written elsewhere.                                          *)
LEMMA TidyAway ==
  ASSUME FatInv, NEW c \in Clusters, Tidy(fat, disk, c), NEW l \in Clusters \X CellIndex, NEW x \in Cell,
         fat' = fat, disk' = Put(disk, l, x), l[1] \notin Own(fat, c)
  PROVE  Tidy(fat', disk', c)
<1>1. Linked(fat) /\ IsDisk(disk) /\ Own(fat, c) \subseteq Clusters
  BY OwnUnfold, ClusterFacts DEF FatInv, Typed
<1>2. \A b \in Own(fat, c) : \A k \in CellIndex : disk'[b][k] = disk[b][k]
  BY <1>1, PutFacts
<1> QED
  BY <1>1, <1>2, TidyFrame
-----------------------------------------------------------------------------
(* What a step does to a directory that it does not write an entry to.     *)

LEMMA UnmovedWriteLink ==
  ASSUME FatInv, FatInv', WriteFirst \/ WriteLink, NEW D, Consistent(D), NEW c \in D
  PROVE  Unmoved(c)
<1>1. CASE UNCHANGED <<fat, disk>>
  BY <1>1 DEF Unmoved
<1>2. CASE ~UNCHANGED <<fat, disk>>
  <2>1. /\ op.pc = "alloc" /\ disk' = disk /\ FreeClusters # {}
        /\ \/ fat' = With(fat, find_free_cluster, EOC)
           \/ op.i > 0 /\ fat' = With(fat, op.prev, find_free_cluster)
    BY <1>2 DEF WriteFirst, WriteLink, WriteFails, set_next_cluster, With, Continue
  <2>2. find_free_cluster \in Clusters /\ fat[find_free_cluster] = FREE
    BY <2>1, FindFree
  <2>3. fat \in FatType
    BY DEF FatInv, Linked
  <2>4. op.i > 0 => op.prev \in Flying(fat, disk, op)
    <3>1. op.i > 0 => /\ op.prev \in Own(fat, op.first) /\ fat[op.prev] = EOC
      BY <2>1 DEF FatInv, Building
    <3>2. Own(fat, op.first) \subseteq Clusters
      BY <2>1, WriteState, OwnUnfold
    <3> QED
      BY <3>1, <3>2, <2>1, ClusterFacts DEF Flying
  <2>5. \A b \in Clusters : fat'[b] # fat[b] => fat[b] = FREE \/ b \in Flying(fat, disk, op)
    BY <2>1, <2>2, <2>3, <2>4 DEF With, FatType
  <2> QED
    BY <2>1, <2>5, UnmovedReserve
<1> QED
  BY <1>1, <1>2

LEMMA UnmovedWriteMark ==
  ASSUME FatInv, FatInv', WriteMark, NEW D, Consistent(D), NEW c \in D
  PROVE  Unmoved(c)
<1>1. op.pc = "mark" /\ disk' = disk /\ fat' = With(fat, op.cur, EOC)
  BY DEF WriteMark, set_next_cluster, With
<1>2. fat[op.cur] = FREE /\ fat \in FatType
  BY <1>1 DEF FatInv, Building, Linked
<1>3. \A b \in Clusters : fat'[b] # fat[b] => fat[b] = FREE
  BY <1>1, <1>2 DEF With, FatType
<1> QED
  BY <1>1, <1>3, UnmovedReserve

LEMMA UnmovedMkdir ==
  ASSUME FatInv, FatInv', NEW n \in DirNames, create_directory(n), NEW D, Consistent(D), NEW c \in D
  PROVE  Unmoved(c)
<1>1. CASE UNCHANGED vars
  BY <1>1 DEF vars, Unmoved
<1>2. CASE ~UNCHANGED vars
  <2>1. disk' = disk /\ FreeClusters # {} /\ fat' = With(fat, find_free_cluster, EOC)
    BY <1>2 DEF create_directory, set_next_cluster, With
  <2>2. find_free_cluster \in Clusters /\ fat[find_free_cluster] = FREE
    BY <2>1, FindFree
  <2>3. fat \in FatType
    BY DEF FatInv, Linked
  <2>4. \A b \in Clusters : fat'[b] # fat[b] => fat[b] = FREE
    BY <2>1, <2>2, <2>3 DEF With, FatType
  <2> QED
    BY <2>1, <2>4, UnmovedReserve
<1> QED
  BY <1>1, <1>2

LEMMA UnmovedWriteData ==
  ASSUME FatInv, FatInv', WriteData, NEW D, Consistent(D), NEW c \in D
  PROVE  Unmoved(c)
<1> DEFINE cells == [k \in CellIndex |-> Chunk(ChunkOffset(op.i, op.s), k)]
<1>1. op.pc = "data" /\ fat' = fat /\ disk' = PutSector(disk, op.cur, op.s, cells)
  BY DEF WriteData, disk_write, PutSector
<1>2. op \in WriteOp /\ IsDisk(disk)
  BY <1>1, OpKinds DEF FatInv, Typed
<1>3. op.cur \in Own(fat, op.first) /\ fat[op.cur] = EOC /\ Own(fat, op.first) \subseteq Clusters
  BY <1>1, WriteState, OwnUnfold DEF FatInv, Building
<1>4. op.cur \in Flying(fat, disk, op)
  BY <1>1, <1>3, ClusterFacts DEF Flying
<1>5. \A k \in CellIndex : cells[k] \in Cell
  BY <1>2, ChunkCell
<1> HIDE DEF cells
<1>6. \A b \in Clusters : b # op.cur => disk'[b] = disk[b]
  BY <1>1, <1>2, <1>3, <1>5, SectorFacts
<1> QED
  BY <1>1, <1>4, <1>6, UnmovedReserve

LEMMA UnmovedMkdirInit ==
  ASSUME FatInv, FatInv', MkdirInit, NEW D, Consistent(D), NEW c \in D
  PROVE  Unmoved(c)
<1>1. /\ op.pc = "init" /\ fat' = fat
      /\ disk' = PutSector(disk, op.cur, op.s, Dots(op.cur, cwd))
  BY DEF MkdirInit, disk_write, PutSector
<1>2. op.cur \in Clusters /\ cwd \in Clusters /\ IsDisk(disk)
  BY <1>1, MkdirState
<1>3. op.cur \in Flying(fat, disk, op)
  BY <1>1, <1>2 DEF Flying
<1>4. \A b \in Clusters : b # op.cur => disk'[b] = disk[b]
  BY <1>1, <1>2, DotsCells, SectorFacts
<1> QED
  BY <1>1, <1>3, <1>4, UnmovedReserve

LEMMA UnmovedRemoveCluster ==
  ASSUME FatInv, FatInv', RemoveCluster, NEW E, Consistent(E)', NEW c \in E
  PROVE  Unmoved(c)
<1>1. disk' = disk /\ fat' = With(fat, op.cur, FREE) /\ op.cur \in Clusters
  BY DEF RemoveCluster, set_next_cluster, With, Valid
<1>2. fat \in FatType
  BY DEF FatInv, Linked
<1>3. \A b \in Clusters : fat'[b] # fat[b] => fat'[b] = FREE
  BY <1>1, <1>2 DEF With, FatType
<1> QED
  BY <1>1, <1>3, UnmovedFree

-----------------------------------------------------------------------------
(* Directories stay tidy, step by step.                                    *)

LEMMA TidyWriteEntry ==
  ASSUME FatInv, FatInv', WriteEntry, NEW D, Consistent(D), NEW c \in D, Tidy(fat, disk, c)
  PROVE  Tidy(fat', disk', c)
<1> DEFINE l == free_slot(Chain(cwd))
<1>1. CASE l = NoLoc
  BY <1>1 DEF WriteEntry, WriteFails
<1>2. CASE l # NoLoc
  <2> DEFINE x == Entry(op.name, "file", op.first, op.size)
  <2>1. op.pc = "alloc" /\ fat' = fat /\ disk' = Put(disk, l, x)
    BY <1>2 DEF WriteEntry, put_entry, Put
  <2>2. /\ op \in WriteOp /\ op.size \in Nat /\ cwd \in D \cup TornDirs(disk, torn)
        /\ Vol(fat, disk, D, torn, lost \cup Marked(fat, op))
    BY <2>1, WriteState
  <2>3. x \in Cell /\ x.tag = "entry"
    <3>1. op.name \in FileNames /\ op.first \in Clusters \cup {0}
      BY <2>2 DEF WriteOp
    <3> QED
      BY <3>1, <2>2, FileEntry DEF Entry
  <2>4. Linked(fat) /\ IsDisk(disk) /\ cwd \in Clusters /\ c \in Clusters
    BY DirClusters DEF FatInv, Typed
  <2>5. Chain(cwd) \in Seq(Clusters) /\ Range(Chain(cwd)) = Own(fat, cwd)
    BY <2>4, ChainLen, ClusterFacts DEF Chain, Own
  <2>6. l \in Own(fat, cwd) \X CellIndex
    BY <1>2, <2>5, FreeSlot
  <2>7. PICK i \in DOMAIN Walk(Chain(cwd)) : /\ l = Walk(Chain(cwd))[i]
                                             /\ \A j \in 1 .. i - 1 : ~IsFree(At(Walk(Chain(cwd))[j]))
    BY <1>2, <2>5, FreeSlot
  <2> HIDE DEF l, x
  <2>8. l \in Clusters \X CellIndex
    BY <2>4, <2>6, OwnUnfold, ClusterFacts
  <2>9. CASE c = cwd
    <3>1. \A j \in 1 .. i - 1 : CellAt(disk, Walk(Chains(fat)[c])[j]) # Zero
      BY <2>7, <2>9 DEF Chain, IsFree, At, CellAt, Zero
    <3>2. i \in DOMAIN Walk(Chains(fat)[c]) /\ l = Walk(Chains(fat)[c])[i]
      BY <2>7, <2>9 DEF Chain
    <3>3. x.tag # "text" /\ x # Zero
      BY <2>3 DEF Zero
    <3>4. Tidy(fat, Put(disk, Walk(Chains(fat)[c])[i], x), c)
      BY <3>1, <3>2, <3>3, <2>3, <2>4, TidyPut
    <3> QED
      BY <3>2, <3>4, <2>1
  <2>10. CASE c # cwd
    <3>1. l[1] \notin Own(fat, c)
      <4>1. Own(fat, c) \subseteq D \cup Own(fat, Root)
        BY DirClusters
      <4>2. CASE cwd \in D
        BY <4>2, <2>6, <2>10, DirClusters
      <4>3. CASE cwd \in TornDirs(disk, torn)
        BY <4>1, <4>3, <2>2, <2>6, WhereCwd
      <4> QED
        BY <4>2, <4>3, <2>2
    <3> QED
      BY <3>1, <2>1, <2>3, <2>4, <2>8, TidyAway
  <2> QED
    BY <2>9, <2>10
<1> QED
  BY <1>1, <1>2

(* The first cluster of a directory comes first in its walk.               *)
LEMMA FirstCluster ==
  ASSUME NEW f, Linked(f), NEW c \in Clusters, NEW k \in DOMAIN Walk(<<c>>)
  PROVE  /\ k \in DOMAIN Walk(Chains(f)[c]) /\ Walk(<<c>>)[k] = Walk(Chains(f)[c])[k]
         /\ Walk(<<c>>)[k] \in {c} \X CellIndex /\ k \in Nat /\ \A j \in 1 .. k - 1 : j \in DOMAIN Walk(<<c>>)
<1> DEFINE s == <<c>>
<1>1. s \in Seq(Clusters) /\ Len(s) = 1 /\ s[1] = c
  OBVIOUS
<1>2. PICK q \in Nat, m \in CellIndex : /\ q < Len(s) /\ k = CellsPerCluster * q + m + 1
                                        /\ Walk(s)[k] = <<s[1 + q], m>>
  BY <1>1, WalkAt
<1>3. q = 0
  BY <1>1, <1>2
<1>4. k = m + 1 /\ Walk(s)[k] = <<c, m>>
  BY <1>1, <1>2, <1>3, Geometry
<1>5. m + 1 \in DOMAIN Walk(Chains(f)[c]) /\ Walk(Chains(f)[c])[m + 1] = <<c, m>>
  BY DirWalk
<1>6. k \in Nat /\ \A j \in 1 .. k - 1 : j \in DOMAIN Walk(s)
  <2>1. DOMAIN Walk(s) = 1 .. Len(s) * CellsPerCluster
    BY <1>1, WalkCells
  <2>2. Len(s) * CellsPerCluster \in Nat
    BY <1>1, Geometry
  <2> QED
    BY <2>1, <2>2
<1> QED
  BY <1>4, <1>5, <1>6

LEMMA TidyMkdirEntry ==
  ASSUME FatInv, FatInv', MkdirEntry, NEW D, Consistent(D), NEW c, c \in D \/ c = op.cur,
         Tidy(fat, disk, c)
  PROVE  Tidy(fat', disk', c)
<1> DEFINE l == free_slot(<<cwd>>)
<1> DEFINE x == Entry(op.name, "dir", op.cur, 0)
<1>1. op.pc = "slot" /\ l # NoLoc /\ fat' = fat /\ disk' = Put(disk, l, x)
  BY DEF MkdirEntry, put_entry, Put
<1>2. /\ op \in MkdirOp /\ op.cur \in Clusters /\ cwd \in D /\ cwd \in Clusters /\ IsDisk(disk)
      /\ op.cur \notin D /\ Own(fat, op.cur) = {op.cur} /\ Linked(fat)
  BY <1>1, MkdirState, FreshTidy DEF FatInv
<1>3. x \in Cell /\ x.tag = "entry"
  <2>1. op.name \in DirNames /\ op.cur \in Clusters \cup {0}
    BY <1>2 DEF MkdirOp
  <2> QED
    BY <2>1, DirEntry DEF Entry
<1>4. <<cwd>> \in Seq(Clusters)
  BY <1>2
<1>5. PICK i \in DOMAIN Walk(<<cwd>>) : /\ l = Walk(<<cwd>>)[i]
                                        /\ \A j \in 1 .. i - 1 : ~IsFree(At(Walk(<<cwd>>)[j]))
  BY <1>1, <1>4, FreeSlot
<1> HIDE DEF l, x
<1>6. l \in {cwd} \X CellIndex /\ c \in Clusters
  BY <1>2, <1>5, FirstCluster, DirClusters
<1>7. CASE c = cwd
  <2> DEFINE w == Walk(Chains(fat)[c])
  <2>1. i \in DOMAIN w /\ l = w[i] /\ \A j \in 1 .. i - 1 : j \in DOMAIN Walk(<<cwd>>)
    BY <1>2, <1>5, <1>7, FirstCluster
  <2>2. \A j \in 1 .. i - 1 : w[j] = Walk(<<cwd>>)[j]
    BY <2>1, <1>2, <1>7, FirstCluster
  <2>3. \A j \in 1 .. i - 1 : CellAt(disk, w[j]) # Zero
    <3> SUFFICES ASSUME NEW j \in 1 .. i - 1 PROVE CellAt(disk, w[j]) # Zero
      OBVIOUS
    <3>1. ~IsFree(CellAt(disk, w[j]))
      BY <2>2, <1>5 DEF At, CellAt
    <3> QED
      BY <3>1 DEF IsFree, Zero
  <2>4. x.tag # "text" /\ x # Zero
    BY <1>3 DEF Zero
  <2>5. Tidy(fat, Put(disk, w[i], x), c)
    BY <2>1, <2>3, <2>4, <1>2, <1>3, <1>6, TidyPut
  <2> QED
    BY <2>1, <2>5, <1>1
<1>8. CASE c # cwd
  <2>1. l[1] = cwd /\ l \in Clusters \X CellIndex /\ cwd \in Own(fat, cwd)
    BY <1>2, <1>6, OwnUnfold
  <2>2. l[1] \notin Own(fat, c)
    BY <2>1, <1>2, <1>8, DirClusters
  <2> QED
    BY <2>1, <2>2, <1>1, <1>3, <1>6, TidyAway
<1> QED
  BY <1>7, <1>8

LEMMA TidyRemoveEntry ==
  ASSUME FatInv, FatInv', RemoveEntry, NEW D, Consistent(D), NEW c \in D, Tidy(fat, disk, c)
  PROVE  Tidy(fat', disk', c)
<1> DEFINE l == op.loc  w == Walk(Chains(fat)[c])
<1>1. op.pc = "free" /\ fat' = fat /\ disk' = Put(disk, l, Gone)
  BY DEF RemoveEntry, put_entry, Put
<1>2. /\ c \in Clusters /\ Linked(fat) /\ IsDisk(disk) /\ op \in RemoveOp
      /\ Own(fat, c) \subseteq D \cup Own(fat, Root)
      /\ Vol(fat, disk, D, Doom(disk, op, torn), lost \cup Flying(fat, disk, op))
  BY <1>1, DirClusters, OpKinds DEF FatInv, Typed
<1>3. l \in Clusters \X CellIndex
  BY <1>2 DEF RemoveOp
<1>4. Gone \in Cell /\ Gone.tag # "text" /\ Gone # Zero
  BY CellTags DEF Gone, Zero
<1> HIDE DEF l
<1>5. CASE l[1] \notin Own(fat, c)
  BY <1>1, <1>2, <1>3, <1>4, <1>5, TidyAway
<1>6. CASE l[1] \in Own(fat, c)
  <2>1. Victim(fat, disk, cwd, op, torn, D)
    BY DEF Consistent, Good
  <2>2. CellAt(disk, l) # Zero
    <3>1. CASE l \in Live(fat, disk, D, torn)
      BY <3>1, CellTags DEF Live, Entries
    <3>2. CASE l \in Doom(disk, op, torn)
      BY <3>2, <1>2, TornFacts, CellTags DEF Entries
    <3>3. CASE l[1] \in TornDirs(disk, torn)
      <4>1. TornDirs(disk, torn) \subseteq TornDirs(disk, Doom(disk, op, torn))
        BY DEF TornDirs, Doom
      <4> QED
        BY <4>1, <3>3, <1>2, <1>6, TornDirFacts
    <3> QED
      BY <3>1, <3>2, <3>3, <2>1, <1>1 DEF Victim, l
  <2>3. l \in Own(fat, c) \X CellIndex
    BY <1>3, <1>6
  <2>4. PICK i \in DOMAIN w : w[i] = l
    BY <2>3, <1>2, DirWalk
  <2>5. \A j \in 1 .. i - 1 : CellAt(disk, w[j]) # Zero
    BY <2>2, <2>4 DEF Tidy
  <2>6. Tidy(fat, Put(disk, w[i], Gone), c)
    BY <2>4, <2>5, <1>2, <1>4, TidyPut
  <2> QED
    BY <2>4, <2>6, <1>1
<1> QED
  BY <1>5, <1>6

(* A step that moves nothing in the directory c, or writes an entry.       *)
LEMMA DirStep ==
  ASSUME FatInv, FatInv', Next, NEW D, Consistent(D),
         NEW E, Consistent(E)', NEW c \in E, c \in D \/ (op.pc = "slot" /\ c = op.cur)
  PROVE  \/ Unmoved(c)
         \/ (WriteEntry \/ RemoveEntry) /\ c \in D
         \/ MkdirEntry
<1>1. CASE UNCHANGED <<fat, disk>>
  BY <1>1 DEF Unmoved
<1>2. CASE WriteFirst \/ WriteLink \/ WriteMark \/ WriteData \/ WriteEntry
  <2>1. op.pc # "slot"
    BY <1>2 DEF WriteFirst, WriteLink, WriteMark, WriteData, WriteEntry
  <2> QED
    BY <2>1, <1>2, UnmovedWriteLink, UnmovedWriteMark, UnmovedWriteData
<1>3. CASE MkdirInit
  <2>1. op.pc # "slot"
    BY <1>3 DEF MkdirInit
  <2> QED
    BY <2>1, <1>3, UnmovedMkdirInit
<1>4. CASE RemoveCluster \/ RemoveEntry
  <2>1. op.pc # "slot"
    BY <1>4 DEF RemoveCluster, RemoveEntry
  <2> QED
    BY <2>1, <1>4, UnmovedRemoveCluster
<1>5. CASE \E n \in DirNames : create_directory(n)
  <2>1. PICK n \in DirNames : create_directory(n)
    BY <1>5
  <2>2. CASE UNCHANGED vars
    BY <2>2, <1>1 DEF vars
  <2>3. CASE ~UNCHANGED vars
    <3>1. op = Idle
      BY <2>1, <2>3 DEF create_directory, Begin
    <3>2. op.pc # "slot"
      BY <3>1, IdleFacts
    <3> QED
      BY <3>2, <2>1, UnmovedMkdir
  <2> QED
    BY <2>2, <2>3
<1>6. UNCHANGED <<fat, disk>> \/ (\E n \in DirNames : create_directory(n)) \/ Step
  BY DEF Next, Command, write_file, delete_file, rmdir, cd, Look, BeginRemoval, Crash, vars
<1>7. Step => \/ UNCHANGED <<fat, disk>>
              \/ WriteFirst \/ WriteLink \/ WriteMark \/ WriteData \/ WriteEntry
              \/ MkdirInit \/ MkdirEntry \/ RemoveCluster \/ RemoveEntry
  BY DEF Step, MkdirSpin, vars
<1> QED
  BY <1>1, <1>2, <1>3, <1>4, <1>5, <1>6, <1>7

(* Every step leaves the directories tidy.                                 *)
LEMMA TidyStep ==
  ASSUME FatInv, FatInv', Next, NEW D, Consistent(D), \A c \in D : Tidy(fat, disk, c),
         NEW E, Consistent(E)', NEW c \in E, c \in D \/ (op.pc = "slot" /\ c = op.cur)
  PROVE  Tidy(fat', disk', c)
<1>1. Tidy(fat, disk, c)
  BY FreshTidy
<1>2. CASE Unmoved(c)
  <2>1. Linked(fat) /\ c \in Clusters
    <3>1. op.pc = "slot" => op.cur \in Clusters
      BY MkdirState DEF FatInv
    <3> QED
      BY <3>1, DirClusters DEF FatInv
  <2> QED
    BY <2>1, <1>1, <1>2, TidyFrame DEF Unmoved
<1> QED
  BY <1>1, <1>2, DirStep, TidyWriteEntry, TidyMkdirEntry, TidyRemoveEntry

TidyInv ==
  ~poisoned => \E D \in SUBSET Clusters : Consistent(D) /\ \A c \in D : Tidy(fat, disk, c)

LEMMA TidyInit == Init => TidyInv
<1> SUFFICES ASSUME Init PROVE TidyInv
  OBVIOUS
<1>1. PICK im \in Images : fat = im.fat /\ disk = im.disk
  BY DEF Init
<1>2. cwd = Root /\ op = Idle /\ torn = {} /\ lost = {}
  BY DEF Init
<1>3. Linked(fat) /\ IsDisk(disk)
  BY FatInit DEF FatInv, Typed
<1>4. PICK D \in SUBSET Clusters : Sound(fat, disk, D, {}, {}) /\ \A c \in D : Tidy(fat, disk, c)
  BY <1>1, ImagesAssumption
<1>5. Vol(fat, disk, D, {}, {})
  BY <1>3, <1>4 DEF Vol
<1>6. Root \in D
  BY <1>5, DirFacts
<1>7. Good(fat, disk, Root, Idle, {}, {}, D)
  BY <1>5, <1>6, GoodIdle
<1> QED
  BY <1>2, <1>4, <1>7 DEF TidyInv, Consistent

LEMMA TidyNext == FatInv /\ FatInv' /\ TidyInv /\ [Next]_vars => TidyInv'
<1> SUFFICES ASSUME FatInv, FatInv', TidyInv, [Next]_vars PROVE TidyInv'
  OBVIOUS
<1>1. CASE UNCHANGED vars
  BY <1>1 DEF TidyInv, Consistent, vars, ghosts
<1>2. CASE poisoned'
  BY <1>2 DEF TidyInv
<1>3. CASE ~UNCHANGED vars /\ ~poisoned'
  <2>1. ~poisoned
    BY <1>3, StaysPoisoned
  <2>2. PICK D \in SUBSET Clusters : Consistent(D) /\ \A c \in D : Tidy(fat, disk, c)
    BY <2>1 DEF TidyInv
  <2>3. PICK E : Consistent(E)' /\ \A c \in E : c \in D \/ (op.pc = "slot" /\ c = op.cur)
    BY <2>2, <1>3, VolStep DEF Carried
  <2>4. E \in SUBSET Clusters
    <3>1. Good(fat', disk', cwd', op', torn', lost', E)
      BY <2>3 DEF Consistent
    <3> QED
      BY <3>1, DirFacts DEF Good
  <2>5. \A c \in E : Tidy(fat', disk', c)
    BY <2>2, <2>3, <1>3, TidyStep
  <2> QED
    BY <2>3, <2>4, <2>5 DEF TidyInv
<1> QED
  BY <1>1, <1>2, <1>3

LEMMA TidyAlways == Spec => [](FatInv /\ TidyInv)
<1>1. Init => FatInv /\ TidyInv
  BY FatInit, TidyInit
<1>2. FatInv /\ TidyInv /\ [Next]_vars => (FatInv /\ TidyInv)'
  BY FatNext, TidyNext
<1> QED
  BY <1>1, <1>2, PTL DEF Spec

(* A search of a directory that ends at every 0x00 finds what one finds    *)
(* that ends at those of the same sector only.                             *)
LEMMA SearchesAgree ==
  ASSUME FatInv, NEW c \in Clusters, Tidy(fat, disk, c), NEW n \in DirNames
  PROVE  find_dir(c, n) = find_file(c, n)
<1> DEFINE w == Walk(Chain(c))
<1> DEFINE SameSector(j, k) == w[j][1] = w[k][1] /\ SectorOf(w[j][2]) = SectorOf(w[k][2])
<1> DEFINE DirHit(k) == /\ Named(At(w[k]), n) /\ IsDir(At(w[k]))
                        /\ \A j \in 1 .. k - 1 : SameSector(j, k) => At(w[j]) # Zero
<1> DEFINE FileHit(k) == Named(At(w[k]), n) /\ \A j \in 1 .. k - 1 : At(w[j]) # Zero
<1> DEFINE dirs == {k \in DOMAIN w : DirHit(k)}  files == {k \in DOMAIN w : FileHit(k)}
<1>1. find_dir(c, n) = IF dirs = {} THEN NoLoc ELSE w[Min(dirs)]
  BY Zenon DEF find_dir, FirstWhere
<1>2. find_file(c, n) = IF files = {} THEN NoLoc ELSE w[Min(files)]
  BY Zenon DEF find_file, FirstWhere
<1>3. \A k \in DOMAIN w : w[k] \in Clusters \X CellIndex
  <2>1. \A k \in DOMAIN w : w[k] \in Own(fat, c) \X CellIndex
    BY DirWalk DEF FatInv, Chain
  <2> QED
    BY <2>1, OwnUnfold, ClusterFacts DEF FatInv
<1>4. \A k \in DOMAIN w : \A j \in 1 .. k - 1 : At(w[j]) = Zero => At(w[k]) = Zero
  BY DEF Tidy, Chain, At, CellAt
<1> HIDE DEF w
<1>5. \A k \in DOMAIN w : Named(At(w[k]), n) => At(w[k]) # Zero /\ IsDir(At(w[k]))
  <2> SUFFICES ASSUME NEW k \in DOMAIN w, Named(At(w[k]), n) PROVE At(w[k]) # Zero /\ IsDir(At(w[k]))
    OBVIOUS
  <2>1. At(w[k]) \in Cell /\ At(w[k]).tag = "entry" /\ At(w[k]).name = n
    BY <1>3, AtCell DEF FatInv, Named
  <2>2. At(w[k]).attr = "dir"
    BY <2>1, EntryFacts
  <2> QED
    BY <2>1, <2>2 DEF Zero, IsDir
<1>6. \A k \in DOMAIN w : DirHit(k) <=> FileHit(k)
  BY <1>4, <1>5
<1>7. dirs = files
  BY <1>6
<1> QED
  BY <1>1, <1>2, <1>7

(* ls prints what is in use.                                               *)
LEMMA ListsAll ==
  ASSUME FatInv, NEW c \in Clusters, Tidy(fat, disk, c)
  PROVE  /\ ls(c) = {loc \in Slots(c) : At(loc).tag \in {"entry", "text"}}
         /\ \A loc \in Slots(c) : At(loc).tag # "text"
<1> DEFINE w == Walk(Chain(c))
<1> DEFINE Printed(k) == /\ At(w[k]) # Gone /\ At(w[k]) # Lfn
                         /\ \A j \in 1 .. k : At(w[j]) # Zero
<1>1. ls(c) = {w[k] : k \in {i \in DOMAIN w : Printed(i)}}
  BY DEF ls
<1>2. /\ \E n \in Nat : DOMAIN w = 1 .. n
      /\ \A k \in DOMAIN w : w[k] \in Slots(c)
      /\ \A l \in Slots(c) : \E k \in DOMAIN w : w[k] = l
  BY DirWalk DEF FatInv, Chain, Slots, ChainSet
<1>3. Slots(c) \subseteq Clusters \X CellIndex
  BY OwnUnfold, ClusterFacts DEF FatInv, Slots, ChainSet
<1>4. \A k \in DOMAIN w : /\ At(w[k]).tag # "text"
                          /\ \A j \in 1 .. k - 1 : At(w[j]) = Zero => At(w[k]) = Zero
  BY DEF Tidy, Chain, At, CellAt
<1> HIDE DEF w
<1>5. \A l \in Slots(c) : /\ At(l) \in Cell
                          /\ At(l).tag = "zero" <=> At(l) = Zero
                          /\ At(l).tag = "gone" <=> At(l) = Gone
                          /\ At(l).tag = "lfn" <=> At(l) = Lfn
  <2>1. \A l \in Slots(c) : At(l) \in Cell
    BY <1>3, AtCell DEF FatInv
  <2>2. \A x \in Cell : /\ x.tag = "zero" <=> x = Zero
                        /\ x.tag = "gone" <=> x = Gone
                        /\ x.tag = "lfn" <=> x = Lfn
    BY DEF Cell, EntryCell, Zero, Gone, Lfn
  <2> QED
    BY <2>1, <2>2
<1>6. ASSUME NEW k \in DOMAIN w PROVE Printed(k) <=> At(w[k]).tag = "entry"
  <2>1. At(w[k]) \in Cell /\ At(w[k]).tag # "text"
    BY <1>2, <1>4, <1>5
  <2>2. At(w[k]).tag \in {"zero", "gone", "lfn", "entry"}
    BY <2>1, CellTags
  <2>3. k \in Nat /\ k >= 1 /\ \A j \in 1 .. k : j = k \/ j \in 1 .. k - 1
    BY <1>2
  <2>4. (\A j \in 1 .. k : At(w[j]) # Zero) <=> At(w[k]) # Zero
    BY <2>3, <1>4
  <2> QED
    BY <2>2, <2>4, <1>2, <1>5
<1>7. \A l \in Slots(c) : At(l).tag # "text"
  BY <1>2, <1>4
<1> QED
  BY <1>1, <1>2, <1>6, <1>7

LEMMA HidesNothing == FatInv /\ TidyInv => NothingHidden
<1> SUFFICES ASSUME FatInv, TidyInv, ~poisoned, NEW c \in Dirs
             PROVE  /\ ls(c) = {loc \in Slots(c) : At(loc).tag \in {"entry", "text"}}
                    /\ \A loc \in Slots(c) : At(loc).tag # "text"
                    /\ \A n \in DirNames : find_dir(c, n) = find_file(c, n)
  BY DEF NothingHidden
<1>1. PICK D \in SUBSET Clusters : Consistent(D) /\ \A b \in D : Tidy(fat, disk, b)
  BY DEF TidyInv
<1>2. c \in Clusters /\ Tidy(fat, disk, c)
  BY <1>1, TreePlaced
<1> QED
  BY <1>2, SearchesAgree, ListsAll

(* Directories hold entries only and nothing behind their first 0x00: ls   *)
(* lists all there is, and the search of cd, which reads on after a 0x00,  *)
(* agrees with that of the other commands.  create_directory clears the    *)
(* cluster before it is entered, and removals leave 0xE5.                  *)
THEOREM NothingIsHidden == Spec => []NothingHidden
  BY TidyAlways, HidesNothing, PTL

-----------------------------------------------------------------------------
(* What was written stays on the disk.                                     *)

(* The cells of its text that a write has put on the disk.                 *)
Done(o) == IF o.pc = "data" THEN ChunkOffset(o.i, o.s) ELSE o.i * CellsPerCluster

Progress(f, d, o) ==
  o.pc \in {"alloc", "mark", "data"} =>
    \A k \in 1 .. o.size :
      k <= Done(o) => /\ k \in DOMAIN Walk(Chains(f)[o.first])
                      /\ CellAt(d, Walk(Chains(f)[o.first])[k]) = Text(o.text, k - 1)

(* rmdir has found its victim empty, even if its removal had begun before. *)
EmptyVictim(d, o) ==
  o.pc = "free" /\ CellAt(d, o.loc).attr = "dir" =>
    \A k \in CellIndex : ~Proper(d[CellAt(d, o.loc).first][k])

(* Where files are: in a directory of D, or, empty, in one whose removal   *)
(* is unfinished.                                                          *)
InPlace(f, d, D, t, l) ==
  l[1] \in D \cup Own(f, Root) \/ (l[1] \in TornDirs(d, t) /\ CellAt(d, l).size = 0)

Recorded(f, d, D, o, t, l, r) ==
  /\ l \notin t
  /\ (Begun(d, o) /\ l = o.loc) \/ (Filed(f, d, l, r) /\ InPlace(f, d, D, t, l))

Files(D) == /\ \A l \in DOMAIN written : Recorded(fat, disk, D, op, torn, l, written[l])
            /\ Progress(fat, disk, op)
            /\ EmptyVictim(disk, op)

FilesInv ==
  ~poisoned => \E D \in SUBSET Clusters : Consistent(D) /\ Files(D)

(* A text stays as long as neither its chain nor its clusters change.      *)
LEMMA HoldsFrame ==
  ASSUME NEW f, NEW g, Linked(f), Linked(g), NEW d, NEW e, NEW c \in Links, NEW t, NEW z,
         Holds(f, d, c, t, z),
         \A x \in Own(f, c) : g[x] = f[x] /\ \A k \in CellIndex : e[x][k] = d[x][k]
  PROVE  Holds(g, e, c, t, z)
<1> DEFINE s == Chains(f)[c]
<1>1. Chains(g)[c] = s /\ s \in Seq(Clusters) /\ Range(s) = Own(f, c)
  BY ChainFrame, ChainLen DEF Own
<1>2. \A k \in DOMAIN Walk(s) : Walk(s)[k] \in Own(f, c) \X CellIndex
  BY <1>1, WalkCells
<1>3. \A k \in DOMAIN Walk(s) : CellAt(e, Walk(s)[k]) = CellAt(d, Walk(s)[k])
  BY <1>2 DEF CellAt
<1> HIDE DEF s
<1> QED
  BY <1>1, <1>3 DEF Holds, s

(* The clusters of a file hold no directory.                               *)
LEMMA FileApart ==
  ASSUME NEW f, NEW d, NEW D, NEW X, NEW G, Vol(f, d, D, X, G),
         NEW l \in Live(f, d, D, X), CellAt(d, l).attr = "file"
  PROVE  \A x \in Own(f, CellAt(d, l).first) : x \in Used(f, G) /\ x \notin D \cup Own(f, Root)
<1> SUFFICES ASSUME NEW x \in Own(f, CellAt(d, l).first), x \in D PROVE FALSE
  BY LiveFacts
<1>1. x \notin Own(f, Root) /\ x # Root
  BY LiveFacts, DirFacts
<1>2. PICK m \in Entries(f, d, D) \ X : IsDir(CellAt(d, m)) /\ CellAt(d, m).first = x
  BY <1>1 DEF Vol, Sound, TreeSound
<1>3. m \in Live(f, d, D, X) /\ m # l
  BY <1>2 DEF Live, IsDir
<1>4. x \in Own(f, CellAt(d, m).first)
  BY <1>1, <1>2, DirFacts
<1> QED
  BY <1>3, <1>4, LiveFacts

(* A recorded file is an entry in place, or empty.                         *)
LEMMA FiledLive ==
  ASSUME NEW f, NEW d, NEW D, NEW X, NEW G, Vol(f, d, D, X, G), NEW l \in Clusters \X CellIndex,
         l \notin X, NEW r, Filed(f, d, l, r), NEW t, InPlace(f, d, D, t, l)
  PROVE  /\ CellAt(d, l) \in Cell /\ Proper(CellAt(d, l)) /\ CellAt(d, l).attr = "file"
         /\ CellAt(d, l).size = r.size /\ CellAt(d, l).first \in Links
         /\ l \in Live(f, d, D, X) \/ r.size = 0
<1> DEFINE x == CellAt(d, l)
<1>1. x \in Cell
  BY DEF CellAt, Vol, IsDisk
<1>2. x.tag = "entry" /\ x.attr = "file" /\ x.size = r.size
  BY DEF Filed
<1> HIDE DEF x
<1>3. Proper(x) /\ x.first \in Clusters \cup {0}
  BY <1>1, <1>2, EntryFacts DEF Proper
<1>4. x.first \in Links
  BY <1>3 DEF Links, FREE
<1>5. l[1] \in D \cup Own(f, Root) => l \in Live(f, d, D, X)
  BY <1>3 DEF Live, Entries, x
<1> QED
  BY <1>1, <1>2, <1>3, <1>4, <1>5 DEF InPlace, x

(* FAT and data differ in cluster b only.                                  *)
Elsewhere(f, d, g, e, b) ==
  \A x \in Clusters : x # b => g[x] = f[x] /\ \A k \in CellIndex : e[x][k] = d[x][k]

(* Cluster b belongs to no file, or not to the one at l.                   *)
Spare(f, d, D, X, G, l, b) ==
  \/ b \notin Used(f, G) \/ b \in D \cup Own(f, Root)
  \/ \E m \in Live(f, d, D, X) : m # l /\ b \in Own(f, CellAt(d, m).first)

(* A step that changes cluster b only disturbs no file in other clusters.  *)
LEMMA FiledFrame ==
  ASSUME NEW f, NEW d, NEW D, NEW X, NEW G, Vol(f, d, D, X, G), NEW l \in Clusters \X CellIndex,
         l \notin X, NEW r, Filed(f, d, l, r), NEW t, InPlace(f, d, D, t, l),
         NEW g, Linked(g), NEW e, NEW b, Elsewhere(f, d, g, e, b),
         CellAt(e, l) = CellAt(d, l), Spare(f, d, D, X, G, l, b)
  PROVE  Filed(g, e, l, r)
<1> DEFINE c == CellAt(d, l).first
<1>1. /\ CellAt(d, l).attr = "file" /\ c \in Links /\ Linked(f)
      /\ l \in Live(f, d, D, X) \/ r.size = 0
  BY FiledLive DEF Vol
<1>2. Holds(f, d, c, r.text, r.size)
  BY DEF Filed
<1>3. Holds(g, e, c, r.text, r.size)
  <2>1. CASE r.size = 0
    BY <2>1 DEF Holds
  <2>2. CASE l \in Live(f, d, D, X)
    <3>1. \A x \in Own(f, c) : x \in Used(f, G) /\ x \notin D \cup Own(f, Root)
      BY <2>2, <1>1, FileApart
    <3>2. b \notin Own(f, c)
      BY <3>1, <2>2, LiveFacts DEF Spare
    <3>3. Own(f, c) \subseteq Clusters
      BY <1>1, OwnUnfold
    <3>4. \A x \in Own(f, c) : g[x] = f[x] /\ \A k \in CellIndex : e[x][k] = d[x][k]
      BY <3>2, <3>3 DEF Elsewhere
    <3> QED
      BY <3>4, <1>1, <1>2, HoldsFrame
  <2> QED
    BY <2>1, <2>2, <1>1
<1> QED
  BY <1>3 DEF Filed

(* What is known of a recorded file whose removal has not begun.           *)
LEMMA FileState ==
  ASSUME FatInv, NEW D, Consistent(D), Files(D), NEW l \in DOMAIN written,
         ~(Begun(disk, op) /\ l = op.loc)
  PROVE  /\ l \in Clusters \X CellIndex /\ l \notin torn /\ l \notin Doom(disk, op, torn)
         /\ Filed(fat, disk, l, written[l]) /\ InPlace(fat, disk, D, torn, l)
         /\ Vol(fat, disk, D, Doom(disk, op, torn), lost \cup Flying(fat, disk, op))
         /\ CellAt(disk, l) \in Cell /\ Proper(CellAt(disk, l)) /\ CellAt(disk, l).attr = "file"
<1>1. l \in Clusters \X CellIndex
  BY DEF FatInv, Typed
<1>2. /\ l \notin torn /\ Filed(fat, disk, l, written[l]) /\ InPlace(fat, disk, D, torn, l)
  BY DEF Files, Recorded
<1>3. l \notin Doom(disk, op, torn)
  BY <1>2 DEF Doom
<1>4. Vol(fat, disk, D, Doom(disk, op, torn), lost \cup Flying(fat, disk, op))
  BY DEF Consistent, Good
<1> QED
  BY <1>1, <1>2, <1>3, <1>4, FiledLive

(* FAT entries and data change in cluster b only; b holds no file, or none *)
(* but one that is being removed.                                          *)
LEMMA FileKept ==
  ASSUME FatInv, FatInv', NEW D, Consistent(D), Files(D), NEW l \in DOMAIN written,
         ~(Begun(disk, op) /\ l = op.loc), NEW b, Elsewhere(fat, disk, fat', disk', b),
         CellAt(disk', l) = CellAt(disk, l),
         \/ b \notin Used(fat, lost \cup Flying(fat, disk, op)) \/ b \in D \cup Own(fat, Root)
         \/ \E m \in Placed(D) : m # l /\ b \in Own(fat, CellAt(disk, m).first)
  PROVE  Filed(fat', disk', l, written[l])
<1> DEFINE X == Doom(disk, op, torn)
<1> DEFINE G == lost \cup Flying(fat, disk, op)
<1>1. /\ l \in Clusters \X CellIndex /\ l \notin X /\ Vol(fat, disk, D, X, G)
      /\ Filed(fat, disk, l, written[l]) /\ InPlace(fat, disk, D, torn, l)
  BY FileState
<1>2. Linked(fat')
  BY DEF FatInv
<1>3. Spare(fat, disk, D, X, G, l, b)
  BY DEF Placed, Spare
<1> HIDE DEF X, G
<1> QED
  BY <1>1, <1>2, <1>3, FiledFrame

(* A step that changes no sector and only FAT entries without a file.      *)
LEMMA FilesReserve ==
  ASSUME FatInv, FatInv', op.pc # "free", UNCHANGED <<disk, torn, written>>,
         NEW D, Consistent(D), Files(D), NEW E, D \subseteq E, NEW b,
         b \notin Used(fat, lost \cup Flying(fat, disk, op)),
         \A x \in Clusters : x # b => fat'[x] = fat[x]
  PROVE  \A l \in DOMAIN written' : Recorded(fat', disk', E, op', torn', l, written'[l])
<1> SUFFICES ASSUME NEW l \in DOMAIN written
             PROVE  Recorded(fat', disk, E, op', torn, l, written[l])
  OBVIOUS
<1>1. ~Begun(disk, op)
  BY DEF Begun
<1>2. l \notin torn /\ InPlace(fat, disk, D, torn, l)
  BY <1>1, FileState
<1>3. Filed(fat', disk, l, written[l])
  <2>1. Elsewhere(fat, disk, fat', disk', b) /\ CellAt(disk', l) = CellAt(disk, l)
    BY DEF Elsewhere
  <2>2. Filed(fat', disk', l, written[l])
    BY <2>1, <1>1, FileKept
  <2> QED
    BY <2>2
<1>4. Own(fat', Root) = Own(fat, Root)
  <2>1. Vol(fat, disk, D, Doom(disk, op, torn), lost \cup Flying(fat, disk, op))
    BY DEF Consistent, Good
  <2>2. Own(fat, Root) \subseteq Used(fat, lost \cup Flying(fat, disk, op)) /\ Own(fat, Root) \subseteq Clusters
    BY <2>1, DirFacts
  <2>3. Root \in Links /\ Linked(fat) /\ Linked(fat')
    BY ClusterFacts DEF FatInv
  <2>4. \A x \in Own(fat, Root) : fat'[x] = fat[x]
    BY <2>2
  <2>5. Chains(fat')[Root] = Chains(fat)[Root]
    BY <2>3, <2>4, ChainFrame
  <2> QED
    BY <2>5 DEF Own
<1>5. InPlace(fat', disk, E, torn, l)
  BY <1>2, <1>4 DEF InPlace
<1> QED
  BY <1>2, <1>3, <1>5 DEF Recorded

(* A step that writes data without a file, while no removal is unfinished. *)
LEMMA FilesData ==
  ASSUME FatInv, FatInv', op.pc # "free", torn = {}, UNCHANGED <<fat, torn, written>>,
         NEW D, Consistent(D), Files(D), NEW E, D \subseteq E, NEW b,
         b \notin Used(fat, lost \cup Flying(fat, disk, op)),
         \A x \in Clusters : x # b => \A k \in CellIndex : disk'[x][k] = disk[x][k]
  PROVE  \A l \in DOMAIN written' : Recorded(fat', disk', E, op', torn', l, written'[l])
<1> SUFFICES ASSUME NEW l \in DOMAIN written
             PROVE  Recorded(fat, disk', E, op', torn, l, written[l])
  OBVIOUS
<1>1. ~Begun(disk, op) /\ TornDirs(disk, torn) = {}
  BY DEF Begun, TornDirs
<1>2. /\ l \notin torn /\ InPlace(fat, disk, D, torn, l) /\ l \in Clusters \X CellIndex
      /\ Vol(fat, disk, D, Doom(disk, op, torn), lost \cup Flying(fat, disk, op))
  BY <1>1, FileState
<1>3. l[1] \in D \cup Own(fat, Root) /\ l[1] # b
  <2>1. D \cup Own(fat, Root) \subseteq Used(fat, lost \cup Flying(fat, disk, op))
    BY <1>2, DirFacts
  <2> QED
    BY <2>1, <1>1, <1>2 DEF InPlace
<1>4. CellAt(disk', l) = CellAt(disk, l)
  BY <1>2, <1>3 DEF CellAt
<1>5. Filed(fat, disk', l, written[l])
  <2>1. Elsewhere(fat, disk, fat', disk', b)
    BY DEF Elsewhere
  <2>2. Filed(fat', disk', l, written[l])
    BY <2>1, <1>1, <1>4, FileKept
  <2> QED
    BY <2>2
<1>6. InPlace(fat, disk', E, torn, l)
  BY <1>3 DEF InPlace
<1> QED
  BY <1>2, <1>5, <1>6 DEF Recorded

(* A step that writes one entry, in a place without a file.                *)
LEMMA FilesPut ==
  ASSUME FatInv, FatInv', fat' = fat, NEW m \in Clusters \X CellIndex, NEW x \in Cell,
         disk' = Put(disk, m, x), torn' \subseteq torn, ~Begun(disk', op'),
         NEW D, Consistent(D), Files(D), NEW E, D \subseteq E,
         m[1] \in D \cup Own(fat, Root) \/ fat[m[1]] = FREE,
         NEW l \in DOMAIN written, l # m, ~(Begun(disk, op) /\ l = op.loc),
         \A y \in torn : (y \in torn' /\ y # m) \/ ~(IsDir(CellAt(disk, y)) /\ l[1] = CellAt(disk, y).first)
  PROVE  Recorded(fat', disk', E, op', torn', l, written[l])
<1>1. /\ l \notin torn /\ InPlace(fat, disk, D, torn, l) /\ l \in Clusters \X CellIndex
      /\ torn \subseteq Clusters \X CellIndex /\ IsDisk(disk)
  BY FileState DEF FatInv, Typed
<1>2. /\ \A b \in Clusters, k \in CellIndex : <<b, k>> # m => disk'[b][k] = disk[b][k]
      /\ \A y \in Clusters \X CellIndex : y # m => CellAt(disk', y) = CellAt(disk, y)
  BY <1>1, PutFacts
<1>3. Elsewhere(fat, disk, fat', disk', m[1])
  BY <1>2 DEF Elsewhere
<1>4. m[1] \notin Used(fat, lost \cup Flying(fat, disk, op)) \/ m[1] \in D \cup Own(fat, Root)
  BY DEF Used
<1>5. CellAt(disk', l) = CellAt(disk, l)
  BY <1>1, <1>2
<1>6. Filed(fat', disk', l, written[l])
  BY <1>3, <1>4, <1>5, FileKept
<1>7. l[1] \in TornDirs(disk, torn) => l[1] \in TornDirs(disk', torn')
  BY <1>1, <1>2 DEF TornDirs
<1>8. InPlace(fat', disk', E, torn', l)
  BY <1>1, <1>5, <1>7 DEF InPlace
<1> QED
  BY <1>1, <1>6, <1>8 DEF Recorded

(* One sequence continues another.                                         *)
Continues(u, s) == Len(s) <= Len(u) /\ \A i \in 1 .. Len(s) : u[i] = s[i]

LEMMA WalkContinues ==
  ASSUME NEW s \in Seq(Clusters), NEW u \in Seq(Clusters), Continues(u, s), NEW k \in DOMAIN Walk(s)
  PROVE  k \in DOMAIN Walk(u) /\ Walk(u)[k] = Walk(s)[k]
<1>1. PICK q \in Nat, m \in CellIndex :
        /\ q < Len(s) /\ 1 + q \in DOMAIN s /\ k = CellsPerCluster * q + m + 1
        /\ Walk(s)[k] = <<s[1 + q], m>>
  BY WalkAt
<1>2. 1 + q \in DOMAIN u /\ u[1 + q] = s[1 + q]
  BY <1>1 DEF Continues
<1>3. (1 + q) - 1 = q
  BY <1>1
<1>4. LET j == CellsPerCluster * ((1 + q) - 1) + m + 1
      IN j \in DOMAIN Walk(u) /\ Walk(u)[j] = <<u[1 + q], m>>
  BY <1>1, <1>2, WalkOnto
<1> QED
  BY <1>1, <1>2, <1>3, <1>4

(* Changing the link of the last cluster of a chain continues the chain.   *)
LEMMA ChainContinues ==
  ASSUME NEW f, NEW g, Linked(f), Linked(g), NEW p \in Clusters, f[p] \notin Clusters,
         \A x \in Clusters : x # p => g[x] = f[x], NEW c \in Links
  PROVE  Continues(Chains(g)[c], Chains(f)[c])
<1>1. PICK r : Descends(f, Clusters, r)
  BY LinkedRank
<1> DEFINE S == {z \in Clusters : Continues(Chains(g)[z], Chains(f)[z])}
<1>2. ASSUME NEW z \in Clusters, f[z] \in Clusters => f[z] \in S PROVE z \in S
  <2> DEFINE s == Chains(f)[f[z]]  u == Chains(g)[g[z]]
  <2>1. f[z] \in Links /\ g[z] \in Links
    BY OwnUnfold
  <2>2. /\ Chains(f)[z] = <<z>> \o s /\ Chains(g)[z] = <<z>> \o u
        /\ s \in Seq(Clusters) /\ u \in Seq(Clusters)
    BY <2>1, ChainUnfold
  <2>3. Continues(u, s)
    <3>1. CASE f[z] \in Clusters
      <4>1. g[z] = f[z]
        BY <3>1
      <4> QED
        BY <4>1, <3>1, <1>2
    <3>2. CASE f[z] \notin Clusters
      <4>1. s = <<>>
        BY <3>2, <2>1, ChainUnfold
      <4> QED
        BY <4>1, <2>2 DEF Continues
    <3> QED
      BY <3>1, <3>2
  <2> HIDE DEF s, u
  <2>4. Continues(<<z>> \o u, <<z>> \o s)
    <3>1. /\ Len(<<z>> \o u) = 1 + Len(u) /\ Len(<<z>> \o s) = 1 + Len(s)
          /\ Len(u) \in Nat /\ Len(s) \in Nat /\ Len(s) <= Len(u)
      BY <2>2, <2>3 DEF Continues
    <3>2. ASSUME NEW i \in 1 .. 1 + Len(s) PROVE (<<z>> \o u)[i] = (<<z>> \o s)[i]
      <4>1. CASE i = 1
        BY <4>1, <2>2
      <4>2. CASE i # 1
        <5>1. i - 1 \in 1 .. Len(s) /\ i \in 1 .. 1 + Len(u)
          BY <4>2, <3>1
        <5>2. (<<z>> \o u)[i] = u[i - 1] /\ (<<z>> \o s)[i] = s[i - 1]
          BY <5>1, <4>2, <3>1, <2>2
        <5> QED
          BY <5>1, <5>2, <2>3 DEF Continues
      <4> QED
        BY <4>1, <4>2
    <3> QED
      BY <3>1, <3>2 DEF Continues
  <2> QED
    BY <2>2, <2>4
<1>3. Clusters \subseteq S
  <2> HIDE DEF S
  <2>1. Inherits(f, Clusters, S)
    BY <1>2 DEF Inherits
  <2> QED
    BY <2>1, <1>1, RankInduction
<1>4. CASE c \in Clusters
  BY <1>3, <1>4
<1>5. CASE c \notin Clusters
  <2>1. Chains(f)[c] = <<>> /\ Chains(g)[c] = <<>>
    BY <1>5, ChainUnfold
  <2> QED
    BY <2>1 DEF Continues
<1> QED
  BY <1>4, <1>5

(* The cluster of a chain that leads nowhere is its last one.              *)
LEMMA LastOfChain ==
  ASSUME NEW f, Linked(f), NEW c \in Links, NEW x \in Own(f, c), f[x] \notin Clusters
  PROVE  Len(Chains(f)[c]) \in DOMAIN Chains(f)[c] /\ Chains(f)[c][Len(Chains(f)[c])] = x
<1>1. PICK r : Descends(f, Clusters, r)
  BY LinkedRank
<1> DEFINE Ends(s) == Len(s) \in DOMAIN s /\ s[Len(s)] = x
<1> DEFINE S == {z \in Clusters : x \in Own(f, z) => Ends(Chains(f)[z])}
<1>2. ASSUME NEW z \in Clusters, f[z] \in Clusters => f[z] \in S PROVE z \in S
  <2> SUFFICES ASSUME x \in Own(f, z) PROVE Ends(Chains(f)[z])
    OBVIOUS
  <2> DEFINE s == Chains(f)[f[z]]
  <2>1. f[z] \in Links /\ Own(f, z) = {z} \cup Own(f, f[z])
    BY OwnUnfold
  <2>2. Chains(f)[z] = <<z>> \o s /\ s \in Seq(Clusters)
    BY <2>1, ChainUnfold
  <2>3. CASE f[z] \in Clusters
    <3>1. x \in Own(f, f[z])
      BY <2>1, <2>3
    <3>2. Ends(s)
      BY <3>1, <2>3, <1>2
    <3> HIDE DEF s
    <3>3. Len(<<z>> \o s) = Len(s) + 1 /\ Len(s) \in 1 .. Len(s)
      BY <3>2, <2>2
    <3>4. (<<z>> \o s)[Len(s) + 1] = s[Len(s)]
      BY <3>3, <2>2
    <3> QED
      BY <3>2, <3>3, <3>4, <2>2
  <2>4. CASE f[z] \notin Clusters
    <3>1. x = z /\ s = <<>>
      BY <2>1, <2>4, OwnUnfold, ChainUnfold
    <3>2. Chains(f)[z] = <<z>>
      BY <3>1, <2>2
    <3> QED
      BY <3>1, <3>2
  <2> QED
    BY <2>3, <2>4
<1>3. Clusters \subseteq S
  <2> HIDE DEF S
  <2>1. Inherits(f, Clusters, S)
    BY <1>2 DEF Inherits
  <2> QED
    BY <2>1, <1>1, RankInduction
<1>4. c \in Clusters
  BY OwnUnfold
<1> QED
  BY <1>3, <1>4

-----------------------------------------------------------------------------
(* The text that a write has put on the disk so far.                       *)

LEMMA OffsetFacts ==
  ASSUME NEW i \in Nat, NEW s \in SectorIndex
  PROVE  /\ ChunkOffset(i, s) = CellsPerCluster * i + EntriesPerSector * s
         /\ ChunkOffset(i, s) \in Nat /\ i * CellsPerCluster = CellsPerCluster * i
         /\ ChunkOffset(i, 0) = i * CellsPerCluster
         /\ EntriesPerSector * s + EntriesPerSector <= CellsPerCluster
         /\ s + 1 \in SectorIndex => ChunkOffset(i, s + 1) = ChunkOffset(i, s) + EntriesPerSector
         /\ s + 1 \notin SectorIndex => (i + 1) * CellsPerCluster = ChunkOffset(i, s) + EntriesPerSector
<1> DEFINE E == EntriesPerSector  P == SectorsPerCluster  C == CellsPerCluster
<1>1. E \in Nat /\ P \in Nat /\ P >= 1 /\ C \in Nat /\ C = E * P /\ s \in Nat /\ s <= P - 1
  BY Geometry DEF SectorIndex, CellsPerCluster
<1>2. i * C = C * i /\ C * i \in Nat /\ E * s \in Nat /\ s * E = E * s /\ (i + 1) * C = C * i + C
  BY <1>1
<1>3. ChunkOffset(i, s) = C * i + E * s
  BY <1>2 DEF ChunkOffset
<1>4. ChunkOffset(i, 0) = i * C
  BY <1>1, <1>2 DEF ChunkOffset
<1>5. E * (s + 1) <= E * P /\ E * (s + 1) = E * s + E
  <2>1. s + 1 \in Nat /\ s + 1 <= P
    BY <1>1
  <2> QED
    BY <2>1, <1>1, MulMono
<1>6. ChunkOffset(i, s + 1) = C * i + (E * s + E)
  <2>1. (s + 1) * E = E * s + E
    BY <1>1
  <2> QED
    BY <2>1, <1>2 DEF ChunkOffset
<1>7. s + 1 \notin SectorIndex => E * s + E = C
  <2> SUFFICES ASSUME s + 1 \notin SectorIndex PROVE E * s + E = C
    OBVIOUS
  <2>1. s + 1 = P
    BY <1>1 DEF SectorIndex
  <2> QED
    BY <2>1, <1>1, <1>5
<1> HIDE DEF E, P, C
<1> QED
  BY <1>1, <1>2, <1>3, <1>4, <1>5, <1>6, <1>7 DEF E, P, C

LEMMA ProgressLink ==
  ASSUME FatInv, FatInv', WriteLink, FreeClusters # {}, Progress(fat, disk, op)
  PROVE  Progress(fat', disk', op')
<1> DEFINE c == find_free_cluster
<1>1. /\ op.pc = "alloc" /\ op.i > 0 /\ fat' = With(fat, op.prev, c) /\ disk' = disk
      /\ op' = [op EXCEPT !.pc = "mark", !.cur = c]
  BY DEF WriteLink, set_next_cluster, Continue, With
<1>2. op \in WriteOp /\ Linked(fat) /\ Linked(fat')
  BY <1>1, OpKinds DEF FatInv, Typed
<1>3. op'.pc = "mark" /\ op'.i = op.i /\ op'.size = op.size /\ op'.first = op.first /\ op'.text = op.text
  BY <1>1, <1>2 DEF WriteOp
<1>4. op.first \in Links /\ op.prev \in Own(fat, op.first) /\ fat[op.prev] = EOC
  BY <1>1, <1>2 DEF FatInv, Building, WriteOp, Links, FREE
<1>5. op.prev \in Clusters /\ fat[op.prev] \notin Clusters
  BY <1>2, <1>4, OwnUnfold, ClusterFacts DEF Valid
<1>6. \A x \in Clusters : x # op.prev => fat'[x] = fat[x]
  BY <1>1, <1>2 DEF Linked, FatType, With
<1> DEFINE s == Chains(fat)[op.first]  u == Chains(fat')[op.first]
<1>7. Continues(u, s) /\ s \in Seq(Clusters) /\ u \in Seq(Clusters)
  BY <1>2, <1>4, <1>5, <1>6, ChainContinues, ChainLen
<1> HIDE DEF s, u, c
<1>8. \A k \in DOMAIN Walk(s) : k \in DOMAIN Walk(u) /\ Walk(u)[k] = Walk(s)[k]
  BY <1>7, WalkContinues
<1>9. Done(op') = Done(op)
  BY <1>1, <1>3 DEF Done
<1> QED
  BY <1>1, <1>3, <1>8, <1>9 DEF Progress, s, u

LEMMA ProgressMark ==
  ASSUME FatInv, FatInv', WriteMark, Progress(fat, disk, op)
  PROVE  Progress(fat', disk', op')
<1>1. /\ op.pc = "mark" /\ fat' = With(fat, op.cur, EOC) /\ disk' = disk
      /\ op' = [op EXCEPT !.pc = "data", !.s = 0]
  BY DEF WriteMark, set_next_cluster, Continue, With
<1>2. op \in WriteOp /\ Linked(fat)
  BY <1>1, OpKinds DEF FatInv, Typed
<1>3. /\ op'.pc = "data" /\ op'.i = op.i /\ op'.size = op.size /\ op'.first = op.first
      /\ op'.text = op.text /\ op'.s = 0
  BY <1>1, <1>2 DEF WriteOp
<1>4. /\ op.first \in Links /\ op.cur \in Own(fat, op.first) /\ fat[op.cur] = FREE
  BY <1>1, <1>2 DEF FatInv, Building, WriteOp, Links, FREE
<1>5. op.cur \in Clusters /\ fat[op.cur] \notin Clusters /\ EOC \in Links \ Clusters
  BY <1>2, <1>4, OwnUnfold, ClusterFacts DEF Valid
<1>6. Chains(fat')[op.first] = Chains(fat)[op.first]
  BY <1>1, <1>2, <1>4, <1>5, CutChains
<1>7. Done(op') = Done(op)
  <2>1. op.i \in Nat /\ 0 \in SectorIndex
    BY <1>2, Geometry DEF WriteOp
  <2> QED
    BY <2>1, <1>1, <1>3, OffsetFacts DEF Done
<1> QED
  BY <1>1, <1>3, <1>6, <1>7 DEF Progress

(* One more sector of the file.                                            *)
LEMMA ProgressData ==
  ASSUME FatInv, FatInv', WriteData, Progress(fat, disk, op)
  PROVE  Progress(fat', disk', op')
<1> DEFINE cells == [k \in CellIndex |-> Chunk(ChunkOffset(op.i, op.s), k)]
<1> DEFINE base == ChunkOffset(op.i, op.s)
<1> DEFINE E == EntriesPerSector  C == CellsPerCluster
<1>1. /\ op.pc = "data" /\ fat' = fat /\ disk' = PutSector(disk, op.cur, op.s, cells)
      /\ op' = IF op.s + 1 \in SectorIndex /\ ChunkOffset(op.i, op.s + 1) < op.size
               THEN [op EXCEPT !.s = @ + 1]
               ELSE [op EXCEPT !.pc = "alloc", !.i = @ + 1, !.prev = op.cur]
  BY DEF WriteData, disk_write, Continue, PutSector
<1>2. op \in WriteOp /\ Linked(fat) /\ IsDisk(disk)
  BY <1>1, OpKinds DEF FatInv, Typed
<1>3. op.i \in Nat /\ op.s \in SectorIndex /\ op.size \in Nat /\ op.first \in Links
  BY <1>2, Fat32Assumption DEF WriteOp, Links, FREE
<1>4. op'.size = op.size /\ op'.first = op.first /\ op'.text = op.text
  BY <1>1, <1>2 DEF WriteOp
<1>5. \A k \in 1 .. op.size : k <= Done(op') => k <= base + E
  <2> SUFFICES ASSUME NEW k \in 1 .. op.size, k <= Done(op') PROVE k <= base + E
    OBVIOUS
  <2>1. base \in Nat /\ E \in Nat
    BY <1>3, OffsetFacts, Geometry
  <2>2. CASE op.s + 1 \in SectorIndex /\ ChunkOffset(op.i, op.s + 1) < op.size
    <3>1. op'.pc = "data" /\ op'.i = op.i /\ op'.s = op.s + 1
      BY <2>2, <1>1, <1>2 DEF WriteOp
    <3>2. Done(op') = base + E
      BY <3>1, <2>2, <1>3, OffsetFacts DEF Done
    <3> QED
      BY <3>2
  <2>3. CASE ~(op.s + 1 \in SectorIndex /\ ChunkOffset(op.i, op.s + 1) < op.size)
    <3>1. op'.pc = "alloc" /\ op'.i = op.i + 1
      BY <2>3, <1>1, <1>2 DEF WriteOp
    <3>2. Done(op') = (op.i + 1) * C
      BY <3>1 DEF Done
    <3>3. CASE op.s + 1 \notin SectorIndex
      BY <3>2, <3>3, <1>3, OffsetFacts
    <3>4. CASE op.s + 1 \in SectorIndex
      <4>1. ~(base + E < op.size)
        BY <3>4, <2>3, <1>3, OffsetFacts
      <4> QED
        BY <4>1, <2>1, <1>3
    <3> QED
      BY <3>3, <3>4
  <2> QED
    BY <2>2, <2>3
<1> DEFINE s == Chains(fat)[op.first]
<1>6. /\ op.cur \in Own(fat, op.first) /\ fat[op.cur] = EOC /\ Len(s) = op.i + 1
  BY <1>1 DEF FatInv, Building
<1>7. op.cur \in Clusters /\ fat[op.cur] \notin Clusters /\ op.first \in Clusters
  BY <1>2, <1>3, <1>6, OwnUnfold, ClusterFacts DEF Valid
<1>8. /\ s \in Seq(Clusters) /\ op.i + 1 \in DOMAIN s /\ s[op.i + 1] = op.cur
      /\ \A a, b \in DOMAIN s : s[a] = s[b] => a = b
  <2>1. s \in Seq(Clusters)
    BY <1>2, <1>3, ChainLen
  <2>2. Len(s) \in DOMAIN s /\ s[Len(s)] = op.cur
    BY <1>2, <1>3, <1>6, <1>7, LastOfChain
  <2>3. \A a, b \in DOMAIN s : s[a] = s[b] => a = b
    BY <1>2, <1>7, ChainOnce
  <2> QED
    BY <2>1, <2>2, <2>3, <1>6
<1>9. /\ \A k \in CellIndex :
           disk'[op.cur][k] = IF SectorOf(k) = op.s THEN cells[k] ELSE disk[op.cur][k]
      /\ \A b \in Clusters : b # op.cur => disk'[b] = disk[b]
  <2>1. \A k \in CellIndex : cells[k] \in Cell
    BY <1>2, ChunkCell
  <2> HIDE DEF cells
  <2> QED
    BY <2>1, <1>1, <1>2, <1>7, SectorFacts
<1>10. /\ base = C * op.i + E * op.s /\ base \in Nat /\ E * op.s + E <= C
       /\ E \in Nat \ {0} /\ C \in Nat /\ op.s \in Nat /\ E * op.s \in Nat /\ C * op.i \in Nat
  <2>1. E \in Nat \ {0} /\ C \in Nat /\ op.s \in Nat
    BY <1>3, Geometry DEF SectorIndex
  <2> QED
    BY <2>1, <1>3, OffsetFacts
<1> HIDE DEF s, E, C, base, cells
<1>11. ASSUME NEW k \in 1 .. op.size, k <= base + E
       PROVE  k \in DOMAIN Walk(s) /\ CellAt(disk', Walk(s)[k]) = Text(op.text, k - 1)
  <2>1. CASE k <= base
    <3>1. k \in DOMAIN Walk(s) /\ CellAt(disk, Walk(s)[k]) = Text(op.text, k - 1)
      BY <2>1, <1>1 DEF Progress, Done, s, base
    <3>2. PICK q \in Nat, m \in CellIndex :
            /\ q < Len(s) /\ 1 + q \in DOMAIN s /\ k = C * q + m + 1 /\ Walk(s)[k] = <<s[1 + q], m>>
      BY <3>1, <1>8, WalkAt DEF C
    <3>3. CASE s[1 + q] # op.cur
      <4>1. s[1 + q] \in Clusters
        BY <3>2, <1>8
      <4>2. disk'[s[1 + q]] = disk[s[1 + q]]
        BY <3>3, <4>1, <1>9
      <4> QED
        BY <3>1, <3>2, <4>2 DEF CellAt
    <3>4. CASE s[1 + q] = op.cur
      <4>1. q = op.i
        BY <3>2, <3>4, <1>3, <1>8
      <4>2. m \in Nat /\ m < E * op.s
        <5> DEFINE a == C * op.i  b == E * op.s
        <5>1. k = a + m + 1 /\ a \in Nat /\ b \in Nat /\ base = a + b /\ m \in Nat
          BY <4>1, <3>2, <1>10, Geometry
        <5> HIDE DEF a, b
        <5>2. m < b
          BY <5>1, <2>1
        <5> QED
          BY <5>1, <5>2 DEF b
      <4>3. SectorOf(m) # op.s
        <5>1. m \div E \in Nat /\ m % E \in Nat /\ m = E * (m \div E) + (m % E)
          BY <4>2, <1>10, DivMod
        <5>2. SectorOf(m) = m \div E
          BY DEF SectorOf, E
        <5> QED
          BY <5>1, <5>2, <4>2, <1>10
      <4>4. disk'[op.cur][m] = disk[op.cur][m]
        BY <4>3, <3>2, <1>9
      <4> QED
        BY <3>1, <3>2, <3>4, <4>4 DEF CellAt
    <3> QED
      BY <3>3, <3>4
  <2>2. CASE k > base
    <3> DEFINE j == k - 1 - base
    <3> DEFINE m == E * op.s + j
    <3>1. j \in Nat /\ j < E /\ m \in Nat /\ m < C /\ k = C * op.i + m + 1
      <4> DEFINE a == C * op.i  b == E * op.s
      <4>1. /\ a \in Nat /\ b \in Nat /\ base = a + b /\ E \in Nat /\ b + E <= C /\ C \in Nat
            /\ k \in Nat /\ op.size \in Nat
        BY <1>3, <1>10
      <4> HIDE DEF a, b
      <4>2. j \in Nat /\ j < E /\ k = a + b + j + 1
        BY <4>1, <2>2, <1>11
      <4> HIDE DEF j
      <4>3. b + j \in Nat /\ b + j < C /\ k = a + (b + j) + 1
        BY <4>1, <4>2
      <4> QED
        BY <4>2, <4>3 DEF a, b
    <3>2. m \in CellIndex
      BY <3>1, <1>10 DEF CellIndex, C
    <3>3. k \in DOMAIN Walk(s) /\ Walk(s)[k] = <<op.cur, m>>
      <4>1. (op.i + 1) - 1 = op.i
        BY <1>3
      <4>2. LET n == CellsPerCluster * ((op.i + 1) - 1) + m + 1
            IN n \in DOMAIN Walk(s) /\ Walk(s)[n] = <<s[op.i + 1], m>>
        BY <3>2, <1>8, WalkOnto
      <4> QED
        BY <4>1, <4>2, <3>1, <1>8 DEF C
    <3>4. m \div E = op.s /\ m % E = j
      BY <3>1, <1>10, DivUnique
    <3>5. disk'[op.cur][m] = cells[m]
      BY <3>2, <3>4, <1>9 DEF SectorOf, E
    <3>6. cells[m] = Text(op.text, k - 1)
      <4>1. base + (m % EntriesPerSector) = k - 1
        BY <3>1, <3>4, <1>10 DEF E
      <4>2. k - 1 < op.size
        BY <1>3, <1>11
      <4>3. Chunk(base, m) = Text(op.text, k - 1)
        BY <4>1, <4>2 DEF Chunk
      <4> QED
        BY <4>3, <3>2 DEF cells, base
    <3> QED
      BY <3>3, <3>5, <3>6 DEF CellAt
  <2>3. k \in Nat /\ base \in Nat
    BY <1>10
  <2> QED
    BY <2>1, <2>2, <2>3
<1> QED
  BY <1>1, <1>4, <1>5, <1>11 DEF Progress, s

-----------------------------------------------------------------------------
(* Files is kept, step by step.                                            *)

LEMMA OpVacuous ==
  ASSUME NEW f, NEW d, NEW o
  PROVE  /\ o.pc \notin {"alloc", "mark", "data"} => Progress(f, d, o)
         /\ o.pc # "free" => EmptyVictim(d, o)
         /\ o = Idle => Progress(f, d, o) /\ EmptyVictim(d, o) /\ ~Begun(d, o)
<1>1. Idle.pc = "idle"
  BY IdleFacts
<1> QED
  BY <1>1 DEF Progress, EmptyVictim, Begun

(* Nothing on the disk changes.                                            *)
LEMMA FilesQuiet ==
  ASSUME UNCHANGED <<fat, disk, torn, written>>, op.pc # "free",
         NEW D, Files(D), NEW E, D \subseteq E
  PROVE  \A l \in DOMAIN written' : Recorded(fat', disk', E, op', torn', l, written'[l])
<1> SUFFICES ASSUME NEW l \in DOMAIN written PROVE Recorded(fat, disk, E, op', torn, l, written[l])
  OBVIOUS
<1>1. Recorded(fat, disk, D, op, torn, l, written[l]) /\ ~Begun(disk, op)
  BY DEF Files, Begun
<1>2. l \notin torn /\ Filed(fat, disk, l, written[l]) /\ InPlace(fat, disk, D, torn, l)
  BY <1>1 DEF Recorded
<1>3. InPlace(fat, disk, E, torn, l)
  BY <1>2 DEF InPlace
<1> QED
  BY <1>2, <1>3 DEF Recorded

LEMMA FilesFrom ==
  ASSUME NEW E, \A l \in DOMAIN written' : Recorded(fat', disk', E, op', torn', l, written'[l]),
         Progress(fat', disk', op'), EmptyVictim(disk', op')
  PROVE  Files(E)'
  BY DEF Files

LEMMA FilesWriteFile ==
  ASSUME NEW n \in FileNames, NEW t \in Texts, NEW z \in Sizes, FatInv,
         write_file(n, t, z), NEW D, Files(D), NEW E, D \subseteq E
  PROVE  Files(E)'
<1> DEFINE o == [pc |-> "alloc", name |-> n, text |-> t, size |-> z,
                 i |-> 0, s |-> 0, first |-> 0, prev |-> 0, cur |-> 0]
<1>1. op = Idle /\ op' = o /\ UNCHANGED <<fat, disk, torn, written>>
  BY DEF write_file, Begin, ghosts
<1>2. op.pc # "free" /\ op'.pc # "free"
  BY <1>1, IdleFacts
<1>3. Done(op') = 0
  <2>1. op'.pc = "alloc" /\ op'.i = 0
    BY <1>1
  <2>2. 0 * CellsPerCluster = 0
    BY Geometry
  <2> QED
    BY <2>1, <2>2 DEF Done
<1>4. Progress(fat', disk', op')
  BY <1>3 DEF Progress
<1> QED
  BY <1>1, <1>2, <1>4, OpVacuous, FilesQuiet, FilesFrom

LEMMA FilesWriteFails ==
  ASSUME WriteFails, op.pc # "free", NEW D, Files(D), NEW E, D \subseteq E
  PROVE  Files(E)'
<1>1. op' = Idle /\ UNCHANGED <<fat, disk, torn, written>>
  BY DEF WriteFails, Continue
<1> QED
  BY <1>1, OpVacuous, FilesQuiet, FilesFrom

LEMMA FilesCd ==
  ASSUME NEW p \in Paths, cd(p), ~UNCHANGED vars, NEW D, Files(D), NEW E, D \subseteq E
  PROVE  Files(E)'
<1>1. op = Idle /\ op' = Idle /\ UNCHANGED <<fat, disk, torn, written>>
  BY DEF cd, Begin, ghosts
<1>2. op.pc # "free"
  BY <1>1, IdleFacts
<1> QED
  BY <1>1, <1>2, OpVacuous, FilesQuiet, FilesFrom

LEMMA FilesBeginRemoval ==
  ASSUME FatInv, FatInv', NEW n \in Names, BeginRemoval(find_file(cwd, n)),
         find_file(cwd, n) # NoLoc, n \in FileNames \/ MayRmdir(find_file(cwd, n)),
         NEW D, Files(D), NEW E, D \subseteq E, Consistent(E)'
  PROVE  Files(E)'
<1> DEFINE l == find_file(cwd, n)
<1>1. /\ op = Idle /\ op' = [pc |-> "free", loc |-> l, cur |-> At(l).first]
      /\ UNCHANGED <<fat, disk, torn, written>>
  BY DEF BeginRemoval, Begin, ghosts
<1>2. op.pc # "free" /\ op'.pc = "free" /\ op'.loc = l
  BY <1>1, IdleFacts
<1>3. Linked(fat) /\ cwd \in Clusters
  BY DEF FatInv, Typed
<1>4. l \in Own(fat, cwd) \X CellIndex /\ Named(At(l), n)
  BY <1>3, FindFile DEF ChainSet
<1>5. l \in Clusters \X CellIndex
  BY <1>3, <1>4, OwnUnfold, ClusterFacts
<1> DEFINE x == CellAt(disk, l)
<1>6. x \in Cell /\ At(l) = x
  BY <1>5, AtCell DEF FatInv
<1> HIDE DEF l
<1>7. x.tag = "entry" /\ x.name = n
  BY <1>4, <1>6 DEF Named
<1> HIDE DEF x
<1>8. ~Begun(disk, op')
  BY <1>1, <1>2, <1>6 DEF Begun, x
<1>9. ASSUME x.attr = "dir" PROVE \A k \in CellIndex : ~Proper(disk[x.first][k])
  <2>1. MayRmdir(l)
    <3>1. n \notin FileNames
      BY <1>9, <1>6, <1>7, EntryFacts
    <3> QED
      BY <3>1 DEF l
  <2>2. Good(fat', disk', cwd', op', torn', lost', E)
    BY DEF Consistent
  <2>3. Vol(fat', disk', E, Doom(disk', op', torn'), lost' \cup Flying(fat', disk', op'))
    BY <2>2 DEF Good
  <2>4. Doom(disk, op', torn) = torn
    BY <1>8 DEF Doom
  <2>5. Victim(fat', disk', cwd', op', torn', E)
    BY <2>2 DEF Good
  <2>6. x.first \in Clusters
    <3>1. CASE l \in Live(fat, disk, E, torn)
      <4>1. Vol(fat, disk, E, torn, lost' \cup Flying(fat', disk', op'))
        BY <2>3, <2>4, <1>1
      <4>2. x.first \in E \ {Root} /\ E \subseteq Clusters
        BY <4>1, <3>1, <1>9, LiveFacts, DirFacts DEF x
      <4> QED
        BY <4>2
    <3>2. CASE l \in torn
      <4>1. Vol(fat, disk, E, torn, lost' \cup Flying(fat', disk', op'))
        BY <2>3, <2>4, <1>1
      <4> QED
        BY <4>1, <3>2, TornFacts DEF x
    <3>3. CASE l[1] \in TornDirs(disk, torn)
      <4>1. Vol(fat, disk, E, torn, lost' \cup Flying(fat', disk', op'))
        BY <2>3, <2>4, <1>1
      <4>2. Proper(x)
        BY <1>7, Fat32Assumption DEF Proper, IsDots
      <4>3. x = disk[l[1]][l[2]] /\ l[2] \in CellIndex
        BY <1>5 DEF x, CellAt
      <4>4. x.attr = "file"
        BY <4>1, <4>2, <4>3, <3>3, InTornDir
      <4> QED
        BY <4>4, <1>9
    <3> QED
      BY <3>1, <3>2, <3>3, <2>4, <2>5, <1>1, <1>2 DEF Victim
  <2>7. x.first \in ChainSet(x.first)
    BY <2>6, <1>3, OwnUnfold DEF ChainSet
  <2>8. \A k \in CellIndex : LET y == disk[x.first][k] IN IsFree(y) \/ y = Lfn \/ IsDots(y)
    BY <2>1, <2>7, <1>6 DEF MayRmdir, is_directory_empty
  <2> QED
    BY <2>8, CellTags DEF IsFree, Proper
<1>10. EmptyVictim(disk', op')
  BY <1>1, <1>2, <1>9 DEF EmptyVictim, x
<1>11. Progress(fat', disk', op')
  BY <1>2 DEF Progress
<1> QED
  BY <1>1, <1>2, <1>10, <1>11, FilesQuiet, FilesFrom

LEMMA FilesCrash ==
  ASSUME FatInv, Crash, NEW D, Files(D), NEW E, D \subseteq E
  PROVE  Files(E)'
<1>1. op' = Idle /\ UNCHANGED <<fat, disk>>
  BY DEF Crash
<1>2. \A l \in DOMAIN written' :
        /\ l \in DOMAIN written /\ written'[l] = written[l]
        /\ l \notin torn => l \notin torn'
        /\ ~(Begun(disk, op) /\ l = op.loc)
  <2>1. CASE op.pc = "free" /\ Begun(disk, op)
    <3>1. ~Untouched
      BY <2>1 DEF Untouched, Begun, At, CellAt
    <3>2. torn' = torn \cup {op.loc} /\ written' = Restrict(written, DOMAIN written \ {op.loc})
      BY <2>1, <3>1 DEF Crash
    <3> QED
      BY <3>2 DEF Restrict
  <2>2. CASE op.pc = "free" /\ ~Begun(disk, op)
    <3>1. Untouched
      BY <2>2 DEF Untouched, Begun, At, CellAt
    <3> QED
      BY <2>2, <3>1 DEF Crash, ghosts
  <2>3. CASE op.pc # "free"
    BY <2>3 DEF Crash, Begun
  <2> QED
    BY <2>1, <2>2, <2>3
<1>3. torn \subseteq torn'
  BY DEF Crash, ghosts
<1>4. TornDirs(disk, torn) \subseteq TornDirs(disk, torn')
  BY <1>3 DEF TornDirs
<1>5. ASSUME NEW l \in DOMAIN written' PROVE Recorded(fat', disk', E, op', torn', l, written'[l])
  <2>0. /\ l \in DOMAIN written /\ written'[l] = written[l] /\ (l \notin torn => l \notin torn')
        /\ ~(Begun(disk, op) /\ l = op.loc)
    BY <1>2
  <2>1. /\ l \notin torn /\ Filed(fat, disk, l, written[l]) /\ InPlace(fat, disk, D, torn, l)
    BY <2>0 DEF Files, Recorded
  <2>2. InPlace(fat, disk, E, torn', l)
    BY <2>1, <1>4 DEF InPlace
  <2>3. Recorded(fat, disk, E, op', torn', l, written[l])
    BY <2>0, <2>1, <2>2 DEF Recorded
  <2> QED
    BY <2>0, <2>3, <1>1
<1> QED
  BY <1>1, <1>5, OpVacuous, FilesFrom

LEMMA FilesWriteFirst ==
  ASSUME FatInv, FatInv', WriteFirst, NEW D, Consistent(D), Files(D), NEW E, D \subseteq E
  PROVE  Files(E)'
<1>0. op.pc = "alloc"
  BY DEF WriteFirst
<1>1. CASE FreeClusters = {}
  BY <1>0, <1>1, FilesWriteFails DEF WriteFirst
<1>2. CASE FreeClusters # {}
  <2> DEFINE c == find_free_cluster
  <2>1. /\ op.i = 0 /\ fat' = With(fat, c, EOC)
        /\ op' = [op EXCEPT !.pc = "data", !.first = c, !.cur = c, !.s = 0]
        /\ UNCHANGED <<disk, torn, written>>
    BY <1>2 DEF WriteFirst, set_next_cluster, Continue, With
  <2>2. c \in Clusters /\ fat[c] = FREE
    BY <1>2, FindFree
  <2> HIDE DEF c
  <2>3. op \in WriteOp /\ Linked(fat)
    BY <1>0, OpKinds DEF FatInv, Typed
  <2>4. op'.pc = "data" /\ op'.i = 0 /\ op'.s = 0
    BY <2>1, <2>3 DEF WriteOp
  <2>5. c \notin Used(fat, lost \cup Flying(fat, disk, op))
    BY <2>2 DEF Used
  <2>6. \A x \in Clusters : x # c => fat'[x] = fat[x]
    BY <2>1, <2>3 DEF Linked, FatType, With
  <2>7. \A l \in DOMAIN written' : Recorded(fat', disk', E, op', torn', l, written'[l])
    BY <1>0, <2>1, <2>5, <2>6, FilesReserve
  <2>8. Done(op') = 0
    <3>1. ChunkOffset(0, 0) = 0 * CellsPerCluster /\ 0 * CellsPerCluster = 0
      BY OffsetFacts, Geometry
    <3> QED
      BY <3>1, <2>4 DEF Done
  <2>9. Progress(fat', disk', op') /\ EmptyVictim(disk', op')
    BY <2>4, <2>8, OpVacuous DEF Progress
  <2> QED
    BY <2>7, <2>9, FilesFrom
<1> QED
  BY <1>1, <1>2

LEMMA FilesWriteLink ==
  ASSUME FatInv, FatInv', WriteLink, NEW D, Consistent(D), Files(D), NEW E, D \subseteq E
  PROVE  Files(E)'
<1>0. op.pc = "alloc" /\ op.i > 0
  BY DEF WriteLink
<1>1. CASE FreeClusters = {}
  BY <1>0, <1>1, FilesWriteFails DEF WriteLink
<1>2. CASE FreeClusters # {}
  <2> DEFINE c == find_free_cluster
  <2>1. /\ fat' = With(fat, op.prev, c) /\ op' = [op EXCEPT !.pc = "mark", !.cur = c]
        /\ UNCHANGED <<disk, torn, written>>
    BY <1>2 DEF WriteLink, set_next_cluster, Continue, With
  <2> HIDE DEF c
  <2>2. op \in WriteOp /\ Linked(fat) /\ op.first \in Links
    BY <1>0, WriteState
  <2>3. op'.pc = "mark"
    BY <2>1, <2>2 DEF WriteOp
  <2>4. op.prev \in Own(fat, op.first) /\ fat[op.prev] # FREE /\ op.prev \in Clusters
    <3>1. op.prev \in Own(fat, op.first) /\ fat[op.prev] # FREE
      BY <1>0 DEF FatInv, Building
    <3> QED
      BY <3>1, <2>2, OwnUnfold
  <2>5. op.prev \notin Used(fat, lost \cup Flying(fat, disk, op))
    BY <1>0, <2>4 DEF Used, Flying
  <2>6. \A x \in Clusters : x # op.prev => fat'[x] = fat[x]
    BY <2>1, <2>2 DEF Linked, FatType, With
  <2>7. \A l \in DOMAIN written' : Recorded(fat', disk', E, op', torn', l, written'[l])
    BY <1>0, <2>1, <2>5, <2>6, FilesReserve
  <2>8. Progress(fat', disk', op') /\ EmptyVictim(disk', op')
    BY <1>2, <2>3, OpVacuous, ProgressLink DEF Files
  <2> QED
    BY <2>7, <2>8, FilesFrom
<1> QED
  BY <1>1, <1>2

LEMMA FilesWriteMark ==
  ASSUME FatInv, FatInv', WriteMark, NEW D, Consistent(D), Files(D), NEW E, D \subseteq E
  PROVE  Files(E)'
<1>1. /\ op.pc = "mark" /\ fat' = With(fat, op.cur, EOC)
      /\ op' = [op EXCEPT !.pc = "data", !.s = 0]
      /\ UNCHANGED <<disk, torn, written>>
  BY DEF WriteMark, set_next_cluster, Continue, ghosts, With
<1>2. op \in WriteOp /\ Linked(fat) /\ op.first \in Links
  BY <1>1, WriteState
<1>3. op'.pc = "data"
  BY <1>1, <1>2 DEF WriteOp
<1>4. fat[op.cur] = FREE
  BY <1>1 DEF FatInv, Building
<1>5. op.cur \notin Used(fat, lost \cup Flying(fat, disk, op))
  BY <1>4 DEF Used
<1>6. \A x \in Clusters : x # op.cur => fat'[x] = fat[x]
  BY <1>1, <1>2 DEF Linked, FatType, With
<1>7. \A l \in DOMAIN written' : Recorded(fat', disk', E, op', torn', l, written'[l])
  BY <1>1, <1>5, <1>6, FilesReserve
<1>8. Progress(fat', disk', op') /\ EmptyVictim(disk', op')
  BY <1>3, OpVacuous, ProgressMark DEF Files
<1> QED
  BY <1>7, <1>8, FilesFrom

LEMMA FilesWriteData ==
  ASSUME FatInv, FatInv', WriteData, NEW D, Consistent(D), Files(D), NEW E, D \subseteq E
  PROVE  Files(E)'
<1> DEFINE cells == [k \in CellIndex |-> Chunk(ChunkOffset(op.i, op.s), k)]
<1>1. /\ op.pc = "data" /\ disk' = PutSector(disk, op.cur, op.s, cells)
      /\ UNCHANGED <<fat, torn, written>>
  BY DEF WriteData, disk_write, Continue, PutSector, ghosts
<1>2. op \in WriteOp /\ Linked(fat) /\ op.first \in Links /\ torn = {} /\ IsDisk(disk)
  BY <1>1, WriteState DEF Allocated, FatInv, Typed
<1>3. op'.pc # "free"
  <2>1. op' \in {[op EXCEPT !.s = @ + 1], [op EXCEPT !.pc = "alloc", !.i = @ + 1, !.prev = op.cur]}
    BY DEF WriteData, Continue
  <2> QED
    BY <2>1, <1>1, <1>2 DEF WriteOp
<1>4. op.cur \in Own(fat, op.first) /\ fat[op.cur] # FREE /\ op.cur \in Clusters
  <2>1. op.cur \in Own(fat, op.first) /\ fat[op.cur] # FREE
    BY <1>1 DEF FatInv, Building
  <2> QED
    BY <2>1, <1>2, OwnUnfold
<1>5. op.cur \notin Used(fat, lost \cup Flying(fat, disk, op))
  BY <1>1, <1>4 DEF Used, Flying
<1>6. \A x \in Clusters : x # op.cur => \A k \in CellIndex : disk'[x][k] = disk[x][k]
  <2>1. \A k \in CellIndex : cells[k] \in Cell
    BY <1>2, ChunkCell
  <2> HIDE DEF cells
  <2>2. \A x \in Clusters : x # op.cur => disk'[x] = disk[x]
    BY <2>1, <1>1, <1>2, <1>4, SectorFacts
  <2> QED
    BY <2>2
<1>7. \A l \in DOMAIN written' : Recorded(fat', disk', E, op', torn', l, written'[l])
  BY <1>1, <1>2, <1>5, <1>6, FilesData
<1>8. Progress(fat', disk', op') /\ EmptyVictim(disk', op')
  BY <1>3, OpVacuous, ProgressData DEF Files
<1> QED
  BY <1>7, <1>8, FilesFrom

LEMMA FilesMkdir ==
  ASSUME FatInv, FatInv', NEW n \in DirNames, create_directory(n), ~UNCHANGED vars,
         NEW D, Consistent(D), Files(D), NEW E, D \subseteq E
  PROVE  Files(E)'
<1> DEFINE c == find_free_cluster
<1>1. /\ FreeClusters # {} /\ op = Idle /\ fat' = With(fat, c, EOC)
      /\ op' = [pc |-> "init", name |-> n, cur |-> c, s |-> 0]
      /\ UNCHANGED <<disk, torn, written>>
  BY DEF create_directory, Begin, set_next_cluster, With
<1>2. c \in Clusters /\ fat[c] = FREE /\ Linked(fat)
  BY <1>1, FindFree DEF FatInv
<1> HIDE DEF c
<1>3. op.pc # "free" /\ op'.pc = "init"
  BY <1>1, IdleFacts
<1>4. c \notin Used(fat, lost \cup Flying(fat, disk, op))
  BY <1>2 DEF Used
<1>5. \A x \in Clusters : x # c => fat'[x] = fat[x]
  BY <1>1, <1>2 DEF Linked, FatType, With
<1>6. \A l \in DOMAIN written' : Recorded(fat', disk', E, op', torn', l, written'[l])
  BY <1>1, <1>3, <1>4, <1>5, FilesReserve
<1> QED
  BY <1>3, <1>6, OpVacuous, FilesFrom

LEMMA FilesMkdirInit ==
  ASSUME FatInv, FatInv', MkdirInit, NEW D, Consistent(D), Files(D), NEW E, D \subseteq E
  PROVE  Files(E)'
<1> DEFINE cells == Dots(op.cur, cwd)
<1>1. /\ op.pc = "init" /\ disk' = PutSector(disk, op.cur, op.s, cells)
      /\ UNCHANGED <<fat, torn, written>>
  BY DEF MkdirInit, disk_write, Continue, PutSector, ghosts
<1>2. /\ op \in MkdirOp /\ op.cur \in Clusters /\ torn = {} /\ IsDisk(disk) /\ cwd \in Clusters
  BY <1>1, MkdirState
<1>3. op'.pc \in {"init", "slot"}
  <2>1. op' \in {[op EXCEPT !.s = @ + 1], [op EXCEPT !.pc = "slot"]}
    BY DEF MkdirInit, Continue
  <2> QED
    BY <2>1, <1>1, <1>2 DEF MkdirOp
<1>4. op.cur \notin Used(fat, lost \cup Flying(fat, disk, op))
  BY <1>1, <1>2 DEF Used, Flying
<1>5. \A x \in Clusters : x # op.cur => \A k \in CellIndex : disk'[x][k] = disk[x][k]
  <2>1. \A k \in CellIndex : cells[k] \in Cell
    BY <1>2, DotsCells
  <2> HIDE DEF cells
  <2>2. \A x \in Clusters : x # op.cur => disk'[x] = disk[x]
    BY <2>1, <1>1, <1>2, SectorFacts
  <2> QED
    BY <2>2
<1> HIDE DEF cells
<1>6. \A l \in DOMAIN written' : Recorded(fat', disk', E, op', torn', l, written'[l])
  BY <1>1, <1>2, <1>4, <1>5, FilesData
<1> QED
  BY <1>3, <1>6, OpVacuous, FilesFrom

(* The clusters of a file hold it.                                         *)
LEMMA NeededEnough ==
  ASSUME NEW z \in Nat
  PROVE  Needed(z) \in Nat /\ z <= Needed(z) * CellsPerCluster
<1> DEFINE C == CellsPerCluster  n == z + C - 1  q == n \div C
<1>1. C \in Nat \ {0} /\ n \in Nat
  BY Geometry
<1>2. q \in Nat /\ n % C \in Nat /\ n = C * q + (n % C) /\ n % C < C
  BY <1>1, DivMod
<1>3. Needed(z) = q
  BY DEF Needed
<1>4. q * C = C * q /\ C * q \in Nat
  BY <1>1, <1>2
<1>5. z = n - C + 1
  BY <1>1
<1> HIDE DEF q, C, n
<1> DEFINE p == C * q  r == n % C
<1>6. n = p + r /\ r \in Nat /\ r < C /\ p \in Nat /\ q * C = p
  BY <1>2, <1>4
<1> HIDE DEF p, r
<1>7. z <= p
  BY <1>1, <1>5, <1>6
<1> QED
  BY <1>2, <1>3, <1>6, <1>7 DEF C

(* The file that a write enters is all there.                              *)
LEMMA FileEntered ==
  ASSUME FatInv, FatInv', WriteEntry, free_slot(Chain(cwd)) # NoLoc,
         NEW D, Consistent(D), Files(D), NEW E, D \subseteq E
  PROVE  LET l == free_slot(Chain(cwd))
         IN /\ l \in Clusters \X CellIndex /\ IsFree(CellAt(disk, l))
            /\ l[1] \in D \cup Own(fat, Root) \/ fat[l[1]] = FREE
            /\ \A y \in torn : y # l
            /\ Recorded(fat', disk', E, op', torn', l, [text |-> op.text, size |-> op.size])
<1> DEFINE l == free_slot(Chain(cwd))
<1> DEFINE x == Entry(op.name, "file", op.first, op.size)
<1> DEFINE r == [text |-> op.text, size |-> op.size]
<1>1. /\ op.pc = "alloc" /\ op.i = Needed(op.size) /\ disk' = Put(disk, l, x) /\ op' = Idle
      /\ UNCHANGED <<fat, torn>>
  BY DEF WriteEntry, put_entry, Put, Continue
<1>2. /\ op \in WriteOp /\ Linked(fat) /\ op.first \in Links /\ op.size \in Nat
      /\ Vol(fat, disk, D, torn, lost \cup Marked(fat, op))
      /\ cwd \in D \cup TornDirs(disk, torn) /\ (Allocated(op) => torn = {})
  BY <1>1, WriteState
<1>3. /\ x \in Cell /\ CellAt(disk, l) = At(l) /\ IsDisk(disk) /\ cwd \in Clusters
      /\ x.tag = "entry" /\ x.attr = "file" /\ x.size = op.size /\ x.first = op.first
  <2>1. op.name \in FileNames /\ op.first \in Clusters \cup {0}
    BY <1>2 DEF WriteOp
  <2> QED
    BY <2>1, <1>2, FileEntry DEF At, CellAt, Entry, FatInv, Typed
<1>4. Chain(cwd) \in Seq(Clusters) /\ Range(Chain(cwd)) = Own(fat, cwd)
  BY <1>2, <1>3, ChainLen, ClusterFacts DEF Chain, Own
<1>5. l \in Own(fat, cwd) \X CellIndex /\ IsFree(CellAt(disk, l))
  BY <1>3, <1>4, FreeSlot
<1> HIDE DEF l, x
<1>6. l \in Clusters \X CellIndex
  BY <1>2, <1>3, <1>5, OwnUnfold, ClusterFacts
<1>7. /\ cwd \in D => l[1] \in D \cup Own(fat, Root)
      /\ cwd \in TornDirs(disk, torn) => l[1] = cwd /\ fat[l[1]] = FREE
  BY <1>2, <1>5, WhereCwd, TornDirFacts
<1>8. \A y \in torn : y # l
  <2> SUFFICES ASSUME NEW y \in torn, y = l PROVE FALSE
    OBVIOUS
  <2>1. y \in Entries(fat, disk, D)
    BY <1>2, TornFacts
  <2>2. CellAt(disk, y).tag = "entry"
    BY <2>1, <1>2, EntryCells
  <2> QED
    BY <2>2, <1>5 DEF IsFree
<1>9. /\ \A b \in Clusters, k \in CellIndex : <<b, k>> # l => disk'[b][k] = disk[b][k]
      /\ \A y \in Clusters \X CellIndex : y # l => CellAt(disk', y) = CellAt(disk, y)
      /\ CellAt(disk', l) = x
  BY <1>1, <1>3, <1>6, PutFacts
<1>10. Holds(fat, disk, op.first, op.text, op.size)
  <2>1. Done(op) = Needed(op.size) * CellsPerCluster
    BY <1>1 DEF Done
  <2>2. op.size <= Done(op) /\ Done(op) \in Nat
    BY <2>1, <1>2, NeededEnough, Geometry
  <2>3. \A k \in 1 .. op.size : k <= Done(op)
    BY <2>2, <1>2
  <2>4. Progress(fat, disk, op)
    BY DEF Files
  <2> QED
    BY <2>3, <2>4, <1>1 DEF Progress, Holds
<1>11. l[1] \notin Own(fat, op.first)
  <2> SUFFICES ASSUME l[1] \in Own(fat, op.first) PROVE FALSE
    OBVIOUS
  <2>1. fat[l[1]] # FREE
    BY <1>1 DEF FatInv, Building
  <2>2. l[1] \in Marked(fat, op)
    BY <2>1 DEF Marked
  <2>3. l[1] \in D \cup Own(fat, Root)
    BY <2>1, <1>2, <1>7
  <2> QED
    BY <2>2, <2>3, <1>2, DirFacts DEF Used
<1>12. Holds(fat', disk', op.first, op.text, op.size)
  <2>1. Own(fat, op.first) \subseteq Clusters
    BY <1>2, OwnUnfold
  <2>2. \A b \in Own(fat, op.first) : fat'[b] = fat[b] /\ \A k \in CellIndex : disk'[b][k] = disk[b][k]
    BY <2>1, <1>1, <1>9, <1>11
  <2>3. Linked(fat')
    BY DEF FatInv
  <2> QED
    BY <2>2, <2>3, <1>2, <1>10, HoldsFrame
<1>13. Filed(fat', disk', l, r)
  BY <1>3, <1>9, <1>12 DEF Filed
<1>14. InPlace(fat', disk', E, torn', l)
  <2>1. CASE cwd \in D
    BY <2>1, <1>1, <1>7 DEF InPlace
  <2>2. CASE cwd \in TornDirs(disk, torn)
    <3>1. \A y \in torn : CellAt(disk', y) = CellAt(disk, y)
      BY <1>8, <1>9 DEF FatInv, Typed
    <3>2. TornDirs(disk', torn) = TornDirs(disk, torn)
      BY <3>1, TornDirsFrame
    <3>3. torn # {}
      BY <2>2 DEF TornDirs
    <3>4. op.i = 0
      BY <3>3, <1>1, <1>2 DEF Allocated, WriteOp
    <3>5. op.size = 0
      <4>1. 0 * CellsPerCluster = 0
        BY Geometry
      <4>2. op.size <= Needed(op.size) * CellsPerCluster
        BY <1>2, NeededEnough
      <4> QED
        BY <4>1, <4>2, <3>4, <1>1, <1>2
    <3> QED
      BY <2>2, <3>2, <3>5, <1>1, <1>3, <1>7, <1>9 DEF InPlace
  <2> QED
    BY <2>1, <2>2, <1>2
<1>15. Recorded(fat', disk', E, op', torn', l, r)
  BY <1>1, <1>8, <1>13, <1>14 DEF Recorded
<1> QED
  BY <1>2, <1>5, <1>6, <1>7, <1>8, <1>15 DEF l

LEMMA FilesWriteEntry ==
  ASSUME FatInv, FatInv', WriteEntry, NEW D, Consistent(D), Files(D), NEW E, D \subseteq E
  PROVE  Files(E)'
<1> DEFINE l == free_slot(Chain(cwd))
<1> DEFINE x == Entry(op.name, "file", op.first, op.size)
<1> DEFINE r == [text |-> op.text, size |-> op.size]
<1>0. op.pc = "alloc"
  BY DEF WriteEntry
<1>1. CASE l = NoLoc
  BY <1>0, <1>1, FilesWriteFails DEF WriteEntry
<1>2. CASE l # NoLoc
  <2>1. /\ disk' = Put(disk, l, x) /\ op' = Idle /\ UNCHANGED <<fat, torn>>
        /\ written' = [m \in DOMAIN written \cup {l} |-> IF m = l THEN r ELSE written[m]]
    BY <1>2 DEF WriteEntry, put_entry, Put, Continue
  <2>2. x \in Cell
    <3>1. op \in WriteOp /\ op.size \in Nat
      BY <1>0, WriteState
    <3>2. op.name \in FileNames /\ op.first \in Clusters \cup {0}
      BY <3>1 DEF WriteOp
    <3> QED
      BY <3>1, <3>2, FileEntry
  <2>3. /\ l \in Clusters \X CellIndex /\ (l[1] \in D \cup Own(fat, Root) \/ fat[l[1]] = FREE)
        /\ \A y \in torn : y # l
        /\ Recorded(fat', disk', E, op', torn', l, r)
    BY <1>2, FileEntered
  <2> HIDE DEF l, x, r
  <2>4. ~Begun(disk, op) /\ ~Begun(disk', op')
    BY <1>0, <2>1, OpVacuous DEF Begun
  <2>5. ASSUME NEW m \in DOMAIN written' PROVE Recorded(fat', disk', E, op', torn', m, written'[m])
    <3>1. CASE m = l
      BY <3>1, <2>1, <2>3
    <3>2. CASE m # l
      <4>1. m \in DOMAIN written /\ written'[m] = written[m]
        BY <3>2, <2>1
      <4>2. \A y \in torn : y \in torn' /\ y # l
        BY <2>1, <2>3
      <4>3. Recorded(fat', disk', E, op', torn', m, written[m])
        BY <4>1, <4>2, <3>2, <2>1, <2>2, <2>3, <2>4, FilesPut
      <4> QED
        BY <4>1, <4>3
    <3> QED
      BY <3>1, <3>2
  <2> QED
    BY <2>1, <2>5, OpVacuous, FilesFrom
<1> QED
  BY <1>1, <1>2

LEMMA FilesMkdirEntry ==
  ASSUME FatInv, FatInv', MkdirEntry, NEW D, Consistent(D), Files(D), NEW E, D \subseteq E
  PROVE  Files(E)'
<1> DEFINE l == free_slot(<<cwd>>)
<1> DEFINE x == Entry(op.name, "dir", op.cur, 0)
<1>1. /\ op.pc = "slot" /\ l # NoLoc /\ disk' = Put(disk, l, x) /\ op' = Idle
      /\ UNCHANGED <<fat, torn, written>>
  BY DEF MkdirEntry, put_entry, Put, Continue, ghosts
<1>2. op \in MkdirOp /\ op.cur \in Clusters /\ cwd \in D /\ cwd \in Clusters /\ torn = {} /\ IsDisk(disk)
  BY <1>1, MkdirState
<1>3. x \in Cell
  <2>1. op.name \in DirNames /\ op.cur \in Clusters \cup {0}
    BY <1>2 DEF MkdirOp
  <2> QED
    BY <2>1, DirEntry
<1>4. <<cwd>> \in Seq(Clusters) /\ Range(<<cwd>>) = {cwd}
  BY <1>2 DEF Range
<1>5. l \in {cwd} \X CellIndex /\ IsFree(CellAt(disk, l))
  BY <1>1, <1>4, FreeSlot DEF At, CellAt
<1> HIDE DEF l, x
<1>6. l \in Clusters \X CellIndex /\ l[1] \in D
  BY <1>2, <1>5
<1>7. ~Begun(disk, op) /\ ~Begun(disk', op')
  BY <1>1, OpVacuous DEF Begun
<1>8. ASSUME NEW m \in DOMAIN written PROVE Recorded(fat', disk', E, op', torn', m, written[m])
  <2>1. CellAt(disk, m).tag = "entry"
    BY <1>7, FileState DEF Proper
  <2>2. m # l
    BY <2>1, <1>5 DEF IsFree
  <2> QED
    BY <2>2, <1>1, <1>2, <1>3, <1>6, <1>7, FilesPut
<1> QED
  BY <1>1, <1>8, OpVacuous, FilesFrom

LEMMA FilesRemoveEntry ==
  ASSUME FatInv, FatInv', RemoveEntry, NEW D, Consistent(D), Files(D), NEW E, D \subseteq E
  PROVE  Files(E)'
<1> DEFINE v == op.loc
<1>1. /\ op.pc = "free" /\ disk' = Put(disk, v, Gone) /\ op' = Idle /\ fat' = fat
      /\ torn' = torn \ {v} /\ written' = Restrict(written, DOMAIN written \ {v})
  BY DEF RemoveEntry, put_entry, Put, Continue
<1>2. v \in Clusters \X CellIndex
  BY <1>1, OpKinds DEF FatInv, Typed, RemoveOp
<1>3. Vol(fat, disk, D, Doom(disk, op, torn), lost \cup Flying(fat, disk, op))
  BY DEF Consistent, Good
<1>4. v[1] \in D \cup Own(fat, Root) \/ fat[v[1]] = FREE
  <2>1. CASE v \in Live(fat, disk, D, torn)
    BY <2>1, <1>3, EntryCells DEF Live
  <2>2. CASE v \in Doom(disk, op, torn)
    BY <2>2, <1>3, TornFacts, EntryCells
  <2>3. CASE v[1] \in TornDirs(disk, torn)
    <3>1. TornDirs(disk, torn) \subseteq TornDirs(disk, Doom(disk, op, torn))
      BY DEF TornDirs, Doom
    <3> QED
      BY <3>1, <2>3, <1>3, TornDirFacts
  <2>4. Victim(fat, disk, cwd, op, torn, D)
    BY DEF Consistent, Good
  <2> QED
    BY <2>1, <2>2, <2>3, <2>4, <1>1 DEF Victim
<1>5. EmptyVictim(disk, op)
  BY DEF Files
<1>6. Gone \in Cell /\ ~Begun(disk', op')
  BY <1>1, CellTags, OpVacuous
<1>7. ASSUME NEW l \in DOMAIN written' PROVE Recorded(fat', disk', E, op', torn', l, written'[l])
  <2>1. l \in DOMAIN written /\ l # v /\ written'[l] = written[l]
    BY <1>1 DEF Restrict
  <2>2. /\ l \in Clusters \X CellIndex /\ Proper(CellAt(disk, l))
    BY <2>1, FileState
  <2>3. ASSUME NEW y \in torn
        PROVE  (y \in torn' /\ y # v) \/ ~(IsDir(CellAt(disk, y)) /\ l[1] = CellAt(disk, y).first)
    <3> SUFFICES ASSUME y = v, IsDir(CellAt(disk, v)), l[1] = CellAt(disk, v).first PROVE FALSE
      BY <1>1
    <3>1. ~Proper(disk[l[1]][l[2]])
      BY <2>2, <1>1, <1>5 DEF EmptyVictim, IsDir
    <3> QED
      BY <3>1, <2>2 DEF CellAt
  <2> HIDE DEF v
  <2>4. torn' \subseteq torn /\ ~(Begun(disk, op) /\ l = op.loc)
    BY <2>1, <1>1 DEF v
  <2>5. Recorded(fat', disk', E, op', torn', l, written[l])
    BY <2>1, <2>3, <2>4, <1>1, <1>2, <1>4, <1>6, FilesPut
  <2> QED
    BY <2>1, <2>5
<1> QED
  BY <1>1, <1>7, OpVacuous, FilesFrom

(* Which cluster a removal frees.                                          *)
LEMMA VictimCluster ==
  ASSUME FatInv, op.pc = "free", op.cur \in Clusters, NEW D, Consistent(D)
  PROVE  /\ op.cur \notin Own(fat, Root) /\ fat[op.cur] # CellAt(disk, op.loc).first
         /\ \/ op.cur \notin Used(fat, lost \cup Flying(fat, disk, op))
            \/ op.loc \in Placed(D) /\ op.cur \in Own(fat, CellAt(disk, op.loc).first)
         /\ op.cur \in D => /\ CellAt(disk, op.loc).attr = "dir" /\ op.cur = CellAt(disk, op.loc).first
<1> DEFINE c == op.cur  v == op.loc  X == Doom(disk, op, torn)  G == lost \cup Flying(fat, disk, op)
<1>1. op \in RemoveOp /\ Linked(fat) /\ c \in Clusters
  BY OpKinds DEF FatInv, Typed
<1>2. Vol(fat, disk, D, X, G) /\ Victim(fat, disk, cwd, op, torn, D)
  BY DEF Consistent, Good
<1>3. /\ Own(fat, c) = {c} \cup Own(fat, fat[c]) /\ fat[c] \in Links /\ c \notin Own(fat, fat[c])
      /\ (fat[c] \in Clusters => fat[c] \in Own(fat, fat[c]))
  BY <1>1, OwnUnfold, NotAgain
<1>4. CASE ~Begun(disk, op)
  <2>1. c = CellAt(disk, v).first /\ X = torn
    BY <1>4 DEF Begun, Doom
  <2>2. fat[c] # c
    BY <1>1, <1>3
  <2>3. CASE v \in Live(fat, disk, D, torn)
    <3>1. v \in Live(fat, disk, D, X) /\ v \in Entries(fat, disk, D)
      BY <2>1, <2>3 DEF Live
    <3>2. c \notin Own(fat, Root)
      BY <3>1, <2>1, <1>2, <1>3, LiveFacts
    <3>3. CellAt(disk, v).attr \in {"file", "dir"}
      BY <3>1, <1>2, EntryCells
    <3>4. c \in D => CellAt(disk, v).attr = "dir"
      BY <3>1, <3>3, <2>1, <1>2, <1>3, FileApart
    <3> QED
      BY <3>1, <3>2, <3>4, <2>1, <2>2, <1>3 DEF Placed
  <2>4. CASE v \in torn
    <3>1. fat[c] = FREE /\ c \notin D \cup Own(fat, Root)
      BY <2>1, <2>4, <1>2, TornFacts
    <3> QED
      BY <3>1, <2>1, <2>2 DEF Used
  <2>5. c # 0
    BY <1>1, ClusterFacts
  <2> QED
    BY <2>1, <2>3, <2>4, <2>5, <1>2, <1>4 DEF Victim
<1>5. CASE Begun(disk, op)
  <2>1. /\ v \in X /\ \A b \in Own(fat, c) : fat[b] # FREE
    <3>1. v \in Clusters \X CellIndex
      BY <1>1 DEF RemoveOp
    <3> QED
      BY <3>1, <1>2, <1>5 DEF Victim, Doom
  <2>2. CellAt(disk, v).first \in Clusters /\ fat[CellAt(disk, v).first] = FREE
    BY <2>1, <1>2, TornFacts
  <2>3. fat[c] # CellAt(disk, v).first
    BY <2>1, <2>2, <1>3
  <2>4. c \in Flying(fat, disk, op)
    BY <2>1, <1>1, <1>3, <1>5 DEF Flying
  <2>5. c \in G /\ D \cup Own(fat, Root) \subseteq Used(fat, G)
    BY <2>4, <1>2, DirFacts
  <2>6. c \notin Used(fat, G)
    BY <2>5 DEF Used
  <2> QED
    BY <2>3, <2>5, <2>6
<1> QED
  BY <1>4, <1>5

LEMMA FilesRemoveCluster ==
  ASSUME FatInv, FatInv', RemoveCluster, NEW D, Consistent(D), Files(D), NEW E,
         \A c \in D : c \in E \/ c = op.cur
  PROVE  Files(E)'
<1> DEFINE v == op.loc  c == op.cur
<1>1. /\ op.pc = "free" /\ c \in Clusters /\ fat' = With(fat, c, FREE)
      /\ op' = [op EXCEPT !.cur = fat[c]] /\ UNCHANGED <<disk, torn, written>>
  BY DEF RemoveCluster, set_next_cluster, Continue, ghosts, With, Valid
<1>2. op \in RemoveOp /\ Linked(fat) /\ Linked(fat')
  BY <1>1, OpKinds DEF FatInv, Typed
<1>3. op'.pc = "free" /\ op'.loc = v /\ op'.cur = fat[c]
  BY <1>1, <1>2 DEF RemoveOp
<1>4. /\ c \notin Own(fat, Root) /\ fat[c] # CellAt(disk, v).first
      /\ \/ c \notin Used(fat, lost \cup Flying(fat, disk, op))
         \/ v \in Placed(D) /\ c \in Own(fat, CellAt(disk, v).first)
      /\ c \in D => /\ CellAt(disk, v).attr = "dir" /\ c = CellAt(disk, v).first
  BY <1>1, VictimCluster
<1>5. Begun(disk', op')
  BY <1>1, <1>3, <1>4 DEF Begun
<1>6. \A x \in Clusters : x # c => fat'[x] = fat[x]
  BY <1>1, <1>2 DEF Linked, FatType, With
<1>7. EmptyVictim(disk, op)
  BY DEF Files
<1>8. EmptyVictim(disk', op')
  BY <1>1, <1>3, <1>7 DEF EmptyVictim
<1>9. Own(fat', Root) = Own(fat, Root)
  <2>1. Root \in Links /\ Own(fat, Root) \subseteq Clusters
    BY <1>2, ClusterFacts, OwnUnfold
  <2>2. \A x \in Own(fat, Root) : fat'[x] = fat[x]
    BY <2>1, <1>4, <1>6
  <2>3. Chains(fat')[Root] = Chains(fat)[Root]
    BY <2>1, <2>2, <1>2, ChainFrame
  <2> QED
    BY <2>3 DEF Own
<1>10. ASSUME NEW l \in DOMAIN written PROVE Recorded(fat', disk, E, op', torn, l, written[l])
  <2>1. l \notin torn
    BY DEF Files, Recorded
  <2>2. CASE l = v
    BY <2>1, <2>2, <1>1, <1>3, <1>5 DEF Recorded
  <2>3. CASE l # v
    <3>1. /\ l \in Clusters \X CellIndex /\ InPlace(fat, disk, D, torn, l)
          /\ Proper(CellAt(disk, l))
      BY <2>3, FileState
    <3>2. Elsewhere(fat, disk, fat', disk', c) /\ CellAt(disk', l) = CellAt(disk, l)
      BY <1>1, <1>6 DEF Elsewhere
    <3>3. \/ c \notin Used(fat, lost \cup Flying(fat, disk, op)) \/ c \in D \cup Own(fat, Root)
          \/ \E m \in Placed(D) : m # l /\ c \in Own(fat, CellAt(disk, m).first)
      BY <2>3, <1>4
    <3> HIDE DEF v, c
    <3>4. ~(Begun(disk, op) /\ l = op.loc)
      BY <2>3 DEF v
    <3>5. Filed(fat', disk', l, written[l])
      BY <3>2, <3>3, <3>4, FileKept
    <3>6. l[1] # c \/ c \notin D
      <4> SUFFICES ASSUME l[1] = c, c \in D PROVE FALSE
        OBVIOUS
      <4>1. ~Proper(disk[c][l[2]])
        BY <3>1, <1>1, <1>4, <1>7 DEF EmptyVictim, v
      <4> QED
        BY <4>1, <3>1 DEF CellAt
    <3>7. InPlace(fat', disk, E, torn, l)
      BY <3>1, <3>6, <1>9 DEF InPlace, c
    <3> QED
      BY <2>1, <3>5, <3>7, <1>1 DEF Recorded
  <2> QED
    BY <2>2, <2>3
<1>11. Progress(fat', disk', op')
  BY <1>3 DEF Progress
<1> QED
  BY <1>1, <1>8, <1>10, <1>11, FilesFrom

(* Every step leaves the recorded files in place.                          *)
LEMMA FilesStep ==
  ASSUME FatInv, FatInv', Next, ~UNCHANGED vars, NEW D, Consistent(D), Files(D),
         NEW E, Consistent(E)',
         \A c \in D : c \in E \/ (op.pc = "free" /\ c = op.cur /\ fat'[c] = FREE)
  PROVE  Files(E)'
<1>1. CASE RemoveCluster
  BY <1>1, FilesRemoveCluster
<1>2. CASE ~RemoveCluster
  <2>1. D \subseteq E
    <3> SUFFICES ASSUME NEW c \in D, op.pc = "free", fat'[c] = FREE PROVE FALSE
      OBVIOUS
    <3>1. fat[c] # FREE
      <4>1. c \in Clusters /\ c \in Own(fat, c)
        BY DirClusters, OwnUnfold
      <4> QED
        BY <4>1, DirClusters
    <3>2. fat' = fat
      <4>1. op # Idle
        BY IdleFacts
      <4>2. CASE Command
        BY <4>1, <4>2 DEF Command, write_file, delete_file, create_directory, rmdir, cd, Look, BeginRemoval,
           Begin, vars
      <4>3. CASE Step
        BY <4>3, <1>2 DEF Step, WriteFirst, WriteLink, WriteMark, WriteData, WriteEntry, MkdirInit,
           MkdirEntry, MkdirSpin, Spinning, RemoveEntry
      <4>4. CASE Crash
        BY <4>4 DEF Crash
      <4> QED
        BY <4>2, <4>3, <4>4 DEF Next
    <3> QED
      BY <3>1, <3>2
  <2>2. CASE Command
    <3>1. ASSUME NEW n \in FileNames, NEW t \in Texts, NEW z \in Sizes, write_file(n, t, z)
          PROVE  Files(E)'
      BY <2>1, <3>1, FilesWriteFile
    <3>2. ASSUME NEW n \in FileNames, delete_file(n) PROVE Files(E)'
      <4>1. find_file(cwd, n) # NoLoc /\ BeginRemoval(find_file(cwd, n)) /\ n \in Names
        BY <3>2 DEF delete_file, Names
      <4> QED
        BY <4>1, <2>1, FilesBeginRemoval
    <3>3. ASSUME NEW n \in DirNames, create_directory(n) PROVE Files(E)'
      BY <2>1, <3>3, FilesMkdir
    <3>4. ASSUME NEW n \in RmdirNames, rmdir(n) PROVE Files(E)'
      <4>1. /\ MayRmdir(find_file(cwd, n)) /\ BeginRemoval(find_file(cwd, n)) /\ n \in Names
            /\ find_file(cwd, n) # NoLoc
        BY <3>4, Fat32Assumption DEF rmdir, MayRmdir
      <4> QED
        BY <4>1, <2>1, FilesBeginRemoval
    <3>5. ASSUME NEW p \in Paths, cd(p) PROVE Files(E)'
      BY <2>1, <3>5, FilesCd
    <3> QED
      BY <2>2, <3>1, <3>2, <3>3, <3>4, <3>5 DEF Command, Look
  <2>3. CASE Step
    BY <1>2, <2>1, <2>3, FilesWriteFirst, FilesWriteLink, FilesWriteMark, FilesWriteData, FilesWriteEntry,
       FilesMkdirInit, FilesMkdirEntry, FilesRemoveEntry DEF Step, MkdirSpin
  <2>4. CASE Crash
    BY <2>1, <2>4, FilesCrash
  <2> QED
    BY <2>2, <2>3, <2>4 DEF Next
<1> QED
  BY <1>1, <1>2

LEMMA FilesInit == Init => FilesInv
<1> SUFFICES ASSUME Init PROVE FilesInv
  OBVIOUS
<1>1. PICK im \in Images : fat = im.fat /\ disk = im.disk /\ written = im.files
  BY DEF Init
<1>2. cwd = Root /\ op = Idle /\ torn = {} /\ lost = {}
  BY DEF Init
<1>3. Linked(fat) /\ IsDisk(disk)
  BY FatInit DEF FatInv, Typed
<1>4. PICK D \in SUBSET Clusters :
        /\ Sound(fat, disk, D, {}, {})
        /\ \A l \in DOMAIN written : l \in Entries(fat, disk, D) /\ Filed(fat, disk, l, written[l])
  BY <1>1, ImagesAssumption
<1>5. Vol(fat, disk, D, {}, {})
  BY <1>3, <1>4 DEF Vol
<1>6. Root \in D
  BY <1>5, DirFacts
<1>7. Consistent(D)
  BY <1>2, <1>5, <1>6, GoodIdle DEF Consistent
<1>8. ASSUME NEW l \in DOMAIN written PROVE Recorded(fat, disk, D, op, torn, l, written[l])
  <2>1. l[1] \in D \cup Own(fat, Root)
    BY <1>4, <1>5, EntryCells
  <2> QED
    BY <2>1, <1>2, <1>4 DEF Recorded, InPlace
<1>9. Files(D)
  BY <1>2, <1>8, OpVacuous DEF Files
<1> QED
  BY <1>7, <1>9 DEF FilesInv

LEMMA FilesNext == FatInv /\ FatInv' /\ FilesInv /\ [Next]_vars => FilesInv'
<1> SUFFICES ASSUME FatInv, FatInv', FilesInv, [Next]_vars PROVE FilesInv'
  OBVIOUS
<1>1. CASE UNCHANGED vars
  BY <1>1 DEF FilesInv, Consistent, Files, vars, ghosts
<1>2. CASE poisoned'
  BY <1>2 DEF FilesInv
<1>3. CASE ~UNCHANGED vars /\ ~poisoned'
  <2>1. ~poisoned
    BY <1>3, StaysPoisoned
  <2>2. PICK D \in SUBSET Clusters : Consistent(D) /\ Files(D)
    BY <2>1 DEF FilesInv
  <2>3. PICK E : /\ Consistent(E)'
                 /\ \A c \in D : c \in E \/ (op.pc = "free" /\ c = op.cur /\ fat'[c] = FREE)
    BY <2>2, <1>3, VolStep DEF Carried
  <2>4. E \in SUBSET Clusters
    <3>1. Good(fat', disk', cwd', op', torn', lost', E)
      BY <2>3 DEF Consistent
    <3> QED
      BY <3>1, DirFacts DEF Good
  <2>5. Files(E)'
    BY <2>2, <2>3, <1>3, FilesStep
  <2> QED
    BY <2>3, <2>4, <2>5 DEF FilesInv
<1> QED
  BY <1>1, <1>2, <1>3

LEMMA FilesAlways == Spec => [](FatInv /\ FilesInv)
<1>1. Init => FatInv /\ FilesInv
  BY FatInit, FilesInit
<1>2. FatInv /\ FilesInv /\ [Next]_vars => (FatInv /\ FilesInv)'
  BY FatNext, FilesNext
<1> QED
  BY <1>1, <1>2, PTL DEF Spec

-----------------------------------------------------------------------------
(* What the readers return.                                                *)

(* The n cells behind the first p of a walk.                               *)
Run(w, p, n) == [k \in 1 .. n |-> At(w[p + k])]

LEMMA MinPair ==
  ASSUME NEW a \in Nat, NEW b \in Nat
  PROVE  Min({a, b}) = IF a <= b THEN a ELSE b
<1>1. Min({a, b}) \in {a, b} /\ \A y \in {a, b} : Min({a, b}) <= y
  BY MinNat
<1> QED
  BY <1>1

Joined(w, p, a, b) == Run(w, p, a) \o Run(w, p + a, b) = Run(w, p, a + b)

LEMMA RunConcat ==
  ASSUME NEW w, NEW p \in Nat, NEW a \in Nat, NEW b \in Nat
  PROVE  Joined(w, p, a, b)
<1> DEFINE S == {At(w[j]) : j \in Nat}
<1> DEFINE u == Run(w, p, a)  v == Run(w, p + a, b)  x == Run(w, p, a + b)
<1>1. /\ u \in Seq(S) /\ Len(u) = a /\ \A k \in 1 .. a : u[k] = At(w[p + k])
      /\ v \in Seq(S) /\ Len(v) = b /\ \A k \in 1 .. b : v[k] = At(w[(p + a) + k])
      /\ x \in Seq(S) /\ Len(x) = a + b /\ \A k \in 1 .. a + b : x[k] = At(w[p + k])
  <2>1. ASSUME NEW q \in Nat, NEW n \in Nat
        PROVE  /\ Run(w, q, n) \in Seq(S) /\ Len(Run(w, q, n)) = n
               /\ \A k \in 1 .. n : Run(w, q, n)[k] = At(w[q + k])
    <3>1. \A k \in 1 .. n : At(w[q + k]) \in S
      OBVIOUS
    <3> HIDE DEF S
    <3> QED
      BY <3>1 DEF Run
  <2>2. p + a \in Nat /\ a + b \in Nat
    OBVIOUS
  <2> QED
    BY <2>1, <2>2
<1> HIDE DEF S, u, v, x
<1>2. /\ u \o v \in Seq(S) /\ Len(u \o v) = Len(u) + Len(v)
      /\ \A i \in 1 .. Len(u) + Len(v) : (u \o v)[i] = IF i <= Len(u) THEN u[i] ELSE v[i - Len(u)]
  BY <1>1, ConcatProperties, Zenon
<1> DEFINE y == u \o v
<1>3. y \in Seq(S) /\ Len(y) = a + b /\ \A i \in 1 .. a + b : y[i] = IF i <= a THEN u[i] ELSE v[i - a]
  BY <1>1, <1>2
<1> HIDE DEF y
<1>4. ASSUME NEW k \in 1 .. a + b PROVE y[k] = x[k]
  <2>1. CASE k <= a
    <3>1. k \in 1 .. a
      BY <2>1
    <3> QED
      BY <3>1, <2>1, <1>1, <1>3
  <2>2. CASE ~(k <= a)
    <3>1. k - a \in 1 .. b /\ (p + a) + (k - a) = p + k
      BY <2>2
    <3> QED
      BY <2>2, <3>1, <1>1, <1>3
  <2> QED
    BY <2>1, <2>2
<1>5. y = x
  BY <1>1, <1>3, <1>4, SeqEqual
<1> QED
  BY <1>5 DEF Joined, u, v, x, y

(* The recursion of read_absolute: what is copied from the last n sectors  *)
(* of N, when h is what is copied from the sectors behind the first of     *)
(* them.                                                                   *)
Skip(r, s) == IF s = r \div EntriesPerSector THEN r % EntriesPerSector ELSE 0

Portion(r, s, left) == Min({EntriesPerSector - Skip(r, s), left})

Copied(w, r, N, z, n, h) ==
  [left \in 0 .. z |->
     IF n = 0 \/ left = 0 THEN <<>>
     ELSE Run(w, (N - n) * EntriesPerSector + Skip(r, N - n), Portion(r, N - n, left))
            \o h[left - Portion(r, N - n, left)]]

LEMMA SkipFacts ==
  ASSUME NEW r \in Nat, NEW s \in Nat
  PROVE  Skip(r, s) \in Nat /\ Skip(r, s) < EntriesPerSector
<1>1. EntriesPerSector \in Nat \ {0}
  BY Fat32Assumption
<1>2. r % EntriesPerSector \in Nat /\ r % EntriesPerSector < EntriesPerSector
  BY <1>1, DivMod
<1> QED
  BY <1>1, <1>2 DEF Skip

LEMMA PortionFacts ==
  ASSUME NEW r \in Nat, NEW s \in Nat, NEW left \in Nat
  PROVE  /\ Portion(r, s, left) \in Nat /\ left - Portion(r, s, left) \in 0 .. left
         /\ Portion(r, s, left) = IF EntriesPerSector - Skip(r, s) <= left
                                THEN EntriesPerSector - Skip(r, s) ELSE left
<1> DEFINE m == EntriesPerSector - Skip(r, s)
<1>1. m \in Nat
  <2>1. EntriesPerSector \in Nat /\ Skip(r, s) \in Nat /\ Skip(r, s) < EntriesPerSector
    BY SkipFacts, Fat32Assumption
  <2> QED
    BY <2>1
<1> HIDE DEF m
<1>2. Min({m, left}) = IF m <= left THEN m ELSE left
  BY <1>1, MinPair
<1>3. Portion(r, s, left) = Min({m, left})
  BY DEF Portion, m
<1>4. /\ Portion(r, s, left) \in Nat /\ left - Portion(r, s, left) \in 0 .. left
      /\ Portion(r, s, left) = IF m <= left THEN m ELSE left
  BY <1>1, <1>2, <1>3
<1> QED
  BY <1>4 DEF m

(* The recursion that defines a read, unfolded.                            *)
Copies(w, r, N, z, g) ==
  /\ DOMAIN g = 0 .. N
  /\ \A n \in 0 .. N : g[n] = Copied(w, r, N, z, n, g[n - 1])

Copying(w, r, N, z, g) == g = [n \in 0 .. N |-> Copied(w, r, N, z, n, g[n - 1])]

LEMMA CopyExists ==
  ASSUME NEW w, NEW r \in Nat, NEW N \in Nat, NEW z \in Nat
  PROVE  \E g : Copying(w, r, N, z, g)
<1> DEFINE S == {At(w[j]) : j \in Nat}
<1> DEFINE V == [0 .. z -> Seq(S)]
<1> DEFINE base == [left \in 0 .. z |-> <<>>]
<1> DEFINE step == [n \in 1 .. N |-> [h \in V |-> Copied(w, r, N, z, n, h)]]
<1>1. base \in V
  OBVIOUS
<1>2. ASSUME NEW n \in 1 .. N, NEW h \in V PROVE Copied(w, r, N, z, n, h) \in V
  <2>1. ASSUME NEW left \in 0 .. z
        PROVE  Run(w, (N - n) * EntriesPerSector + Skip(r, N - n), Portion(r, N - n, left))
                 \o h[left - Portion(r, N - n, left)] \in Seq(S)
    <3> DEFINE p == (N - n) * EntriesPerSector + Skip(r, N - n)  m == Portion(r, N - n, left)
    <3>1. N - n \in Nat /\ left \in Nat /\ EntriesPerSector \in Nat
      BY Fat32Assumption
    <3>2. Skip(r, N - n) \in Nat /\ (N - n) * EntriesPerSector \in Nat
      <4>1. \A a, b \in Nat : a * b \in Nat
        OBVIOUS
      <4>2. Skip(r, N - n) \in Nat
        BY <3>1, SkipFacts
      <4> QED
        BY <3>1, <4>1, <4>2, Zenon
    <3>3. p \in Nat
      BY <3>2
    <3>4. m \in Nat /\ left - m \in 0 .. z
      <4>1. m \in Nat /\ left - m \in 0 .. left
        BY <3>1, PortionFacts
      <4> HIDE DEF m
      <4> QED
        BY <4>1
    <3> HIDE DEF p, m
    <3>5. Run(w, p, m) \in Seq(S)
      <4>1. \A k \in 1 .. m : At(w[p + k]) \in S
        BY <3>3, <3>4
      <4> HIDE DEF S
      <4> QED
        BY <4>1, <3>4 DEF Run
    <3>6. h[left - m] \in Seq(S)
      BY <3>4
    <3>7. Run(w, p, m) \o h[left - m] \in Seq(S)
      BY <3>5, <3>6, ConcatProperties, Zenon
    <3> QED
      BY <3>7 DEF p, m
  <2> HIDE DEF S
  <2>2. <<>> \in Seq(S)
    OBVIOUS
  <2> QED
    BY <2>1, <2>2 DEF Copied
<1>3. step \in [1 .. N -> [V -> V]]
  <2> HIDE DEF V
  <2> QED
    BY <1>2
<1>4. PICK g \in [0 .. N -> V] : g[0] = base /\ \A n \in 1 .. N : g[n] = step[n][g[n - 1]]
  <2>1. step \in Steps(N, V)
    BY <1>3, Zenon DEF Steps
  <2> HIDE DEF V, base, step
  <2>2. Solvable(N, V, base, step)
    BY <1>1, <2>1, RecursionExists, Zenon
  <2> QED
    BY <2>2, Zenon DEF Solvable
<1>5. ASSUME NEW n \in 0 .. N PROVE g[n] = Copied(w, r, N, z, n, g[n - 1])
  <2>1. CASE n = 0
    <3>1. Copied(w, r, N, z, 0, g[n - 1]) = base
      BY DEF Copied
    <3> QED
      BY <2>1, <3>1, <1>4, Zenon
  <2>2. CASE n # 0
    <3>1. n \in 1 .. N /\ n - 1 \in 0 .. N
      BY <2>2
    <3>2. g[n - 1] \in V
      <4> HIDE DEF V
      <4> QED
        BY <3>1, <1>4
    <3>3. step[n] = [h \in V |-> Copied(w, r, N, z, n, h)]
      <4> HIDE DEF V
      <4> QED
        BY <3>1
    <3>4. g[n] = step[n][g[n - 1]]
      BY <3>1, <1>4, Zenon
    <3> HIDE DEF V, step
    <3> QED
      BY <3>2, <3>3, <3>4
  <2> QED
    BY <2>1, <2>2
<1>6. g = [n \in 0 .. N |-> Copied(w, r, N, z, n, g[n - 1])]
  <2> HIDE DEF V, base, step
  <2> QED
    BY <1>4, <1>5
<1> QED
  BY <1>6, Zenon DEF Copying

LEMMA ReadUnfold ==
  ASSUME NEW c, NEW o \in Nat, NEW z \in Nat, Chain(c) \in Seq(Clusters),
         o \div CellsPerCluster < Len(Chain(c))
  PROVE  LET s == Chain(c)  q == o \div CellsPerCluster  r == o % CellsPerCluster
             N == (Len(s) - q) * SectorsPerCluster
         IN \E g : /\ Copies(Walk(SubSeq(s, q + 1, Len(s))), r, N, z, g)
                   /\ read_absolute(c, o, z) = g[N - (r \div EntriesPerSector)][z]
<1> DEFINE s == Chain(c)  q == o \div CellsPerCluster  r == o % CellsPerCluster
<1> DEFINE N == (Len(s) - q) * SectorsPerCluster  w == Walk(SubSeq(s, q + 1, Len(s)))
<1> DEFINE g == CHOOSE h : Copying(w, r, N, z, h)
<1>1. Len(s) \in Nat /\ q \in Nat /\ r \in Nat /\ q < Len(s) /\ SectorsPerCluster \in Nat
  BY DivMod, Geometry, Fat32Assumption
<1>2. N \in Nat
  <2> HIDE DEF s, q
  <2>1. Len(s) - q \in Nat
    BY <1>1
  <2> QED
    BY <2>1, <1>1
<1>3. \E h : Copying(w, r, N, z, h)
  <2> HIDE DEF N, w, r
  <2> QED
    BY <1>1, <1>2, CopyExists, Zenon
<1>4. Copying(w, r, N, z, g)
  BY <1>3, Zenon
<1>5. read_absolute(c, o, z) = IF q >= Len(s) THEN <<>> ELSE g[N - (r \div EntriesPerSector)][z]
  BY Zenon DEF read_absolute, Copying, Copied, Run, Skip, Portion
<1>6. read_absolute(c, o, z) = g[N - (r \div EntriesPerSector)][z]
  <2> HIDE DEF q, s, g, N, r
  <2> QED
    BY <1>1, <1>5
<1>7. Copies(w, r, N, z, g)
  <2> HIDE DEF w, r, N, g
  <2> QED
    BY <1>4 DEF Copies, Copying
<1> HIDE DEF g
<1> QED
  BY <1>6, <1>7

(* Where the copy of sector s begins.                                      *)
Start(r, s) == s * EntriesPerSector + Skip(r, s)

(* The copy from the last n sectors is a run of the walk.                  *)
Seamless(w, r, N, z, g, n) ==
  \A left \in 0 .. z :
    N - n >= r \div EntriesPerSector /\ Start(r, N - n) + left <= N * EntriesPerSector
      => g[n][left] = Run(w, Start(r, N - n), left)

LEMMA RunEmpty ==
  ASSUME NEW w, NEW p
  PROVE  Run(w, p, 0) = <<>>
  BY DEF Run

NoneCopied(g, n, left) == g[n][left] = <<>>

LEMMA CopyNone ==
  ASSUME NEW w, NEW r \in Nat, NEW N \in Nat, NEW z \in Nat, NEW g, Copies(w, r, N, z, g),
         NEW n \in 0 .. N, NEW left \in 0 .. z, n = 0 \/ left = 0
  PROVE  NoneCopied(g, n, left)
<1>1. g[n] = Copied(w, r, N, z, n, g[n - 1])
  BY DEF Copies
<1> QED
  BY <1>1 DEF Copied, NoneCopied

SomeCopied(w, r, N, g, n, left) ==
  g[n][left] = Run(w, Start(r, N - n), Portion(r, N - n, left))
                 \o g[n - 1][left - Portion(r, N - n, left)]

LEMMA CopySome ==
  ASSUME NEW w, NEW r \in Nat, NEW N \in Nat, NEW z \in Nat, NEW g, Copies(w, r, N, z, g),
         NEW n \in 1 .. N, NEW left \in 1 .. z
  PROVE  SomeCopied(w, r, N, g, n, left)
<1>1. n \in 0 .. N /\ n # 0 /\ left \in 0 .. z /\ left # 0
  OBVIOUS
<1>2. g[n] = Copied(w, r, N, z, n, g[n - 1])
  BY <1>1 DEF Copies
<1> QED
  BY <1>1, <1>2 DEF Copied, Start, SomeCopied

LEMMA CopyBase ==
  ASSUME NEW w, NEW r \in Nat, NEW N \in Nat, NEW z \in Nat, NEW g, Copies(w, r, N, z, g)
  PROVE  Seamless(w, r, N, z, g, 0)
<1> SUFFICES ASSUME NEW left \in 0 .. z, Start(r, N - 0) + left <= N * EntriesPerSector
             PROVE  g[0][left] = Run(w, Start(r, N - 0), left)
  BY DEF Seamless
<1>1. Skip(r, N) \in Nat /\ N - 0 = N /\ 0 \in 0 .. N
  BY SkipFacts
<1> DEFINE t == N * EntriesPerSector
<1>2. t \in Nat
  <2>1. EntriesPerSector \in Nat /\ \A a, b \in Nat : a * b \in Nat
    BY Fat32Assumption
  <2> QED
    BY <2>1
<1>3. t + Skip(r, N) + left <= t
  BY <1>1 DEF Start
<1> HIDE DEF t
<1>4. left = 0
  BY <1>1, <1>2, <1>3
<1>5. NoneCopied(g, 0, left)
  BY <1>1, <1>4, CopyNone
<1> QED
  BY <1>4, <1>5, RunEmpty, Zenon DEF NoneCopied

LEMMA CopyStep ==
  ASSUME NEW w, NEW r \in Nat, NEW N \in Nat, NEW z \in Nat, NEW g, Copies(w, r, N, z, g),
         NEW n \in 1 .. N, Seamless(w, r, N, z, g, n - 1)
  PROVE  Seamless(w, r, N, z, g, n)
<1> SUFFICES ASSUME NEW left \in 0 .. z, N - n >= r \div EntriesPerSector,
                    Start(r, N - n) + left <= N * EntriesPerSector
             PROVE  g[n][left] = Run(w, Start(r, N - n), left)
  BY DEF Seamless
<1> DEFINE E == EntriesPerSector  s == N - n  k == Skip(r, s)  m == Portion(r, s, left)
<1> DEFINE p == s * E  t == N * E
<1>1. /\ E \in Nat /\ s \in Nat /\ left \in Nat /\ s + 1 = N - (n - 1) /\ r \div E \in Nat
      /\ n \in 0 .. N /\ n - 1 \in 0 .. N
  <2>1. E \in Nat \ {0}
    BY Fat32Assumption
  <2> HIDE DEF E
  <2>2. r \div E \in Nat
    BY <2>1, DivMod
  <2>3. s \in Nat /\ s + 1 = N - (n - 1) /\ n \in 0 .. N /\ n - 1 \in 0 .. N
    OBVIOUS
  <2> QED
    BY <2>1, <2>2, <2>3
<1>2. /\ k \in Nat /\ k < E /\ m \in Nat /\ left - m \in 0 .. left
      /\ m = IF E - k <= left THEN E - k ELSE left
  BY <1>1, SkipFacts, PortionFacts
<1>3. p \in Nat /\ t \in Nat /\ (s + 1) * E = p + E
  <2> HIDE DEF s
  <2> QED
    BY <1>1
<1>4. Start(r, s) = p + k /\ p + k + left <= t
  <2>1. Start(r, s) = p + k
    BY DEF Start
  <2> QED
    BY <2>1, <1>1, <1>2, <1>3
<1>5. Skip(r, s + 1) = 0 /\ Start(r, s + 1) = p + E
  <2>1. s + 1 # r \div E
    BY <1>1
  <2>2. Skip(r, s + 1) = 0
    BY <2>1 DEF Skip
  <2> HIDE DEF p
  <2> QED
    BY <2>2, <1>1, <1>3 DEF Start
<1>6. CASE left = 0
  <2>1. NoneCopied(g, n, left)
    BY <1>1, <1>6, CopyNone
  <2> QED
    BY <2>1, <1>6, RunEmpty, Zenon DEF NoneCopied
<1>7. CASE left # 0
  <2>1. g[n][left] = Run(w, p + k, m) \o g[n - 1][left - m]
    <3>1. left \in 1 .. z
      BY <1>7
    <3>2. SomeCopied(w, r, N, g, n, left)
      BY <3>1, CopySome
    <3> QED
      BY <3>2, <1>4 DEF SomeCopied
  <2> DEFINE b == left - m
  <2>2. g[n - 1][b] = Run(w, (p + k) + m, b)
    <3> HIDE DEF E, s, k, m, p, t
    <3>1. b \in 0 .. z
      BY <1>2
    <3>2. CASE E - k <= left
      <4>1. m = E - k /\ p + E = (p + k) + m /\ (p + E) + b <= t
        BY <3>2, <1>1, <1>2, <1>3, <1>4
      <4>2. N - (n - 1) >= r \div E
        BY <1>1 DEF s, E
      <4>3. Start(r, N - (n - 1)) = p + E
        BY <1>1, <1>5
      <4> HIDE DEF b
      <4>4. g[n - 1][b] = Run(w, p + E, b)
        BY <3>1, <4>1, <4>2, <4>3 DEF Seamless, E, t
      <4> QED
        BY <4>1, <4>4
    <3>3. CASE ~(E - k <= left)
      <4>1. m = left
        BY <3>3, <1>2
      <4>2. b = 0
        BY <4>1, <1>1
      <4> HIDE DEF b
      <4> QED
        <5>1. NoneCopied(g, n - 1, b)
          BY <4>2, <3>1, <1>1, CopyNone
        <5> QED
          BY <5>1, <4>2, RunEmpty, Zenon DEF NoneCopied
    <3> QED
      BY <3>2, <3>3
  <2>3. p + k \in Nat /\ b \in Nat /\ m + b = left
    <3> HIDE DEF E, s, k, m, p, t
    <3> QED
      BY <1>1, <1>2, <1>3
  <2> HIDE DEF E, s, k, m, p, t, b
  <2>4. Joined(w, p + k, m, b)
    BY <2>3, <1>2, RunConcat
  <2>5. g[n][left] = Run(w, p + k, left)
    BY <2>1, <2>2, <2>3, <2>4 DEF b, Joined
  <2> QED
    BY <2>5, <1>4 DEF s
<1> QED
  BY <1>6, <1>7

LEMMA CopyRuns ==
  ASSUME NEW w, NEW r \in Nat, NEW N \in Nat, NEW z \in Nat, NEW g, Copies(w, r, N, z, g)
  PROVE  \A n \in 0 .. N : Seamless(w, r, N, z, g, n)
<1> DEFINE Bad == {n \in 0 .. N : ~Seamless(w, r, N, z, g, n)}
<1> SUFFICES ASSUME Bad # {} PROVE FALSE
  OBVIOUS
<1>1. Bad \in SUBSET Nat
  OBVIOUS
<1> DEFINE m == Min(Bad)
<1>2. m \in Bad /\ \A y \in Bad : m <= y
  BY <1>1, MinNat
<1> HIDE DEF m
<1>3. m \in 0 .. N /\ ~Seamless(w, r, N, z, g, m)
  BY <1>2
<1>4. m # 0
  BY <1>3, CopyBase
<1>5. m \in 1 .. N /\ m - 1 \in 0 .. N /\ ~(m <= m - 1)
  BY <1>3, <1>4
<1>6. Seamless(w, r, N, z, g, m - 1)
  BY <1>2, <1>5
<1> QED
  BY <1>3, <1>5, <1>6, CopyStep

(* The walk behind the first q clusters.                                   *)
LEMMA WalkBehind ==
  ASSUME NEW s \in Seq(Clusters), NEW q \in Nat, q < Len(s),
         NEW j \in 1 .. (Len(s) - q) * CellsPerCluster
  PROVE  Walk(SubSeq(s, q + 1, Len(s)))[j] = Walk(s)[CellsPerCluster * q + j]
<1> DEFINE u == SubSeq(s, q + 1, Len(s))
<1>1. u \in Seq(Clusters) /\ Len(u) = Len(s) - q /\ \A i \in 1 .. Len(s) - q : u[i] = s[q + i]
  <2>1. Len(s) \in Nat /\ q + 1 \in 1 .. Len(s) + 1 /\ Len(s) \in q .. Len(s)
    OBVIOUS
  <2> QED
    BY <2>1
<1> HIDE DEF u
<1>2. j \in DOMAIN Walk(u)
  BY <1>1 DEF Walk
<1>3. PICK a \in Nat, m \in CellIndex :
        /\ a < Len(u) /\ 1 + a \in DOMAIN u /\ j = CellsPerCluster * a + m + 1
        /\ Walk(u)[j] = <<u[1 + a], m>>
  BY <1>1, <1>2, WalkAt
<1> DEFINE i == q + (1 + a)
<1>4. i \in DOMAIN s /\ u[1 + a] = s[i] /\ i - 1 = q + a
  BY <1>1, <1>3
<1> HIDE DEF i
<1>5. LET k == CellsPerCluster * (i - 1) + m + 1
      IN k \in DOMAIN Walk(s) /\ Walk(s)[k] = <<s[i], m>>
  BY <1>4, WalkOnto
<1>6. CellsPerCluster * (q + a) + m + 1 = CellsPerCluster * q + j
  <2> DEFINE x == CellsPerCluster * q  y == CellsPerCluster * a
  <2>1. CellsPerCluster * (q + a) = x + y /\ x \in Nat /\ y \in Nat /\ m \in Nat
    BY Geometry, <1>3
  <2> HIDE DEF x, y
  <2>2. j = y + m + 1
    BY <1>3 DEF y
  <2>3. x + y + m + 1 = x + j
    BY <2>1, <2>2
  <2> QED
    BY <2>1, <2>3 DEF x
<1>7. Walk(u)[j] = Walk(s)[CellsPerCluster * q + j]
  BY <1>3, <1>4, <1>5, <1>6
<1> QED
  BY <1>7 DEF u

(* Where a read begins: whole clusters, whole sectors and a part of one.   *)
LEMMA ReadPlace ==
  ASSUME NEW L \in Nat, NEW o \in Nat, NEW z \in Nat, o < L * CellsPerCluster,
         o + z <= L * CellsPerCluster
  PROVE  LET q == o \div CellsPerCluster  r == o % CellsPerCluster
             N == (L - q) * SectorsPerCluster  b == r \div EntriesPerSector
         IN /\ q \in Nat /\ r \in Nat /\ q < L /\ o = CellsPerCluster * q + r
            /\ N \in Nat /\ b \in 0 .. N /\ Start(r, b) = r
            /\ N * EntriesPerSector = (L - q) * CellsPerCluster
            /\ r + z <= N * EntriesPerSector
<1> DEFINE E == EntriesPerSector  S == SectorsPerCluster  C == CellsPerCluster
<1> DEFINE q == o \div C  r == o % C  b == r \div E  m == L - q  N == m * S
<1>1. E \in Nat \ {0} /\ S \in Nat \ {0} /\ C \in Nat \ {0} /\ C = E * S
  BY Geometry, Fat32Assumption DEF CellsPerCluster
<1>2. q \in Nat /\ r \in Nat /\ o = C * q + r /\ r < C
  BY <1>1, DivMod
<1>3. b \in Nat /\ r % E \in Nat /\ r = E * b + (r % E) /\ r % E < E
  BY <1>1, <1>2, DivMod
<1>4. L * C = C * L /\ C * L \in Nat /\ C * q \in Nat
  <2> HIDE DEF q, C
  <2> QED
    BY <1>1, <1>2
<1>5. q < L
  <2> SUFFICES ASSUME L <= q PROVE FALSE
    BY <1>2
  <2> HIDE DEF q, C, r
  <2>1. C * L <= C * q
    BY <1>1, <1>2, MulMono
  <2> DEFINE x == C * L  y == C * q
  <2>2. x <= y /\ o = y + r /\ o < x /\ x \in Nat /\ y \in Nat
    BY <2>1, <1>2, <1>4 DEF C
  <2> HIDE DEF x, y
  <2> QED
    BY <2>2, <1>2
<1>6. m \in Nat /\ m >= 1
  <2> HIDE DEF q
  <2> QED
    BY <1>2, <1>5
<1>7. C * L = C * q + C * m
  <2>1. q <= L
    BY <1>2, <1>5
  <2> HIDE DEF q, C
  <2> QED
    BY <2>1, <1>1, <1>2, MulMono DEF m
<1>8. N \in Nat /\ N * E = m * C /\ m * C = C * m /\ C * m \in Nat /\ S <= N
  <2> HIDE DEF m, E, S, C
  <2>1. N \in Nat /\ N = S * m /\ S * 1 = S
    BY <1>1, <1>6
  <2>2. S * 1 <= S * m
    BY <1>1, <1>6, MulMono
  <2>3. (m * S) * E = m * (E * S) /\ m * C = C * m /\ C * m \in Nat
    BY <1>1, <1>6
  <2> QED
    BY <2>1, <2>2, <2>3, <1>1
<1>9. r + z <= C * m
  <2> DEFINE x == C * L  y == C * q  w == C * m
  <2>1. x = y + w /\ o = y + r /\ o + z <= x /\ x \in Nat /\ y \in Nat /\ w \in Nat
    BY <1>2, <1>4, <1>7, <1>8
  <2> HIDE DEF x, y, w, r
  <2>2. r + z <= w
    BY <2>1, <1>2
  <2> QED
    BY <2>2 DEF w
<1>10. b < S
  <2> SUFFICES ASSUME S <= b PROVE FALSE
    BY <1>1, <1>3
  <2> HIDE DEF b, r, C, E, S
  <2>1. E * S <= E * b /\ E * b \in Nat
    BY <1>1, <1>3, MulMono
  <2> DEFINE x == E * b
  <2>2. C <= x /\ r = x + (r % E) /\ x \in Nat
    BY <2>1, <1>1, <1>3
  <2> HIDE DEF x
  <2> QED
    BY <2>2, <1>1, <1>2, <1>3
<1>11. b \in 0 .. N
  <2> HIDE DEF b, N, S
  <2> QED
    BY <1>1, <1>3, <1>8, <1>10
<1>12. Start(r, b) = r
  <2>1. Start(r, b) = b * E + (r % E)
    BY DEF Start, Skip
  <2>2. b * E = E * b
    <3> HIDE DEF b, E
    <3> QED
      BY <1>1, <1>3
  <2> QED
    BY <2>1, <2>2, <1>3
<1> HIDE DEF E, S, C, q, r, b, m, N
<1>13. r + z <= N * E
  BY <1>8, <1>9
<1> QED
  BY <1>2, <1>5, <1>8, <1>11, <1>12, <1>13 DEF E, S, C, q, r, b, m, N

ReadsRun(c, o, z) == read_absolute(c, o, z) = Run(Walk(Chain(c)), o, z)

(* A read inside the chain copies the cells it was asked for.              *)
LEMMA ReadAbsolute ==
  ASSUME NEW c, Chain(c) \in Seq(Clusters), NEW o \in Nat, NEW z \in Nat,
         o < Len(Chain(c)) * CellsPerCluster, o + z <= Len(Chain(c)) * CellsPerCluster
  PROVE  ReadsRun(c, o, z)
<1> DEFINE s == Chain(c)  L == Len(s)  q == o \div CellsPerCluster  r == o % CellsPerCluster
<1> DEFINE N == (L - q) * SectorsPerCluster  b == r \div EntriesPerSector
<1> DEFINE w == Walk(SubSeq(s, q + 1, L))
<1>1. L \in Nat
  OBVIOUS
<1>2. /\ q \in Nat /\ r \in Nat /\ q < L /\ o = CellsPerCluster * q + r
      /\ N \in Nat /\ b \in 0 .. N /\ Start(r, b) = r
      /\ N * EntriesPerSector = (L - q) * CellsPerCluster
      /\ r + z <= N * EntriesPerSector
  <2> HIDE DEF L
  <2>1. o < L * CellsPerCluster /\ o + z <= L * CellsPerCluster
    BY DEF L
  <2> QED
    BY <1>1, <2>1, ReadPlace
<1>3. PICK g : Copies(w, r, N, z, g) /\ read_absolute(c, o, z) = g[N - b][z]
  <2>1. q < Len(Chain(c))
    BY <1>2
  <2> QED
    BY <2>1, ReadUnfold
<1>5. \A j \in 1 .. N * EntriesPerSector : w[j] = Walk(s)[CellsPerCluster * q + j]
  BY <1>2, WalkBehind
<1> HIDE DEF s, L, q, r, N, b, w
<1>6. N - b \in 0 .. N /\ N - (N - b) = b
  BY <1>2
<1>7. Seamless(w, r, N, z, g, N - b)
  BY <1>2, <1>3, <1>6, CopyRuns
<1>8. g[N - b][z] = Run(w, r, z)
  <2>1. z \in 0 .. z /\ b >= r \div EntriesPerSector /\ r + z <= N * EntriesPerSector
    BY <1>2 DEF b
  <2> QED
    BY <2>1, <1>2, <1>6, <1>7 DEF Seamless
<1>9. Run(w, r, z) = Run(Walk(s), o, z)
  <2>1. ASSUME NEW k \in 1 .. z PROVE w[r + k] = Walk(s)[o + k]
    <3> DEFINE x == CellsPerCluster * q  t == N * EntriesPerSector
    <3>1. x \in Nat /\ t \in Nat /\ o = x + r /\ r + z <= t
      <4>1. CellsPerCluster \in Nat /\ EntriesPerSector \in Nat /\ \A i, j \in Nat : i * j \in Nat
        BY Geometry, Fat32Assumption
      <4> QED
        BY <4>1, <1>2
    <3> HIDE DEF x, t
    <3>2. r + k \in 1 .. t /\ x + (r + k) = o + k
      BY <3>1, <1>2
    <3>3. w[r + k] = Walk(s)[x + (r + k)]
      BY <3>2, <1>5 DEF x, t
    <3> QED
      BY <3>2, <3>3
  <2> QED
    BY <2>1 DEF Run
<1> QED
  BY <1>3, <1>8, <1>9 DEF ReadsRun, s

-----------------------------------------------------------------------------
(* A recorded file is read back.                                           *)

Content(r) == [k \in 1 .. r.size |-> Text(r.text, k - 1)]

LEMMA MaxPair ==
  ASSUME NEW a \in Nat, NEW b \in Nat
  PROVE  Max({a, b}) = IF a <= b THEN b ELSE a
<1>1. \A x \in {a, b} : (\A y \in {a, b} : x >= y) <=> x = IF a <= b THEN b ELSE a
  OBVIOUS
<1>2. \E x \in {a, b} : \A y \in {a, b} : x >= y
  OBVIOUS
<1> QED
  BY <1>1, <1>2 DEF Max

(* A part of a sequence, cell by cell.                                     *)
LEMMA SubRun ==
  ASSUME NEW T, NEW s \in Seq(T), NEW i \in Nat, NEW n \in Nat, i + n <= Len(s)
  PROVE  SubSeq(s, i + 1, i + n) = [k \in 1 .. n |-> s[i + k]]
<1> DEFINE u == SubSeq(s, i + 1, i + n)
<1>1. Len(s) \in Nat
  OBVIOUS
<1>2. u \in Seq(T) /\ Len(u) = n /\ \A k \in 1 .. n : u[k] = s[i + k]
  <2>1. CASE n = 0
    BY <2>1, <1>1
  <2>2. CASE n # 0
    BY <2>2, <1>1
  <2> QED
    BY <2>1, <2>2
<1> HIDE DEF u
<1>3. u = [k \in 1 .. n |-> s[i + k]]
  BY <1>2
<1> QED
  BY <1>3 DEF u

LEMMA ContentFacts ==
  ASSUME NEW r, r.size \in Nat
  PROVE  /\ Len(Content(r)) = r.size /\ Content(r) \in Seq({Text(r.text, k) : k \in Nat})
         /\ \A k \in 1 .. r.size : Content(r)[k] = Text(r.text, k - 1)
<1> DEFINE T == {Text(r.text, k) : k \in Nat}
<1>1. \A k \in 1 .. r.size : k - 1 \in Nat /\ Text(r.text, k - 1) \in T
  OBVIOUS
<1> HIDE DEF T
<1>2. /\ Len(Content(r)) = r.size /\ Content(r) \in Seq(T)
      /\ \A k \in 1 .. r.size : Content(r)[k] = Text(r.text, k - 1)
  BY <1>1 DEF Content
<1> QED
  BY <1>2 DEF T

(* The cells of a file in its chain.                                       *)
Stored(s, r) ==
  /\ s \in Seq(Clusters) /\ r.size \in Nat /\ r.size <= Len(s) * CellsPerCluster
  /\ \A k \in 1 .. r.size : At(Walk(s)[k]) = Text(r.text, k - 1)

LEMMA FileStored ==
  ASSUME FatInv, NEW l \in Clusters \X CellIndex, NEW r, Filed(fat, disk, l, r),
         CellAt(disk, l).first \in Links, r.size \in Nat
  PROVE  Stored(Chain(CellAt(disk, l).first), r)
<1> DEFINE s == Chain(CellAt(disk, l).first)
<1>1. s \in Seq(Clusters) /\ Len(s) \in Nat
  BY ChainLen DEF FatInv, Chain
<1>2. \A k \in 1 .. r.size : k \in DOMAIN Walk(s) /\ CellAt(disk, Walk(s)[k]) = Text(r.text, k - 1)
  BY DEF Filed, Holds, Chain
<1> HIDE DEF s
<1>3. DOMAIN Walk(s) = 1 .. Len(s) * CellsPerCluster /\ Len(s) * CellsPerCluster \in Nat
  <2>1. DOMAIN Walk(s) = 1 .. Len(s) * CellsPerCluster
    BY <1>1, WalkCells
  <2>2. CellsPerCluster \in Nat /\ \A a, b \in Nat : a * b \in Nat
    BY Geometry
  <2> QED
    BY <2>1, <2>2, <1>1
<1>4. r.size <= Len(s) * CellsPerCluster
  <2> DEFINE t == Len(s) * CellsPerCluster  z == r.size
  <2>1. z \in Nat /\ t \in Nat /\ \A k \in 1 .. z : k \in 1 .. t
    BY <1>2, <1>3
  <2> HIDE DEF t, z
  <2>2. z = 0 \/ z \in 1 .. z
    BY <2>1
  <2>3. z <= t
    BY <2>1, <2>2
  <2> QED
    BY <2>3 DEF t, z
<1>5. \A k \in 1 .. r.size : At(Walk(s)[k]) = Text(r.text, k - 1)
  BY <1>2 DEF At, CellAt
<1>6. Stored(s, r)
  BY <1>1, <1>4, <1>5 DEF Stored
<1> QED
  BY <1>6 DEF s

LEMMA StoredRun ==
  ASSUME NEW s, NEW r, Stored(s, r), NEW o \in Nat, NEW n \in Nat, o + n <= r.size
  PROVE  Run(Walk(s), o, n) = SubSeq(Content(r), o + 1, o + n)
<1>1. /\ r.size \in Nat /\ \A k \in 1 .. r.size : At(Walk(s)[k]) = Text(r.text, k - 1)
  BY DEF Stored
<1>2. /\ Len(Content(r)) = r.size /\ Content(r) \in Seq({Text(r.text, k) : k \in Nat})
      /\ \A k \in 1 .. r.size : Content(r)[k] = Text(r.text, k - 1)
  BY <1>1, ContentFacts
<1>3. SubSeq(Content(r), o + 1, o + n) = [k \in 1 .. n |-> Content(r)[o + k]]
  BY <1>2, SubRun
<1>4. ASSUME NEW k \in 1 .. n PROVE At(Walk(s)[o + k]) = Content(r)[o + k]
  <2>1. o + k \in 1 .. r.size
    BY <1>1
  <2> QED
    BY <2>1, <1>1, <1>2
<1> QED
  BY <1>3, <1>4 DEF Run

LEMMA StoredLen ==
  ASSUME NEW s, NEW r, Stored(s, r)
  PROVE  Len(Walk(s)) = Len(s) * CellsPerCluster /\ Len(Walk(s)) \in Nat /\ r.size <= Len(Walk(s))
<1> DEFINE t == Len(s) * CellsPerCluster
<1>1. s \in Seq(Clusters) /\ r.size \in Nat /\ r.size <= t
  BY DEF Stored
<1>2. t \in Nat
  <2>1. Len(s) \in Nat /\ CellsPerCluster \in Nat /\ \A a, b \in Nat : a * b \in Nat
    BY <1>1, Geometry
  <2> QED
    BY <2>1
<1>3. Len(Walk(s)) = t
  BY <1>2 DEF Walk
<1> QED
  BY <1>1, <1>2, <1>3

LEMMA CatReads ==
  ASSUME NEW e, NEW r, e.size = r.size, Stored(Chain(e.first), r)
  PROVE  cat(e) = Content(r)
<1> DEFINE s == Chain(e.first)  w == Walk(s)
<1>1. /\ e.size \in Nat /\ Len(w) \in Nat /\ e.size <= Len(w)
      /\ \A k \in 1 .. r.size : At(w[k]) = Text(r.text, k - 1)
  BY StoredLen DEF Stored
<1>2. cat(e) = [k \in 1 .. Min({e.size, Len(w)}) |-> At(w[k])]
  BY DEF cat
<1> HIDE DEF w
<1>3. Min({e.size, Len(w)}) = e.size
  BY <1>1, MinPair
<1> QED
  BY <1>1, <1>2, <1>3 DEF Content

(* The sectors that read_file copies hold the file.                        *)
LEMMA SectorsEnough ==
  ASSUME NEW z \in Nat
  PROVE  LET n == Max({1, (z + EntriesPerSector - 1) \div EntriesPerSector})
         IN n \in Nat /\ n * EntriesPerSector \in Nat /\ z <= n * EntriesPerSector
<1> DEFINE E == EntriesPerSector  m == z + E - 1  q == m \div E  n == Max({1, q})
<1>1. E \in Nat \ {0} /\ m \in Nat
  BY Fat32Assumption
<1>2. q \in Nat /\ m % E \in Nat /\ m = E * q + (m % E) /\ m % E < E
  BY <1>1, DivMod
<1> HIDE DEF q
<1>3. n = IF 1 <= q THEN q ELSE 1
  BY <1>2, MaxPair
<1> HIDE DEF n, E
<1>4. n \in Nat /\ q <= n
  BY <1>2, <1>3
<1>5. E * q <= E * n /\ E * q \in Nat /\ E * n \in Nat /\ n * E = E * n
  BY <1>1, <1>2, <1>4, MulMono
<1> DEFINE x == E * q  y == E * n  t == m % E
<1>6. x <= y /\ x \in Nat /\ y \in Nat /\ m = x + t /\ t \in Nat /\ t < E
  BY <1>2, <1>5
<1>7. z = m - E + 1
  BY <1>1
<1> HIDE DEF x, y, m, t
<1>8. z <= y
  BY <1>1, <1>6, <1>7
<1> QED
  BY <1>4, <1>5, <1>8 DEF n, E, q, y, m

LEMMA FileReads ==
  ASSUME NEW e, NEW r, e.size = r.size, Stored(Chain(e.first), r)
  PROVE  SubSeq(read_file(e), 1, e.size) = Content(r)
<1> DEFINE s == Chain(e.first)  w == Walk(s)  z == e.size
<1> DEFINE n == Max({1, (z + EntriesPerSector - 1) \div EntriesPerSector})
<1> DEFINE t == Min({n * EntriesPerSector, Len(w)})  f == read_file(e)
<1>1. /\ z \in Nat /\ Len(w) \in Nat /\ z <= Len(w)
      /\ \A k \in 1 .. z : At(w[k]) = Text(r.text, k - 1)
  BY StoredLen DEF Stored
<1>2. f = [k \in 1 .. t |-> At(w[k])]
  BY DEF read_file
<1>3. n * EntriesPerSector \in Nat /\ z <= n * EntriesPerSector
  BY <1>1, SectorsEnough
<1>4. t \in Nat /\ z <= t
  <2> DEFINE a == n * EntriesPerSector  b == Len(w)
  <2>1. a \in Nat /\ b \in Nat /\ z <= a /\ z <= b
    BY <1>1, <1>3
  <2> HIDE DEF a, b, z, n, w
  <2>2. t = IF a <= b THEN a ELSE b
    BY <2>1, MinPair DEF a, b
  <2> QED
    BY <2>1, <2>2
<1> DEFINE T == {At(w[k]) : k \in Nat}
<1>5. f \in Seq(T) /\ Len(f) = t /\ \A k \in 1 .. t : f[k] = At(w[k])
  <2>1. \A k \in 1 .. t : At(w[k]) \in T
    BY <1>4
  <2> HIDE DEF T, t, w, f
  <2> QED
    BY <2>1, <1>2, <1>4
<1> HIDE DEF f, t, T, w, n
<1>6. SubSeq(f, 0 + 1, 0 + z) = [k \in 1 .. z |-> f[0 + k]]
  <2>1. 0 \in Nat /\ 0 + z <= Len(f)
    BY <1>1, <1>4, <1>5
  <2> HIDE DEF z
  <2> QED
    BY <2>1, <1>1, <1>5, SubRun
<1>7. ASSUME NEW k \in 1 .. z PROVE 0 + k = k /\ f[k] = Text(r.text, k - 1)
  BY <1>1, <1>4, <1>5
<1>8. 0 + 1 = 1 /\ 0 + z = z
  BY <1>1
<1>9. SubSeq(f, 1, z) = [k \in 1 .. z |-> Text(r.text, k - 1)]
  BY <1>6, <1>7, <1>8
<1> QED
  BY <1>9 DEF f, Content

ReadsPart(e, r, o, n) == vfs_read(e, o, n) = SubSeq(Content(r), o + 1, Min({o + n, e.size}))

LEMMA VfsReads ==
  ASSUME NEW e, NEW r, e.size = r.size, Stored(Chain(e.first), r),
         NEW o \in Nat, NEW n \in Nat, o + n < SizeMod
  PROVE  ReadsPart(e, r, o, n)
<1> DEFINE s == Chain(e.first)  z == e.size
<1>1. z \in Nat /\ s \in Seq(Clusters) /\ z <= Len(s) * CellsPerCluster /\ Len(s) * CellsPerCluster \in Nat
  BY StoredLen DEF Stored
<1>2. (o + n) % SizeMod = o + n
  <2>1. SizeMod \in Nat \ {0} /\ o + n \in Nat
    BY Fat32Assumption
  <2>2. o + n = SizeMod * 0 + (o + n)
    BY <2>1
  <2> QED
    BY <2>1, <2>2, DivUnique
<1>3. Min({o + n, z}) = IF o + n <= z THEN o + n ELSE z
  <2>1. o + n \in Nat
    OBVIOUS
  <2> QED
    BY <2>1, <1>1, MinPair
<1>4. CASE o >= z
  <2>1. vfs_read(e, o, n) = <<>>
    BY <1>4 DEF vfs_read
  <2>2. Min({o + n, z}) \in Int /\ Min({o + n, z}) < o + 1 /\ o + 1 \in Int
    BY <1>1, <1>3, <1>4
  <2>3. SubSeq(Content(r), o + 1, Min({o + n, z})) = <<>>
    BY <2>2, SubSeqEmpty
  <2> QED
    BY <2>1, <2>3 DEF ReadsPart
<1>5. CASE ~(o >= z)
  <2> DEFINE m == IF o + n > z THEN z - o ELSE n
  <2>1. vfs_read(e, o, n) = read_absolute(e.first, o, m)
    BY <1>2, <1>5 DEF vfs_read
  <2>2. m \in Nat /\ o + m <= z /\ o + m = Min({o + n, z})
    BY <1>1, <1>3, <1>5
  <2> HIDE DEF m
  <2>3. ReadsRun(e.first, o, m)
    <3> DEFINE t == Len(s) * CellsPerCluster
    <3>1. z \in Nat /\ t \in Nat /\ z <= t
      BY <1>1
    <3> HIDE DEF t, z
    <3>2. o < t /\ o + m <= t
      BY <3>1, <2>2, <1>5
    <3> QED
      BY <3>2, <2>2, <1>1, ReadAbsolute DEF t
  <2>4. Run(Walk(s), o, m) = SubSeq(Content(r), o + 1, o + m)
    BY <2>2, StoredRun
  <2> QED
    BY <2>1, <2>2, <2>3, <2>4 DEF ReadsRun, ReadsPart
<1> QED
  BY <1>4, <1>5

(* No sum of an offset and a size leaves the range of uint32_t.            *)
NoWrap == \A offset, size \in Reads : offset + size < SizeMod

LEMMA ReadsWritten ==
  ASSUME FatInv, FilesInv, NoWrap
  PROVE  ReadsBack
<1> SUFFICES ASSUME ~poisoned, NEW l \in DOMAIN written, ~(op.pc = "free" /\ op.loc = l)
             PROVE  LET e == At(l)
                        content == [k \in 1 .. e.size |-> Text(written[l].text, k - 1)]
                    IN /\ l \in Tree \/ (l[1] \in TornDirs(disk, torn) /\ e.size = 0)
                       /\ e.attr = "file" /\ e.size = written[l].size
                       /\ cat(e) = content
                       /\ SubSeq(read_file(e), 1, e.size) = content
                       /\ \A offset, size \in Reads :
                            vfs_read(e, offset, size)
                              = SubSeq(content, offset + 1, Min({offset + size, e.size}))
  BY Zenon DEF ReadsBack
<1> DEFINE e == At(l)  r == written[l]  X == Doom(disk, op, torn)
<1>1. PICK D \in SUBSET Clusters : Consistent(D) /\ Files(D)
  BY DEF FilesInv
<1>2. ~(Begun(disk, op) /\ l = op.loc)
  BY DEF Begun
<1>3. /\ l \in Clusters \X CellIndex /\ l \notin X /\ Filed(fat, disk, l, r)
      /\ InPlace(fat, disk, D, torn, l)
      /\ Vol(fat, disk, D, X, lost \cup Flying(fat, disk, op))
  BY <1>1, <1>2, FileState
<1>4. /\ CellAt(disk, l) \in Cell /\ Proper(CellAt(disk, l)) /\ CellAt(disk, l).attr = "file"
      /\ CellAt(disk, l).size = r.size /\ CellAt(disk, l).first \in Links
  <2> HIDE DEF r, X
  <2> QED
    BY <1>3, FiledLive
<1>5. e = CellAt(disk, l)
  BY DEF At, CellAt
<1>6. e.attr = "file" /\ e.size = r.size
  BY <1>4, <1>5
<1>7. r.size \in Nat
  <2>1. e \in Cell /\ e.tag = "entry"
    BY <1>4, <1>5 DEF Proper
  <2> HIDE DEF e, r
  <2>2. e.size \in Nat
    BY <2>1 DEF Cell, EntryCell
  <2> QED
    BY <2>2, <1>6
<1>8. Stored(Chain(e.first), r)
  <2> HIDE DEF r
  <2> QED
    BY <1>3, <1>4, <1>5, <1>7, FileStored
<1>9. l \in Tree \/ (l[1] \in TornDirs(disk, torn) /\ e.size = 0)
  <2>1. CASE l[1] \in D \cup Own(fat, Root)
    <3>1. l \in Placed(D)
      BY <2>1, <1>3, <1>4 DEF Placed, Live, Entries
    <3> QED
      BY <3>1, <1>1, PlacedInTree
  <2>2. CASE l[1] \notin D \cup Own(fat, Root)
    BY <2>2, <1>3, <1>5 DEF InPlace
  <2> QED
    BY <2>1, <2>2
<1>10. [k \in 1 .. e.size |-> Text(r.text, k - 1)] = Content(r)
  BY <1>6 DEF Content
<1>11. cat(e) = Content(r) /\ SubSeq(read_file(e), 1, e.size) = Content(r)
  <2> HIDE DEF e, r
  <2> QED
    BY <1>6, <1>8, CatReads, FileReads
<1>12. ASSUME NEW offset \in Reads, NEW size \in Reads
       PROVE  ReadsPart(e, r, offset, size)
  <2>1. offset \in Nat /\ size \in Nat /\ offset + size < SizeMod
    BY Fat32Assumption DEF NoWrap
  <2> HIDE DEF e, r
  <2> QED
    BY <2>1, <1>6, <1>8, VfsReads
<1> HIDE DEF e, r
<1> QED
  BY <1>6, <1>9, <1>10, <1>11, <1>12, Zenon DEF e, r, ReadsPart

(* What write_file recorded is what cat, read_file and vfs_read return,    *)
(* until it is removed and wherever the power fails, for reads whose       *)
(* offset plus size stays below 2^32, the range that fat32_vfs_read        *)
(* computes with.                                                          *)
THEOREM WhatIsWrittenIsRead ==
  ASSUME NoWrap
  PROVE  Spec => []ReadsBack
<1>1. FatInv /\ FilesInv => ReadsBack
  BY ReadsWritten
<1> QED
  BY <1>1, FilesAlways, PTL
-----------------------------------------------------------------------------
(* A directory has one subdirectory of a name, and leads up.               *)

LEMMA NeatFrame ==
  ASSUME NEW f, NEW g, NEW d, NEW e, NEW c \in Clusters, Linked(f), Own(g, c) = Own(f, c),
         \A b \in Own(f, c) : \A k \in CellIndex : e[b][k] = d[b][k], Neat(f, d, c)
  PROVE  Neat(g, e, c)
<1>1. c \in Own(f, c)
  BY OwnUnfold
<1>2. e[c][1] = d[c][1]
  BY <1>1, Geometry
<1>3. \A l \in Own(f, c) \X CellIndex : CellAt(e, l) = CellAt(d, l)
  BY DEF CellAt
<1> QED
  BY <1>2, <1>3 DEF Neat

(* An entry is written that is not a directory, or has a new name.         *)
LEMMA NeatPut ==
  ASSUME NEW f, NEW d, NEW c \in Clusters, Linked(f), IsDisk(d), Neat(f, d, c),
         NEW l \in Clusters \X CellIndex, NEW x \in Cell,
         l[1] \in Own(f, c) =>
           /\ ~IsDots(CellAt(d, l))
           /\ IsDir(x) => \A m \in Own(f, c) \X CellIndex : ~Named(CellAt(d, m), x.name)
  PROVE  Neat(f, Put(d, l, x), c)
<1> DEFINE e == Put(d, l, x)
<1>1. Own(f, c) \subseteq Clusters /\ c \in Own(f, c)
  BY OwnUnfold, ClusterFacts
<1>2. /\ CellAt(e, l) = x
      /\ \A m \in Clusters \X CellIndex : m # l => CellAt(e, m) = CellAt(d, m)
      /\ \A b \in Clusters, k \in CellIndex : <<b, k>> # l => e[b][k] = d[b][k]
  BY PutFacts
<1> HIDE DEF e
<1>3. ASSUME NEW a \in Own(f, c) \X CellIndex, NEW b \in Own(f, c) \X CellIndex,
             IsDir(CellAt(e, a)), IsDir(CellAt(e, b)), CellAt(e, a).name = CellAt(e, b).name
      PROVE  a = b
  <2>1. a \in Clusters \X CellIndex /\ b \in Clusters \X CellIndex /\ a[1] \in Own(f, c) /\ b[1] \in Own(f, c)
    BY <1>1
  <2>2. CASE a # l /\ b # l
    <3>1. CellAt(e, a) = CellAt(d, a) /\ CellAt(e, b) = CellAt(d, b)
      BY <2>1, <2>2, <1>2
    <3> QED
      BY <3>1, <1>3 DEF Neat
  <2>3. CASE a = l /\ b # l
    <3>1. CellAt(e, a) = x /\ CellAt(e, b) = CellAt(d, b)
      BY <2>1, <2>3, <1>2
    <3>2. IsDir(x) /\ Named(CellAt(d, b), x.name)
      BY <3>1, <1>3 DEF IsDir, Named
    <3> QED
      BY <3>2, <2>1, <2>3
  <2>4. CASE a # l /\ b = l
    <3>1. CellAt(e, b) = x /\ CellAt(e, a) = CellAt(d, a)
      BY <2>1, <2>4, <1>2
    <3>2. IsDir(x) /\ Named(CellAt(d, a), x.name)
      BY <3>1, <1>3 DEF IsDir, Named
    <3> QED
      BY <3>2, <2>1, <2>4
  <2> QED
    BY <2>2, <2>3, <2>4
<1>4. c # Root => Named(e[c][1], DotDot) /\ RootIfZero(e[c][1].first) # c
  <2> SUFFICES ASSUME c # Root PROVE Named(e[c][1], DotDot) /\ RootIfZero(e[c][1].first) # c
    OBVIOUS
  <2>1. Named(d[c][1], DotDot) /\ RootIfZero(d[c][1].first) # c
    BY DEF Neat
  <2>2. <<c, 1>> # l
    <3> SUFFICES ASSUME <<c, 1>> = l PROVE FALSE
      OBVIOUS
    <3>1. l[1] = c /\ CellAt(d, l) = d[c][1]
      BY DEF CellAt
    <3>2. IsDots(d[c][1])
      BY <2>1 DEF Named, IsDots
    <3> QED
      BY <3>1, <3>2, <1>1
  <2>3. e[c][1] = d[c][1]
    BY <2>2, <1>2, Geometry
  <2> QED
    BY <2>1, <2>3
<1>5. Neat(f, e, c)
  BY <1>3, <1>4 DEF Neat
<1> QED
  BY <1>5 DEF e

LEMMA DotsDiffer == Dot # DotDot
<1>1. Dot[1] = "." /\ DotDot[1] = ".."
  BY DEF Dot, DotDot
<1>2. "." # ".."
  BY Zenon
<1> QED
  BY <1>1, <1>2, Zenon

(* The directory that mkdir has initialised.                               *)
LEMMA FreshNeat ==
  ASSUME FatInv, NEW D, Consistent(D), op.pc = "slot"
  PROVE  Neat(fat, disk, op.cur)
<1> DEFINE c == op.cur  z == IF cwd = Root THEN 0 ELSE cwd
<1>1. c \in Clusters /\ cwd \in D /\ c \notin D /\ cwd \in Clusters /\ Initialised(disk, cwd, op)
  BY MkdirState
<1>2. Own(fat, c) = {c}
  BY FreshTidy
<1>3. \A k \in CellIndex : disk[c][k] = Dots(c, cwd)[k]
  BY <1>1 DEF Initialised
<1> HIDE DEF c
<1>4. \A k \in CellIndex : Dots(c, cwd)[k] = CASE k = 0 -> Entry(Dot, "dir", c, 0)
                                              [] k = 1 -> Entry(DotDot, "dir", z, 0)
                                              [] OTHER -> Zero
  BY DEF Dots
<1>5. RootIfZero(z) = cwd /\ cwd # c
  <2>1. cwd # 0
    BY <1>1, ClusterFacts
  <2> QED
    BY <2>1, <1>1 DEF RootIfZero
<1> HIDE DEF z
<1>6. /\ Named(Entry(DotDot, "dir", z, 0), DotDot) /\ Entry(DotDot, "dir", z, 0).first = z
      /\ Entry(DotDot, "dir", z, 0).name = DotDot /\ Entry(Dot, "dir", c, 0).name = Dot
      /\ ~IsDir(Zero)
  BY DEF Entry, Named, Zero, IsDir
<1>7. disk[c][1] = Entry(DotDot, "dir", z, 0)
  BY <1>3, <1>4, Geometry
<1>8. ASSUME NEW a \in Own(fat, c) \X CellIndex, NEW b \in Own(fat, c) \X CellIndex,
             IsDir(CellAt(disk, a)), IsDir(CellAt(disk, b)), CellAt(disk, a).name = CellAt(disk, b).name
      PROVE  a = b
  <2>1. a = <<c, a[2]>> /\ b = <<c, b[2]>> /\ a[2] \in CellIndex /\ b[2] \in CellIndex
    BY <1>2
  <2>2. CellAt(disk, a) = Dots(c, cwd)[a[2]] /\ CellAt(disk, b) = Dots(c, cwd)[b[2]]
    BY <2>1, <1>3 DEF CellAt
  <2>3. \A k \in CellIndex : IsDir(Dots(c, cwd)[k]) => k \in {0, 1} /\ Dots(c, cwd)[k].name = IF k = 0 THEN Dot ELSE DotDot
    <3> SUFFICES ASSUME NEW k \in CellIndex, IsDir(Dots(c, cwd)[k])
                 PROVE  k \in {0, 1} /\ Dots(c, cwd)[k].name = IF k = 0 THEN Dot ELSE DotDot
      OBVIOUS
    <3> DEFINE u == Entry(Dot, "dir", c, 0)  v == Entry(DotDot, "dir", z, 0)
    <3>1. Dots(c, cwd)[k] = CASE k = 0 -> u [] k = 1 -> v [] OTHER -> Zero
      BY <1>4
    <3>2. u.name = Dot /\ v.name = DotDot
      BY <1>6
    <3> HIDE DEF u, v
    <3> QED
      BY <3>1, <3>2, <1>6
  <2>4. a[2] = b[2]
    <3> DEFINE i == a[2]  j == b[2]
    <3>1. i \in {0, 1} /\ Dots(c, cwd)[i].name = IF i = 0 THEN Dot ELSE DotDot
      BY <2>1, <2>2, <2>3, <1>8
    <3>2. j \in {0, 1} /\ Dots(c, cwd)[j].name = IF j = 0 THEN Dot ELSE DotDot
      BY <2>1, <2>2, <2>3, <1>8
    <3>3. Dots(c, cwd)[i].name = Dots(c, cwd)[j].name
      BY <2>2, <1>8
    <3> HIDE DEF i, j
    <3>4. i = j
      BY <3>1, <3>2, <3>3, DotsDiffer
    <3> QED
      BY <3>4 DEF i, j
  <2> QED
    BY <2>1, <2>4
<1>9. Neat(fat, disk, c)
  BY <1>5, <1>6, <1>7, <1>8 DEF Neat
<1> QED
  BY <1>9 DEF c

LEMMA NeatWriteEntry ==
  ASSUME FatInv, FatInv', WriteEntry, NEW D, Consistent(D), NEW c \in D, Neat(fat, disk, c)
  PROVE  Neat(fat', disk', c)
<1> DEFINE l == free_slot(Chain(cwd))
<1>1. CASE l = NoLoc
  BY <1>1 DEF WriteEntry, WriteFails
<1>2. CASE l # NoLoc
  <2> DEFINE x == Entry(op.name, "file", op.first, op.size)
  <2>1. op.pc = "alloc" /\ fat' = fat /\ disk' = Put(disk, l, x)
    BY <1>2 DEF WriteEntry, put_entry, Put
  <2>2. op \in WriteOp /\ op.size \in Nat
    BY <2>1, WriteState
  <2>3. x \in Cell /\ ~IsDir(x)
    <3>1. op.name \in FileNames /\ op.first \in Clusters \cup {0}
      BY <2>2 DEF WriteOp
    <3> QED
      BY <3>1, <2>2, FileEntry
  <2>4. Linked(fat) /\ IsDisk(disk) /\ cwd \in Clusters /\ c \in Clusters
    BY DirClusters DEF FatInv, Typed
  <2>5. Chain(cwd) \in Seq(Clusters) /\ Range(Chain(cwd)) = Own(fat, cwd)
    BY <2>4, ChainLen, ClusterFacts DEF Chain, Own
  <2>6. l \in Own(fat, cwd) \X CellIndex /\ IsFree(CellAt(disk, l))
    BY <1>2, <2>5, FreeSlot DEF At, CellAt
  <2> HIDE DEF l, x
  <2>7. l \in Clusters \X CellIndex
    BY <2>4, <2>6, OwnUnfold, ClusterFacts
  <2>8. ~IsDots(CellAt(disk, l))
    BY <2>6 DEF IsFree, IsDots
  <2> QED
    BY <2>1, <2>3, <2>4, <2>7, <2>8, NeatPut
<1> QED
  BY <1>1, <1>2

LEMMA NeatRemoveEntry ==
  ASSUME FatInv, FatInv', RemoveEntry, NEW D, Consistent(D), NEW c \in D, Neat(fat, disk, c)
  PROVE  Neat(fat', disk', c)
<1> DEFINE l == op.loc
<1>1. op.pc = "free" /\ fat' = fat /\ disk' = Put(disk, l, Gone)
  BY DEF RemoveEntry, put_entry, Put
<1>2. /\ c \in Clusters /\ Linked(fat) /\ IsDisk(disk) /\ op \in RemoveOp
      /\ Own(fat, c) \subseteq D \cup Own(fat, Root)
      /\ Vol(fat, disk, D, Doom(disk, op, torn), lost \cup Flying(fat, disk, op))
  BY <1>1, DirClusters, OpKinds DEF FatInv, Typed
<1>3. l \in Clusters \X CellIndex
  BY <1>2 DEF RemoveOp
<1>4. Gone \in Cell /\ ~IsDir(Gone)
  BY CellTags DEF Gone, IsDir
<1>5. ASSUME l[1] \in Own(fat, c) PROVE ~IsDots(CellAt(disk, l))
  <2>1. Victim(fat, disk, cwd, op, torn, D)
    BY DEF Consistent, Good
  <2>2. CASE l \in Live(fat, disk, D, torn)
    BY <2>2 DEF Live, Entries, Proper
  <2>3. CASE l \in Doom(disk, op, torn)
    BY <2>3, <1>2, TornFacts DEF Entries, Proper
  <2>4. CASE l[1] \in TornDirs(disk, torn)
    <3>1. TornDirs(disk, torn) \subseteq TornDirs(disk, Doom(disk, op, torn))
      BY DEF TornDirs, Doom
    <3> QED
      BY <3>1, <2>4, <1>2, <1>5, TornDirFacts
  <2> QED
    BY <2>1, <2>2, <2>3, <2>4, <1>1 DEF Victim
<1> HIDE DEF l
<1> QED
  BY <1>1, <1>2, <1>3, <1>4, <1>5, NeatPut

(* The name that mkdir is about to enter is new in its directory.          *)
Unused(f, d, w, o) ==
  o.pc \in {"init", "slot"} =>
    \A l \in Own(f, w) \X CellIndex : ~Named(CellAt(d, l), o.name)

LEMMA NeatMkdirEntry ==
  ASSUME FatInv, FatInv', MkdirEntry, NEW D, Consistent(D), Unused(fat, disk, cwd, op),
         NEW c, c \in D \/ c = op.cur, Neat(fat, disk, c)
  PROVE  Neat(fat', disk', c)
<1> DEFINE l == free_slot(<<cwd>>)
<1> DEFINE x == Entry(op.name, "dir", op.cur, 0)
<1>1. op.pc = "slot" /\ l # NoLoc /\ fat' = fat /\ disk' = Put(disk, l, x)
  BY DEF MkdirEntry, put_entry, Put
<1>2. /\ op \in MkdirOp /\ op.cur \in Clusters /\ cwd \in D /\ cwd \in Clusters /\ IsDisk(disk)
      /\ op.cur \notin D /\ Own(fat, op.cur) = {op.cur} /\ Linked(fat)
  BY <1>1, MkdirState, FreshTidy DEF FatInv
<1>3. x \in Cell /\ x.name = op.name
  <2>1. op.name \in DirNames /\ op.cur \in Clusters \cup {0}
    BY <1>2 DEF MkdirOp
  <2> QED
    BY <2>1, DirEntry DEF Entry
<1>4. <<cwd>> \in Seq(Clusters) /\ Range(<<cwd>>) = {cwd}
  BY <1>2 DEF Range
<1>5. l \in {cwd} \X CellIndex /\ IsFree(CellAt(disk, l))
  BY <1>1, <1>4, FreeSlot DEF At, CellAt
<1> HIDE DEF l, x
<1>6. l \in Clusters \X CellIndex /\ c \in Clusters /\ l[1] = cwd
  BY <1>2, <1>5, DirClusters
<1>7. ~IsDots(CellAt(disk, l))
  BY <1>5 DEF IsFree, IsDots
<1>8. ASSUME l[1] \in Own(fat, c)
      PROVE  \A m \in Own(fat, c) \X CellIndex : ~Named(CellAt(disk, m), x.name)
  <2>1. cwd \in Own(fat, cwd)
    BY <1>2, OwnUnfold
  <2>2. c = cwd
    BY <2>1, <1>2, <1>6, <1>8, DirClusters
  <2> QED
    BY <2>2, <1>1, <1>3 DEF Unused
<1> QED
  BY <1>1, <1>2, <1>3, <1>6, <1>7, <1>8, NeatPut

(* Every step leaves the directories neat.                                 *)
LEMMA NeatStep ==
  ASSUME FatInv, FatInv', Next, NEW D, Consistent(D), \A c \in D : Neat(fat, disk, c),
         Unused(fat, disk, cwd, op),
         NEW E, Consistent(E)', NEW c \in E, c \in D \/ (op.pc = "slot" /\ c = op.cur)
  PROVE  Neat(fat', disk', c)
<1>1. Neat(fat, disk, c)
  BY FreshNeat
<1>2. CASE Unmoved(c)
  <2>1. Linked(fat) /\ c \in Clusters
    <3>1. op.pc = "slot" => op.cur \in Clusters
      BY MkdirState DEF FatInv
    <3> QED
      BY <3>1, DirClusters DEF FatInv
  <2>2. Own(fat', c) = Own(fat, c)
    BY <1>2 DEF Unmoved, Own
  <2> QED
    BY <2>1, <2>2, <1>1, <1>2, NeatFrame DEF Unmoved
<1> QED
  BY <1>1, <1>2, DirStep, NeatWriteEntry, NeatMkdirEntry, NeatRemoveEntry

(* A name that is not found is in no cell of the directory.                *)
LEMMA NotFoundUnused ==
  ASSUME FatInv, NEW c \in Clusters, Tidy(fat, disk, c), NEW n, find_file(c, n) = NoLoc
  PROVE  \A l \in Own(fat, c) \X CellIndex : ~Named(CellAt(disk, l), n)
<1> DEFINE w == Walk(Chain(c))
<1> DEFINE Hit(k) == Named(At(w[k]), n) /\ \A j \in 1 .. k - 1 : At(w[j]) # Zero
<1> DEFINE hits == {k \in DOMAIN w : Hit(k)}
<1>1. find_file(c, n) = IF hits = {} THEN NoLoc ELSE w[Min(hits)]
  BY Zenon DEF find_file, FirstWhere
<1>2. /\ \E m \in Nat : DOMAIN w = 1 .. m
      /\ \A k \in DOMAIN w : w[k] \in Own(fat, c) \X CellIndex
      /\ \A l \in Own(fat, c) \X CellIndex : \E k \in DOMAIN w : w[k] = l
  BY DirWalk DEF FatInv, Chain
<1>3. \A k \in DOMAIN w : \A j \in 1 .. k - 1 : At(w[j]) = Zero => At(w[k]) = Zero
  BY DEF Tidy, Chain, At, CellAt
<1>4. 0 \notin Clusters /\ Own(fat, c) \subseteq Clusters
  BY OwnUnfold, ClusterFacts DEF FatInv
<1> HIDE DEF w
<1>5. hits = {}
  <2> SUFFICES ASSUME hits # {} PROVE FALSE
    OBVIOUS
  <2>1. hits \in SUBSET Nat
    BY <1>2
  <2>2. Min(hits) \in hits
    BY <2>1, MinNat
  <2>3. w[Min(hits)] # NoLoc
    BY <2>2, <1>2, <1>4 DEF NoLoc
  <2> QED
    BY <2>3, <1>1
<1>6. ASSUME NEW k \in DOMAIN w, Named(At(w[k]), n) PROVE FALSE
  <2>1. At(w[k]) # Zero
    BY <1>6 DEF Named, Zero
  <2>2. Hit(k)
    BY <2>1, <1>3, <1>6
  <2> QED
    BY <2>2, <1>5
<1> QED
  BY <1>2, <1>6 DEF At, CellAt

(* mkdir looks for the name before it begins, and writes elsewhere until   *)
(* the entry.                                                              *)
LEMMA UnusedStep ==
  ASSUME FatInv, FatInv', Next, ~UNCHANGED vars, NEW D, Consistent(D),
         \A c \in D : Tidy(fat, disk, c), Unused(fat, disk, cwd, op),
         NEW E, Consistent(E)', \A c \in E : c \in D \/ (op.pc = "slot" /\ c = op.cur)
  PROVE  Unused(fat', disk', cwd', op')
<1>1. CASE op'.pc \notin {"init", "slot"}
  BY <1>1 DEF Unused
<1>2. CASE \E n \in DirNames : create_directory(n)
  <2>1. PICK n \in DirNames : create_directory(n)
    BY <1>2
  <2> DEFINE o == [pc |-> "init", name |-> n, cur |-> find_free_cluster, s |-> 0]
  <2>2. /\ op = Idle /\ find_file(cwd, n) = NoLoc /\ op' = o /\ disk' = disk /\ cwd' = cwd
    BY <2>1 DEF create_directory, Begin
  <2>3. op'.pc = "init" /\ op'.name = n /\ op.pc # "slot"
    BY <2>2, IdleFacts
  <2>4. cwd \in E
    <3>1. /\ op'.pc \in {"init", "slot"} /\ Good(fat', disk', cwd', op', torn', lost', E)
      BY <2>3 DEF Consistent
    <3>2. Allocated(op') /\ op' \in MkdirOp
      BY <2>3, OpKinds DEF Allocated, FatInv, Typed
    <3>3. cwd' \in E
      BY <3>1, <3>2, GoodMkdir
    <3> QED
      BY <3>3, <2>2
  <2>5. cwd \in D
    BY <2>3, <2>4
  <2>6. Unmoved(cwd) /\ cwd \in Clusters
    BY <2>1, <2>5, UnmovedMkdir, DirClusters
  <2>7. \A l \in Own(fat, cwd) \X CellIndex : ~Named(CellAt(disk, l), n)
    BY <2>2, <2>5, <2>6, NotFoundUnused
  <2>8. Own(fat', cwd') = Own(fat, cwd)
    BY <2>2, <2>6 DEF Unmoved, Own
  <2> QED
    BY <2>2, <2>3, <2>7, <2>8 DEF Unused
<1>3. CASE MkdirInit
  <2>1. op.pc = "init" /\ fat' = fat /\ cwd' = cwd /\ op'.name = op.name
    <3>1. /\ op.pc = "init" /\ fat' = fat /\ cwd' = cwd
          /\ op' = [op EXCEPT !.s = @ + 1] \/ op' = [op EXCEPT !.pc = "slot"]
          /\ op \in MkdirOp
      BY <1>3, OpKinds DEF MkdirInit, Continue, FatInv, Typed
    <3> QED
      BY <3>1 DEF MkdirOp
  <2>2. cwd \in D
    BY <2>1, MkdirState
  <2>3. Unmoved(cwd)
    BY <2>2, <1>3, UnmovedMkdirInit
  <2>4. \A l \in Own(fat, cwd) \X CellIndex : CellAt(disk', l) = CellAt(disk, l)
    BY <2>3 DEF Unmoved, CellAt
  <2> QED
    BY <2>1, <2>4 DEF Unused
<1>4. CASE ~MkdirInit /\ ~\E n \in DirNames : create_directory(n)
  <2>0. Idle.pc = "idle"
    BY IdleFacts
  <2>1. CASE Crash
    BY <2>0, <2>1, <1>1 DEF Crash
  <2>2. CASE Command
    <3>1. ASSUME NEW n \in FileNames, NEW t \in Texts, NEW z \in Sizes, write_file(n, t, z)
          PROVE  op'.pc \notin {"init", "slot"}
      BY <3>1 DEF write_file, Begin
    <3>2. ASSUME NEW n, BeginRemoval(find_file(cwd, n)) PROVE op'.pc \notin {"init", "slot"}
      BY <3>2 DEF BeginRemoval, Begin
    <3>3. ASSUME NEW p \in Paths, cd(p) PROVE op'.pc \notin {"init", "slot"}
      BY <3>3, <2>0 DEF cd, Begin
    <3>4. \/ \E n \in FileNames, t \in Texts, z \in Sizes : write_file(n, t, z)
          \/ \E n \in FileNames : BeginRemoval(find_file(cwd, n))
          \/ \E n \in RmdirNames : BeginRemoval(find_file(cwd, n))
          \/ \E p \in Paths : cd(p)
      BY <1>4, <2>2 DEF Command, delete_file, rmdir, Look
    <3> QED
      BY <3>1, <3>2, <3>3, <3>4, <1>1
  <2>3. CASE Step
    <3>1. CASE op.pc \in {"alloc", "mark", "data"}
      <4>1. op \in WriteOp
        BY <3>1, OpKinds DEF FatInv, Typed
      <4>2. op'.pc \notin {"init", "slot"}
        <5>1. CASE WriteFirst \/ WriteLink
          BY <5>1, <4>1, <2>0 DEF WriteFirst, WriteLink, WriteFails, Continue, WriteOp
        <5>2. CASE WriteMark \/ WriteData
          BY <5>2, <4>1, <2>0 DEF WriteMark, WriteData, Continue, WriteOp
        <5>3. CASE WriteEntry
          BY <5>3, <4>1, <2>0 DEF WriteEntry, WriteFails, Continue, WriteOp
        <5> QED
          BY <5>1, <5>2, <5>3, <3>1, <2>3 DEF Step, MkdirInit, MkdirEntry, MkdirSpin, Spinning,
             RemoveCluster, RemoveEntry
      <4> QED
        BY <4>2, <1>1
    <3>2. CASE MkdirEntry
      BY <3>2, <2>0, <1>1 DEF MkdirEntry, Continue
    <3>3. CASE RemoveCluster \/ RemoveEntry
      <4>1. op \in RemoveOp
        BY <3>3, OpKinds DEF FatInv, Typed, RemoveCluster, RemoveEntry
      <4>2. op'.pc \notin {"init", "slot"}
        BY <3>3, <4>1, <2>0 DEF RemoveCluster, RemoveEntry, Continue, RemoveOp
      <4> QED
        BY <4>2, <1>1
    <3> QED
      BY <3>1, <3>2, <3>3, <2>3, <1>4 DEF Step, MkdirSpin, WriteFirst, WriteLink, WriteMark, WriteData, WriteEntry
  <2> QED
    BY <2>1, <2>2, <2>3 DEF Next
<1> QED
  BY <1>2, <1>3, <1>4

PathInv ==
  ~poisoned => \E D \in SUBSET Clusters : /\ Consistent(D)
                                          /\ \A c \in D : Tidy(fat, disk, c) /\ Neat(fat, disk, c)
                                          /\ Unused(fat, disk, cwd, op)

LEMMA PathInit == Init => PathInv
<1> SUFFICES ASSUME Init PROVE PathInv
  OBVIOUS
<1>1. PICK im \in Images : fat = im.fat /\ disk = im.disk
  BY DEF Init
<1>2. cwd = Root /\ op = Idle /\ torn = {} /\ lost = {}
  BY DEF Init
<1>3. Linked(fat) /\ IsDisk(disk)
  BY FatInit DEF FatInv, Typed
<1>4. PICK D \in SUBSET Clusters :
        Sound(fat, disk, D, {}, {}) /\ \A c \in D : Tidy(fat, disk, c) /\ Neat(fat, disk, c)
  BY <1>1, ImagesAssumption
<1>5. Vol(fat, disk, D, {}, {})
  BY <1>3, <1>4 DEF Vol
<1>6. Root \in D
  BY <1>5, DirFacts
<1>7. Good(fat, disk, Root, Idle, {}, {}, D)
  BY <1>5, <1>6, GoodIdle
<1>8. Unused(fat, disk, cwd, op)
  BY <1>2, IdleFacts DEF Unused
<1> QED
  BY <1>2, <1>4, <1>7, <1>8 DEF PathInv, Consistent

LEMMA PathNext == FatInv /\ FatInv' /\ PathInv /\ [Next]_vars => PathInv'
<1> SUFFICES ASSUME FatInv, FatInv', PathInv, [Next]_vars PROVE PathInv'
  OBVIOUS
<1>1. CASE UNCHANGED vars
  BY <1>1 DEF PathInv, Consistent, vars, ghosts
<1>2. CASE poisoned'
  BY <1>2 DEF PathInv
<1>3. CASE ~UNCHANGED vars /\ ~poisoned'
  <2>1. ~poisoned
    BY <1>3, StaysPoisoned
  <2>2. PICK D \in SUBSET Clusters : /\ Consistent(D)
                                     /\ \A c \in D : Tidy(fat, disk, c) /\ Neat(fat, disk, c)
                                     /\ Unused(fat, disk, cwd, op)
    BY <2>1 DEF PathInv
  <2>3. PICK E : Consistent(E)' /\ \A c \in E : c \in D \/ (op.pc = "slot" /\ c = op.cur)
    BY <2>2, <1>3, VolStep DEF Carried
  <2>4. E \in SUBSET Clusters
    <3>1. Good(fat', disk', cwd', op', torn', lost', E)
      BY <2>3 DEF Consistent
    <3> QED
      BY <3>1, DirFacts DEF Good
  <2>5. \A c \in E : Tidy(fat', disk', c)
    BY <2>2, <2>3, <1>3, TidyStep
  <2>6. \A c \in E : Neat(fat', disk', c)
    BY <2>2, <2>3, <1>3, NeatStep
  <2>7. Unused(fat', disk', cwd', op')
    BY <2>2, <2>3, <1>3, UnusedStep
  <2> QED
    BY <2>3, <2>4, <2>5, <2>6, <2>7 DEF PathInv
<1> QED
  BY <1>1, <1>2, <1>3

LEMMA PathAlways == Spec => [](FatInv /\ PathInv)
<1>1. Init => FatInv /\ PathInv
  BY FatInit, PathInit
<1>2. FatInv /\ PathInv /\ [Next]_vars => (FatInv /\ PathInv)'
  BY FatNext, PathNext
<1> QED
  BY <1>1, <1>2, PTL DEF Spec

-----------------------------------------------------------------------------
(* The way up from a directory and the way down to it.                     *)

(* Where the second cell of a directory leads.                             *)
Up(c) == RootIfZero(disk[c][1].first)

(* The directory c is entered at l.                                        *)
Home(D, c, l) == /\ l \in Placed(D) /\ l \in Clusters \X CellIndex
                 /\ Proper(CellAt(disk, l)) /\ IsDir(CellAt(disk, l)) /\ CellAt(disk, l).first = c

LEMMA HomeOnce ==
  ASSUME FatInv, NEW D, Consistent(D), NEW c \in Clusters, NEW l, NEW m, Home(D, c, l), Home(D, c, m)
  PROVE  l = m
<1>1. Vol(fat, disk, D, Doom(disk, op, torn), lost \cup Flying(fat, disk, op))
  BY DEF Consistent, Good
<1>2. c \in Own(fat, c)
  BY OwnUnfold DEF FatInv
<1>3. l # m => Own(fat, CellAt(disk, l).first) \cap Own(fat, CellAt(disk, m).first) = {}
  BY <1>1, LiveFacts DEF Home, Placed
<1> QED
  BY <1>2, <1>3 DEF Home

LEMMA Parents ==
  ASSUME FatInv, NEW D, Consistent(D), \A c \in D : Neat(fat, disk, c)
  PROVE  \A c \in D \ {Root} :
           /\ Named(disk[c][1], DotDot) /\ Up(c) \in D /\ Up(c) # c
           /\ Up(c) # Root => Up(Up(c)) # c
           /\ \A k \in CellIndex : IsDots(disk[c][k]) => RootIfZero(disk[c][k].first) \in {c, Up(c)}
           /\ \E l \in Own(fat, Up(c)) \X CellIndex : Home(D, c, l)
<1> DEFINE C == D \ {Root}
<1> DEFINE X == Doom(disk, op, torn)
<1> DEFINE G == lost \cup Flying(fat, disk, op)
<1>1. Vol(fat, disk, D, X, G)
  BY DEF Consistent, Good
<1> HIDE DEF X, G
<1>2. PICK up \in [C -> D] :
        /\ Ranked(up, C)
        /\ \A c \in C :
             /\ \E loc \in Entries(fat, disk, D) \ X :
                  IsDir(CellAt(disk, loc)) /\ CellAt(disk, loc).first = c /\ loc[1] \in Own(fat, up[c])
             /\ \A k \in CellIndex : IsDots(disk[c][k]) => RootIfZero(disk[c][k].first) \in {c, up[c]}
  BY <1>1 DEF Vol, Sound, TreeSound
<1>3. IsFiniteSet(C) /\ Cardinality(C) \in Nat
  <2>1. C \in SUBSET Clusters /\ IsFiniteSet(Clusters)
    BY <1>1, DirFacts, ClusterFacts
  <2> QED
    BY <2>1, FS_Subset, FS_CardinalityType
<1>4. PICK r \in [C -> 0 .. Cardinality(C) - 1] : \A c \in C : up[c] \in C => r[up[c]] < r[c]
  BY <1>2, Zenon DEF Ranked
<1>5. ASSUME NEW c \in C PROVE Named(disk[c][1], DotDot) /\ Up(c) = up[c] /\ up[c] # c
  <2>1. Named(disk[c][1], DotDot) /\ Up(c) # c
    BY DEF Neat, Up
  <2>2. IsDots(disk[c][1])
    BY <2>1 DEF Named, IsDots
  <2>3. Up(c) \in {c, up[c]}
    BY <2>2, <1>2, Geometry DEF Up
  <2> QED
    BY <2>1, <2>3
<1>6. ASSUME NEW c \in C, up[c] # Root PROVE up[up[c]] # c
  <2>1. up[c] \in C /\ r[up[c]] < r[c] /\ r[c] \in Int /\ r[up[c]] \in Int
    BY <1>2, <1>3, <1>4, <1>6
  <2>2. up[up[c]] = c => r[c] < r[up[c]]
    BY <2>1, <1>4
  <2> QED
    BY <2>1, <2>2
<1>7. ASSUME NEW c \in C PROVE \E l \in Own(fat, up[c]) \X CellIndex : Home(D, c, l)
  <2>1. PICK l \in Entries(fat, disk, D) \ X :
          IsDir(CellAt(disk, l)) /\ CellAt(disk, l).first = c /\ l[1] \in Own(fat, up[c])
    BY <1>2
  <2>2. l \in Clusters \X CellIndex /\ Proper(CellAt(disk, l))
    BY <2>1, <1>1, EntryCells
  <2>3. l \in Placed(D)
    BY <2>1 DEF Placed, Live, X
  <2>4. l \in Own(fat, up[c]) \X CellIndex
    BY <2>1, <2>2
  <2> QED
    BY <2>1, <2>2, <2>3, <2>4 DEF Home
<1>8. ASSUME NEW c \in C
      PROVE  /\ Named(disk[c][1], DotDot) /\ Up(c) \in D /\ Up(c) # c
             /\ Up(c) # Root => Up(Up(c)) # c
             /\ \A k \in CellIndex : IsDots(disk[c][k]) => RootIfZero(disk[c][k].first) \in {c, Up(c)}
             /\ \E l \in Own(fat, Up(c)) \X CellIndex : Home(D, c, l)
  <2>1. Named(disk[c][1], DotDot) /\ Up(c) = up[c] /\ up[c] # c /\ up[c] \in D
    BY <1>2, <1>5
  <2>2. up[c] # Root => Up(up[c]) = up[up[c]]
    BY <2>1, <1>5
  <2>3. up[c] # Root => up[up[c]] # c
    BY <1>6
  <2>4. \A k \in CellIndex : IsDots(disk[c][k]) => RootIfZero(disk[c][k].first) \in {c, up[c]}
    BY <1>2
  <2>5. \E l \in Own(fat, up[c]) \X CellIndex : Home(D, c, l)
    BY <1>7
  <2> QED
    BY <2>1, <2>2, <2>3, <2>4, <2>5
<1> QED
  BY <1>8

(* The cluster that find_dirname_in_parent compares, in directory u.       *)
Compared(u, x) == IF x.first = 0 /\ u = Root THEN Root ELSE x.first

(* In its parent and in the root, the number of a directory is found at    *)
(* its entry only.                                                         *)
LEMMA OnlyHome ==
  ASSUME FatInv, NEW D, Consistent(D), \A b \in D : Neat(fat, disk, b), NEW c \in D \ {Root},
         NEW u \in {Up(c), Root}, NEW l \in Own(fat, u) \X CellIndex,
         IsDir(CellAt(disk, l)), Compared(u, CellAt(disk, l)) = c
  PROVE  Home(D, c, l)
<1> DEFINE X == Doom(disk, op, torn)
<1> DEFINE x == CellAt(disk, l)
<1>1. Vol(fat, disk, D, X, lost \cup Flying(fat, disk, op))
  BY DEF Consistent, Good
<1>2. /\ Root \in D /\ D \subseteq Clusters /\ Own(fat, Root) \subseteq Clusters
      /\ \A b \in D \ {Root} : Own(fat, b) = {b}
  BY <1>1, DirFacts
<1>3. u \in D /\ Own(fat, u) \subseteq D \cup Own(fat, Root)
  BY <1>2, Parents
<1>4. l \in Clusters \X CellIndex /\ l[1] \in D \cup Own(fat, Root) /\ l[1] \in Own(fat, u)
  BY <1>2, <1>3
<1>5. x.first = c /\ x.tag = "entry" /\ c \in Clusters /\ c # 0
  BY <1>2, ClusterFacts DEF Compared, IsDir
<1>6. Proper(x)
  <2> SUFFICES ASSUME IsDots(x) PROVE FALSE
    BY <1>5 DEF Proper
  <2>1. RootIfZero(x.first) = c
    BY <1>5 DEF RootIfZero
  <2>2. CASE u = Root
    <3>1. ~IsDots(disk[l[1]][l[2]])
      BY <1>1, <1>4, <2>2 DEF Vol, Sound, TreeSound
    <3> QED
      BY <3>1 DEF CellAt
  <2>3. CASE u # Root
    <3>1. l[1] = u /\ u \in D \ {Root} /\ u = Up(c)
      BY <2>3, <1>2, <1>3, <1>4
    <3>2. RootIfZero(x.first) \in {u, Up(u)}
      BY <3>1, <1>4, Parents DEF CellAt
    <3>3. u # c /\ Up(u) # c
      BY <3>1, Parents
    <3> QED
      BY <3>2, <3>3, <2>1
  <2> QED
    BY <2>2, <2>3
<1>7. l \in Entries(fat, disk, D)
  BY <1>4, <1>6 DEF Entries
<1>8. l \notin X
  <2> SUFFICES ASSUME l \in X PROVE FALSE
    OBVIOUS
  <2>1. x.first \notin D
    BY <1>1, TornFacts
  <2> QED
    BY <2>1, <1>5
<1> QED
  BY <1>4, <1>5, <1>6, <1>7, <1>8 DEF Home, Placed, Live

(* cd finds the subdirectory of a name.                                    *)
LEMMA FoundByName ==
  ASSUME FatInv, NEW c \in Clusters, Tidy(fat, disk, c), Neat(fat, disk, c),
         NEW l \in Own(fat, c) \X CellIndex, IsDir(CellAt(disk, l))
  PROVE  find_dir(c, CellAt(disk, l).name) = l
<1> DEFINE n == CellAt(disk, l).name
<1> DEFINE w == Walk(Chain(c))
<1> DEFINE SameSector(j, k) == w[j][1] = w[k][1] /\ SectorOf(w[j][2]) = SectorOf(w[k][2])
<1> DEFINE Hit(k) == /\ Named(At(w[k]), n) /\ IsDir(At(w[k]))
                     /\ \A j \in 1 .. k - 1 : SameSector(j, k) => At(w[j]) # Zero
<1> DEFINE hits == {k \in DOMAIN w : Hit(k)}
<1>1. find_dir(c, n) = IF hits = {} THEN NoLoc ELSE w[Min(hits)]
  BY Zenon DEF find_dir, FirstWhere
<1>2. /\ \E m \in Nat : DOMAIN w = 1 .. m
      /\ \A k \in DOMAIN w : w[k] \in Own(fat, c) \X CellIndex
      /\ \E k \in DOMAIN w : w[k] = l
  BY DirWalk DEF FatInv, Chain
<1>3. \A k \in DOMAIN w : \A j \in 1 .. k - 1 : At(w[j]) = Zero => At(w[k]) = Zero
  BY DEF Tidy, Chain, At, CellAt
<1>4. \A k : At(w[k]) = CellAt(disk, w[k])
  BY DEF At, CellAt
<1> HIDE DEF w
<1>5. ASSUME NEW k \in DOMAIN w, Hit(k) PROVE w[k] = l
  <2>1. IsDir(CellAt(disk, w[k])) /\ CellAt(disk, w[k]).name = n
    BY <1>4, <1>5 DEF Named
  <2> QED
    BY <2>1, <1>2 DEF Neat
<1>6. hits # {}
  <2>1. PICK k \in DOMAIN w : w[k] = l
    BY <1>2
  <2>2. At(w[k]) # Zero /\ IsDir(At(w[k])) /\ Named(At(w[k]), n)
    BY <2>1, <1>4 DEF IsDir, Named, Zero
  <2>3. \A j \in 1 .. k - 1 : At(w[j]) # Zero
    BY <2>2, <1>3
  <2> QED
    BY <2>2, <2>3
<1>7. Min(hits) \in hits
  <2>1. hits \in SUBSET Nat
    BY <1>2
  <2> QED
    BY <2>1, <1>6, MinNat
<1>8. w[Min(hits)] = l
  BY <1>5, <1>7
<1> QED
  BY <1>1, <1>6, <1>8

(* fat32_pwd finds the name of a directory in its parent ...               *)
LEMMA FoundByCluster ==
  ASSUME FatInv, NEW D, Consistent(D), \A b \in D : Tidy(fat, disk, b) /\ Neat(fat, disk, b),
         NEW c \in D \ {Root}, NEW l \in Own(fat, Up(c)) \X CellIndex, Home(D, c, l)
  PROVE  find_dirname_in_parent(Up(c), c) = <<CellAt(disk, l).name[1], "">>
<1> DEFINE u == Up(c)
<1> DEFINE w == Walk(Chain(u))
<1> DEFINE Hit(k) == /\ IsDir(At(w[k])) /\ Compared(u, At(w[k])) = c
                     /\ \A j \in 1 .. k - 1 : At(w[j]) # Zero
<1> DEFINE hits == {k \in DOMAIN w : Hit(k)}
<1> DEFINE loc == IF hits = {} THEN NoLoc ELSE w[Min(hits)]
<1>1. find_dirname_in_parent(u, c) =
        IF loc # NoLoc THEN <<At(loc).name[1], "">>
        ELSE IF \E k \in DOMAIN w : At(w[k]) = Zero THEN Unknown ELSE Astray
  BY Zenon DEF find_dirname_in_parent, FirstWhere, Compared
<1>0. u \in D /\ D \subseteq Clusters /\ Tidy(fat, disk, u)
  BY Parents, DirClusters
<1>2. /\ \E m \in Nat : DOMAIN w = 1 .. m
      /\ \A k \in DOMAIN w : w[k] \in Own(fat, u) \X CellIndex
      /\ \E k \in DOMAIN w : w[k] = l
  BY <1>0, DirWalk DEF FatInv, Chain
<1>3. \A k \in DOMAIN w : \A j \in 1 .. k - 1 : At(w[j]) = Zero => At(w[k]) = Zero
  BY <1>0 DEF Tidy, Chain, At, CellAt
<1>4. \A k : At(w[k]) = CellAt(disk, w[k])
  BY DEF At, CellAt
<1> HIDE DEF w
<1>5. ASSUME NEW k \in DOMAIN w, Hit(k) PROVE w[k] = l
  <2>1. IsDir(CellAt(disk, w[k])) /\ Compared(Up(c), CellAt(disk, w[k])) = c
    BY <1>4, <1>5
  <2>2. w[k] \in Own(fat, Up(c)) \X CellIndex
    BY <1>2
  <2>3. Home(D, c, w[k])
    BY <2>1, <2>2, OnlyHome
  <2> QED
    BY <2>3, <1>0, HomeOnce
<1>6. hits # {}
  <2>1. PICK k \in DOMAIN w : w[k] = l
    BY <1>2
  <2>2. At(w[k]) # Zero /\ IsDir(At(w[k])) /\ At(w[k]).first = c
    BY <2>1, <1>4 DEF IsDir, Zero, Home
  <2>3. \A j \in 1 .. k - 1 : At(w[j]) # Zero
    BY <2>2, <1>3
  <2>4. c # 0
    BY <1>0, ClusterFacts
  <2>5. Compared(u, At(w[k])) = c
    BY <2>2, <2>4 DEF Compared
  <2> HIDE DEF u
  <2> QED
    BY <2>2, <2>3, <2>5
<1>7. Min(hits) \in hits
  <2>1. hits \in SUBSET Nat
    BY <1>2
  <2> QED
    BY <2>1, <1>6, MinNat
<1>8. w[Min(hits)] = l
  BY <1>5, <1>7
<1>9. l # NoLoc
  <2>1. l \in Clusters \X CellIndex
    BY DEF Home
  <2> QED
    BY <2>1, NoLocNowhere
<1>10. loc = l
  BY <1>6, <1>8
<1> HIDE DEF loc, u
<1>11. At(l) = CellAt(disk, l)
  BY DEF At, CellAt
<1>12. find_dirname_in_parent(u, c) = <<At(l).name[1], "">>
  BY <1>1, <1>9, <1>10
<1> QED
  BY <1>11, <1>12 DEF u

(* ... and finds none in the root, unless that is the parent.              *)
LEMMA NotInRoot ==
  ASSUME FatInv, NEW D, Consistent(D), \A b \in D : Neat(fat, disk, b),
         NEW c \in D \ {Root}, Up(c) # Root
  PROVE  find_dirname_in_parent(Root, c) \in {Unknown, Astray}
<1> DEFINE w == Walk(Chain(Root))
<1> DEFINE Hit(k) == /\ IsDir(At(w[k])) /\ Compared(Root, At(w[k])) = c
                     /\ \A j \in 1 .. k - 1 : At(w[j]) # Zero
<1> DEFINE hits == {k \in DOMAIN w : Hit(k)}
<1> DEFINE loc == IF hits = {} THEN NoLoc ELSE w[Min(hits)]
<1>1. find_dirname_in_parent(Root, c) =
        IF loc # NoLoc THEN <<At(loc).name[1], "">>
        ELSE IF \E k \in DOMAIN w : At(w[k]) = Zero THEN Unknown ELSE Astray
  BY Zenon DEF find_dirname_in_parent, FirstWhere, Compared
<1>2. \A k \in DOMAIN w : w[k] \in Own(fat, Root) \X CellIndex
  BY ClusterFacts, DirWalk DEF FatInv, Chain
<1>3. \A k : At(w[k]) = CellAt(disk, w[k])
  BY DEF At, CellAt
<1> HIDE DEF w
<1>4. ASSUME NEW k \in DOMAIN w, Hit(k) PROVE FALSE
  <2>1. Home(D, c, w[k])
    <3>1. IsDir(CellAt(disk, w[k])) /\ Compared(Root, CellAt(disk, w[k])) = c
      BY <1>3, <1>4
    <3> QED
      BY <3>1, <1>2, OnlyHome
  <2>2. PICK l \in Own(fat, Up(c)) \X CellIndex : Home(D, c, l)
    BY Parents
  <2>3. c \in Clusters /\ Up(c) \in D
    BY Parents, DirClusters
  <2>4. w[k] = l
    BY <2>1, <2>2, <2>3, HomeOnce
  <2>5. Own(fat, Root) \cap Own(fat, Up(c)) = {}
    <3>1. Root \in D
      BY DirFacts DEF Consistent, Good
    <3> QED
      BY <3>1, <2>3, DirClusters
  <2>6. w[k][1] \in Own(fat, Root) /\ w[k][1] \in Own(fat, Up(c))
    BY <1>2, <2>2, <2>4
  <2> QED
    BY <2>5, <2>6
<1>5. loc = NoLoc
  BY <1>4
<1> HIDE DEF loc
<1> QED
  BY <1>1, <1>5

-----------------------------------------------------------------------------
(* The stack of fat32_pwd.                                                 *)

(* One level of the climb, when h is what is found from the parent on.     *)
Further(h, c) ==
  LET up     == disk[c][1]
      parent == RootIfZero(up.first)
  IN IF ~Named(up, DotDot) THEN Corrupt
     ELSE IF parent = c THEN <<c>>
     ELSE LET rest == h[parent]
          IN IF rest = Corrupt THEN Corrupt ELSE <<c>> \o rest

Level(n, h) == [c \in Clusters |-> IF n = 0 \/ c = Root THEN <<>> ELSE Further(h, c)]

LEMMA ClimbsRecursion ==
  ASSUME FatInv
  PROVE  /\ Climbs[0] = [c \in Clusters |-> <<>>]
         /\ \A n \in 1 .. PwdDepth : Climbs[n] = Level(n, Climbs[n - 1])
         /\ \A n \in 0 .. PwdDepth : Climbs[n] \in [Clusters -> Seq(Int)]
<1> DEFINE N == PwdDepth
<1> DEFINE V == [Clusters -> Seq(Int)]
<1> DEFINE base == [c \in Clusters |-> <<>>]
<1> DEFINE step == [n \in 1 .. N |-> [v \in V |-> Level(n, v)]]
<1>1. N \in Nat
  BY Fat32Assumption
<1>2. base \in V
  OBVIOUS
<1>3. ASSUME NEW v \in V, NEW n PROVE Level(n, v) \in V
  <2> SUFFICES ASSUME NEW c \in Clusters, c # Root PROVE Further(v, c) \in Seq(Int)
    BY DEF Level
  <2> DEFINE x == disk[c][1]  p == RootIfZero(x.first)
  <2>1. x \in Cell
    BY Geometry DEF FatInv, Typed, IsDisk
  <2>2. Named(x, DotDot) => p \in Clusters
    <3>1. Named(x, DotDot) => x.first \in Clusters \cup {0}
      BY <2>1, EntryFacts DEF Named
    <3> QED
      BY <3>1, ClusterFacts DEF RootIfZero
  <2>3. Corrupt \in Seq(Int) /\ c \in Int
    BY ClusterFacts DEF Corrupt, NotFound
  <2>4. Further(v, c) = IF ~Named(x, DotDot) THEN Corrupt
                        ELSE IF p = c THEN <<c>>
                        ELSE IF v[p] = Corrupt THEN Corrupt ELSE <<c>> \o v[p]
    BY DEF Further
  <2> HIDE DEF x, p
  <2>5. Named(x, DotDot) => v[p] \in Seq(Int)
    BY <2>2
  <2>6. <<c>> \in Seq(Int)
    BY <2>3
  <2>7. Named(x, DotDot) => <<c>> \o v[p] \in Seq(Int)
    BY <2>5, <2>6
  <2> QED
    BY <2>3, <2>4, <2>6, <2>7
<1>4. step \in Steps(N, V)
  BY <1>3 DEF Steps
<1>5. PICK g \in [0 .. N -> V] : g[0] = base /\ \A n \in 1 .. N : g[n] = step[n][g[n - 1]]
  <2> HIDE DEF N, V, base, step
  <2>2. Solvable(N, V, base, step)
    BY <1>1, <1>2, <1>4, RecursionExists, Zenon
  <2> QED
    BY <2>2, Zenon DEF Solvable
<1>6. \A n \in 1 .. N : g[n] = Level(n, g[n - 1])
  <2> SUFFICES ASSUME NEW n \in 1 .. N PROVE g[n] = Level(n, g[n - 1])
    OBVIOUS
  <2>1. g[n - 1] \in V
    BY <1>1
  <2>2. step[n] = [v \in V |-> Level(n, v)]
    OBVIOUS
  <2> HIDE DEF V
  <2> QED
    BY <2>1, <2>2, <1>5
<1>7. \A h : Level(0, h) = base
  BY DEF Level
<1> DEFINE Eq(h) == h = [n \in 0 .. N |-> Level(n, h[n - 1])]
<1>8. Eq(g)
  <2>1. \A n \in 0 .. N : g[n] = Level(n, g[n - 1])
    <3> SUFFICES ASSUME NEW n \in 0 .. N PROVE g[n] = Level(n, g[n - 1])
      OBVIOUS
    <3>1. n = 0 \/ n \in 1 .. N
      BY <1>1
    <3> HIDE DEF step, N, base
    <3> QED
      BY <3>1, <1>5, <1>6, <1>7
  <2> HIDE DEF step, N, V, base
  <2> QED
    BY <2>1, <1>5
<1>9. Climbs = CHOOSE h : Eq(h)
  BY Zenon DEF Climbs, Level, Further
<1>10. Eq(Climbs)
  BY <1>8, <1>9, Zenon
<1>11. \A n \in 0 .. N : Climbs[n] = Level(n, Climbs[n - 1])
  <2> DEFINE W == Climbs
  <2>1. W = [n \in 0 .. N |-> Level(n, W[n - 1])]
    BY <1>10, Zenon
  <2> HIDE DEF W, N
  <2>2. \A n \in 0 .. N : W[n] = Level(n, W[n - 1])
    BY <2>1
  <2> QED
    BY <2>2 DEF W
<1>12. Climbs[0] = base
  BY <1>1, <1>7, <1>11
<1>13. \A n \in 1 .. N : Climbs[n] = Level(n, Climbs[n - 1])
  <2>1. \A n \in 1 .. N : n \in 0 .. N
    BY <1>1
  <2> QED
    BY <2>1, <1>11, Zenon
<1>14. 0 .. N \subseteq {n \in Nat : Climbs[n] \in V}
  <2> DEFINE S == {n \in Nat : Climbs[n] \in V}
  <2> DEFINE back == [n \in 0 .. N |-> n - 1]  same == [n \in 0 .. N |-> n]
  <2>1. Descends(back, 0 .. N, same)
    BY <1>1 DEF Descends
  <2>2. Inherits(back, 0 .. N, S)
    <3> SUFFICES ASSUME NEW n \in 0 .. N, back[n] \in 0 .. N => back[n] \in S PROVE n \in S
      BY DEF Inherits
    <3>1. CASE n = 0
      BY <3>1, <1>2, <1>12
    <3>2. CASE n # 0
      <4>1. n \in 1 .. N /\ back[n] = n - 1 /\ n - 1 \in 0 .. N
        BY <3>2, <1>1
      <4>2. Climbs[n - 1] \in V
        BY <4>1
      <4>3. Climbs[n] = Level(n, Climbs[n - 1])
        BY <4>1, <1>13
      <4>4. Climbs[n] \in V
        BY <4>2, <4>3, <1>3
      <4> QED
        BY <4>4
    <3> QED
      BY <3>1, <3>2
  <2> HIDE DEF S, back, same
  <2>3. 0 .. N \subseteq S
    BY <2>1, <2>2, RankInduction
  <2> QED
    BY <2>3 DEF S
<1> QED
  BY <1>12, <1>13, <1>14

(* What is climbed from a directory of D, n levels at most.                *)
GoodClimb(D, n, c) ==
  LET s == Climbs[n][c]
  IN /\ s \in Seq(D \ {Root})
     /\ s = <<>> <=> n = 0 \/ c = Root
     /\ s # <<>> => s[1] = c
     /\ \A i \in 1 .. Len(s) - 1 : s[i + 1] = Up(s[i])

LEMMA CorruptIsNone ==
  ASSUME NEW S \in SUBSET Clusters, NEW s \in Seq(S)
  PROVE  s # Corrupt
<1> SUFFICES ASSUME s = Corrupt PROVE FALSE
  OBVIOUS
<1>1. Len(s) = 1 /\ s[1] = -2
  BY DEF Corrupt, NotFound
<1>2. s[1] \in Clusters
  BY <1>1
<1> QED
  BY <1>1, <1>2, ClusterFacts

LEMMA ClimbStep ==
  ASSUME FatInv, NEW D, Consistent(D), \A b \in D : Neat(fat, disk, b),
         NEW n \in 1 .. PwdDepth, NEW c \in D \ {Root}, GoodClimb(D, n - 1, Up(c))
  PROVE  Climbs[n][c] = <<c>> \o Climbs[n - 1][Up(c)]
<1>1. Named(disk[c][1], DotDot) /\ Up(c) # c /\ c \in Clusters /\ D \ {Root} \in SUBSET Clusters
  BY Parents, DirClusters
<1>2. Climbs[n][c] = Further(Climbs[n - 1], c)
  <2>1. Climbs[n] = Level(n, Climbs[n - 1]) /\ n # 0
    BY ClimbsRecursion
  <2> QED
    BY <2>1, <1>1 DEF Level
<1>3. Climbs[n - 1][Up(c)] # Corrupt
  BY <1>1, CorruptIsNone DEF GoodClimb
<1> QED
  BY <1>1, <1>2, <1>3 DEF Further, Up

LEMMA PutAhead ==
  ASSUME NEW E, NEW q \in Seq(E), NEW c \in E
  PROVE  /\ <<c>> \o q \in Seq(E) /\ Len(<<c>> \o q) = Len(q) + 1
         /\ (<<c>> \o q)[1] = c /\ <<c>> \o q # <<>>
         /\ \A i \in 1 .. Len(q) : (<<c>> \o q)[i + 1] = q[i]
<1> DEFINE t == <<c>> \o q
<1>1. /\ t \in Seq(E) /\ Len(t) = Len(q) + 1 /\ t[1] = c
      /\ Len(q) \in Nat /\ \A k \in 1 .. Len(q) : t[k + 1] = q[k]
  OBVIOUS
<1> HIDE DEF t
<1>2. t # <<>>
  BY <1>1
<1> QED
  BY <1>1, <1>2 DEF t

LEMMA Climbing ==
  ASSUME FatInv, NEW D, Consistent(D), \A b \in D : Neat(fat, disk, b)
  PROVE  \A n \in 0 .. PwdDepth : \A c \in D : GoodClimb(D, n, c)
<1> DEFINE N == PwdDepth
<1> DEFINE S == {n \in Nat : \A c \in D : GoodClimb(D, n, c)}
<1> DEFINE back == [n \in 0 .. N |-> n - 1]  same == [n \in 0 .. N |-> n]
<1>1. N \in Nat /\ D \subseteq Clusters
  BY Fat32Assumption, DirFacts DEF Consistent, Good
<1>2. Descends(back, 0 .. N, same)
  BY <1>1 DEF Descends
<1>3. ASSUME NEW n \in 0 .. N, NEW c \in D, n = 0 \/ c = Root PROVE GoodClimb(D, n, c)
  <2>1. Climbs[n][c] = <<>>
    <3>1. n = 0 \/ n \in 1 .. N
      BY <1>1
    <3> QED
      BY <3>1, <1>1, <1>3, ClimbsRecursion DEF Level
  <2> QED
    BY <2>1, <1>3 DEF GoodClimb
<1>4. ASSUME NEW n \in 1 .. N, \A c \in D : GoodClimb(D, n - 1, c), NEW c \in D \ {Root}
      PROVE  GoodClimb(D, n, c)
  <2> DEFINE s == Climbs[n][c]  q == Climbs[n - 1][Up(c)]  E == D \ {Root}
  <2>1. Up(c) \in D
    BY Parents
  <2>2. s = <<c>> \o q
    BY <2>1, <1>4, ClimbStep
  <2>3. /\ q \in Seq(E)
        /\ q # <<>> => q[1] = Up(c)
        /\ \A i \in 1 .. Len(q) - 1 : q[i + 1] = Up(q[i])
    BY <2>1, <1>4 DEF GoodClimb
  <2>4. n # 0 /\ c # Root /\ c \in E
    BY <1>1
  <2> HIDE DEF q, E, s
  <2>5. s \in Seq(E) /\ Len(s) = Len(q) + 1 /\ s[1] = c /\ \A i \in 1 .. Len(q) : s[i + 1] = q[i]
    <3>1. /\ <<c>> \o q \in Seq(E) /\ Len(<<c>> \o q) = Len(q) + 1 /\ (<<c>> \o q)[1] = c
          /\ \A i \in 1 .. Len(q) : (<<c>> \o q)[i + 1] = q[i]
      BY <2>3, <2>4, PutAhead
    <3> QED
      BY <3>1, <2>2, Zenon
  <2>6. Len(q) \in Nat /\ (Len(q) > 0 => q # <<>>)
    BY <2>3
  <2>7. ASSUME NEW i \in 1 .. Len(s) - 1 PROVE s[i + 1] = Up(s[i])
    <3>1. i \in 1 .. Len(q) /\ s[i + 1] = q[i]
      BY <2>5, <2>6
    <3>2. CASE i = 1
      <4>1. s[1] = c /\ s[i + 1] = q[1] /\ Len(q) > 0
        BY <3>1, <3>2, <2>5, <2>6
      <4>3. q # <<>>
        BY <4>1, <2>6
      <4>2. q[1] = Up(c)
        BY <4>3, <2>3
      <4> QED
        BY <4>1, <4>2, <3>2
    <3>3. CASE i # 1
      <4>1. i - 1 \in 1 .. Len(q) - 1 /\ (i - 1) + 1 = i /\ i - 1 \in 1 .. Len(q)
        BY <3>1, <3>3, <2>6
      <4>2. s[i] = q[i - 1] /\ q[i] = Up(q[i - 1])
        BY <4>1, <2>3, <2>5
      <4> QED
        BY <4>2, <3>1
    <3> QED
      BY <3>2, <3>3
  <2>8. s # <<>>
    BY <2>5, <2>6
  <2> QED
    BY <2>4, <2>5, <2>7, <2>8 DEF GoodClimb, s, E
<1>5. Inherits(back, 0 .. N, S)
  <2> SUFFICES ASSUME NEW n \in 0 .. N, back[n] \in 0 .. N => back[n] \in S, NEW c \in D
               PROVE  GoodClimb(D, n, c)
    BY DEF Inherits
  <2>1. CASE n = 0 \/ c = Root
    BY <2>1, <1>3
  <2>2. CASE n # 0 /\ c # Root
    <3>1. n \in 1 .. N /\ back[n] = n - 1 /\ n - 1 \in 0 .. N
      BY <2>2, <1>1
    <3> QED
      BY <3>1, <2>2, <1>4
  <2> QED
    BY <2>1, <2>2
<1> HIDE DEF S, back, same
<1>6. 0 .. N \subseteq S
  BY <1>2, <1>5, RankInduction
<1> QED
  BY <1>6 DEF S

-----------------------------------------------------------------------------
(* The depth of a directory, climbed and descended.                        *)

(* What a directory of DirsWithin[n] hangs on.                             *)
Hangs(n, c) == /\ n > 0 /\ Up(c) \in DirsWithin[n - 1]
               /\ \E l \in Kept(Up(c)) : IsDir(At(l)) /\ At(l).first = c

LEMMA KeptHome ==
  ASSUME FatInv, NEW D, Consistent(D), \A b \in D : Neat(fat, disk, b),
         NEW b \in Dirs, NEW l \in Kept(b), IsDir(At(l)), At(l).first # Root
  PROVE  At(l).first \in D /\ Home(D, At(l).first, l) /\ Up(At(l).first) = b
<1> DEFINE c == At(l).first
<1>1. b \in D /\ l \in Placed(D) /\ At(l) = CellAt(disk, l)
  <2>1. l \in Tree
    BY DEF Tree
  <2> QED
    BY <2>1, TreePlaced
<1>2. b \in Links /\ Root \in D
  BY <1>1, DirClusters, DirFacts DEF Links, Consistent, Good
<1>3. l \in Own(fat, b) \X CellIndex /\ l \in Clusters \X CellIndex /\ Proper(At(l))
  BY <1>2, KeptCells
<1>4. Home(D, c, l)
  BY <1>1, <1>3 DEF Home
<1>5. c \in D
  BY <1>1, <1>2, <1>3, DirClusters, LiveFacts DEF Placed, IsDir
<1>6. PICK m \in Own(fat, Up(c)) \X CellIndex : Home(D, c, m)
  BY <1>5, Parents
<1>7. Up(c) \in D /\ c \in Clusters
  BY <1>5, Parents, DirClusters
<1>8. l = m
  BY <1>4, <1>6, <1>7, HomeOnce
<1>9. l[1] \in Own(fat, b) /\ l[1] \in Own(fat, Up(c))
  BY <1>3, <1>6, <1>8
<1>10. Up(c) = b
  BY <1>1, <1>7, <1>9, DirClusters
<1> QED
  BY <1>4, <1>5, <1>10

LEMMA Hanging ==
  ASSUME FatInv, NEW D, Consistent(D), \A b \in D : Neat(fat, disk, b)
  PROVE  \A n \in 0 .. Cardinality(Clusters) : \A c \in DirsWithin[n] \ {Root} : Hangs(n, c)
<1> DEFINE N == Cardinality(Clusters)
<1> DEFINE S == {n \in Nat : \A c \in DirsWithin[n] \ {Root} : Hangs(n, c)}
<1> DEFINE back == [n \in 0 .. N |-> n - 1]  same == [n \in 0 .. N |-> n]
<1>1. N \in Nat
  BY ClusterFacts
<1>2. Descends(back, 0 .. N, same)
  BY <1>1 DEF Descends
<1>3. ASSUME NEW n \in 1 .. N, \A c \in DirsWithin[n - 1] \ {Root} : Hangs(n - 1, c),
             NEW c \in DirsWithin[n] \ {Root}
      PROVE  Hangs(n, c)
  <2>1. DirsWithin[n] = Grown(DirsWithin[n - 1]) /\ n - 1 \in 0 .. N /\ n > 0
    BY <1>1, DirsRecursion
  <2>2. CASE c \in DirsWithin[n - 1]
    <3>1. Hangs(n - 1, c)
      BY <2>2, <1>3
    <3>2. n - 2 \in 0 .. N /\ n - 1 \in (n - 2) .. N /\ (n - 1) - 1 = n - 2
      BY <3>1, <1>1 DEF Hangs
    <3>3. DirsWithin[n - 2] \subseteq DirsWithin[n - 1]
      BY <3>2, DirsMonotone
    <3> QED
      BY <3>1, <3>2, <3>3, <2>1 DEF Hangs
  <2>3. CASE c \notin DirsWithin[n - 1]
    <3>1. PICK b \in DirsWithin[n - 1] : \E l \in Kept(b) : IsDir(At(l)) /\ At(l).first = c
      BY <2>1, <2>3 DEF Grown
    <3>4. PICK l \in Kept(b) : IsDir(At(l)) /\ At(l).first = c
      BY <3>1
    <3>2. b \in Dirs
      <4>1. N \in (n - 1) .. N
        BY <1>1
      <4> QED
        BY <4>1, <3>1, <2>1, DirsMonotone DEF Dirs
    <3>3. Up(c) = b
      BY <3>2, <3>4, KeptHome
    <3> QED
      BY <3>3, <3>4, <2>1 DEF Hangs
  <2> QED
    BY <2>2, <2>3
<1>4. Inherits(back, 0 .. N, S)
  <2> SUFFICES ASSUME NEW n \in 0 .. N, back[n] \in 0 .. N => back[n] \in S,
                      NEW c \in DirsWithin[n] \ {Root}
               PROVE  Hangs(n, c)
    BY DEF Inherits
  <2>1. CASE n = 0
    BY <2>1, DirsRecursion
  <2>2. CASE n # 0
    <3>1. n \in 1 .. N /\ back[n] = n - 1 /\ n - 1 \in 0 .. N
      BY <2>2, <1>1
    <3> QED
      BY <3>1, <1>3
  <2> QED
    BY <2>1, <2>2
<1> HIDE DEF S, back, same
<1>5. 0 .. N \subseteq S
  BY <1>2, <1>4, RankInduction
<1> QED
  BY <1>5 DEF S

(* The climb from c, m levels at most, ends below the root.                *)
Rooted(m, c) == LET s == Climbs[m][c] IN c = Root \/ (s # <<>> /\ Up(s[Len(s)]) = Root)

LEMMA RootedStep ==
  ASSUME FatInv, NEW D, Consistent(D), \A b \in D : Neat(fat, disk, b),
         NEW m \in 1 .. PwdDepth, NEW c \in D \ {Root}
  PROVE  Rooted(m, c) <=> Rooted(m - 1, Up(c))
<1> DEFINE s == Climbs[m][c]  q == Climbs[m - 1][Up(c)]  E == D \ {Root}
<1>1. m - 1 \in 0 .. PwdDepth /\ Up(c) \in D /\ c \in E /\ c # Root
  BY Parents, Fat32Assumption
<1>2. GoodClimb(D, m - 1, Up(c))
  BY <1>1, Climbing
<1>3. s = <<c>> \o q
  BY <1>2, ClimbStep
<1>4. /\ q \in Seq(E)
      /\ q = <<>> <=> m - 1 = 0 \/ Up(c) = Root
  BY <1>2 DEF GoodClimb
<1> HIDE DEF s, q, E
<1>5. /\ Len(s) = Len(q) + 1 /\ s[1] = c /\ s # <<>>
      /\ \A i \in 1 .. Len(q) : s[i + 1] = q[i]
  <2>1. /\ Len(<<c>> \o q) = Len(q) + 1 /\ (<<c>> \o q)[1] = c /\ <<c>> \o q # <<>>
        /\ \A i \in 1 .. Len(q) : (<<c>> \o q)[i + 1] = q[i]
    BY <1>1, <1>4, PutAhead
  <2> QED
    BY <2>1, <1>3, Zenon
<1>6. Rooted(m, c) <=> Up(s[Len(s)]) = Root
  BY <1>1, <1>5 DEF Rooted, s
<1>7. Rooted(m - 1, Up(c)) <=> Up(c) = Root \/ (q # <<>> /\ Up(q[Len(q)]) = Root)
  BY DEF Rooted, q
<1>8. CASE q = <<>>
  <2>1. Len(s) = 1
    BY <1>5, <1>8
  <2> QED
    BY <2>1, <1>5, <1>6, <1>7, <1>8
<1>9. CASE q # <<>>
  <2>1. Len(q) \in 1 .. Len(q)
    BY <1>4, <1>9
  <2>2. s[Len(s)] = q[Len(q)]
    BY <2>1, <1>5
  <2> QED
    BY <2>2, <1>4, <1>6, <1>7, <1>9
<1> QED
  BY <1>8, <1>9

(* The directories within m levels are those that the climb leads home.    *)
LEMMA WithinRooted ==
  ASSUME FatInv, NEW D, Consistent(D), \A b \in D : Neat(fat, disk, b)
  PROVE  \A n \in 0 .. Cardinality(Clusters) : \A c \in DirsWithin[n] : \A m \in 0 .. PwdDepth :
           n <= m => Rooted(m, c)
<1> DEFINE N == Cardinality(Clusters)
<1> DEFINE Fine(n) == \A c \in DirsWithin[n] : \A m \in 0 .. PwdDepth : n <= m => Rooted(m, c)
<1> DEFINE S == {n \in Nat : Fine(n)}
<1> DEFINE back == [n \in 0 .. N |-> n - 1]  same == [n \in 0 .. N |-> n]
<1>1. N \in Nat /\ PwdDepth \in Nat
  BY ClusterFacts, Fat32Assumption
<1>2. Descends(back, 0 .. N, same)
  BY <1>1 DEF Descends
<1>3. \A m : Rooted(m, Root)
  BY DEF Rooted
<1>4. ASSUME NEW n \in 1 .. N, Fine(n - 1), NEW c \in DirsWithin[n] \ {Root},
             NEW m \in 0 .. PwdDepth, n <= m
      PROVE  Rooted(m, c)
  <2>1. Hangs(n, c)
    BY <1>1, Hanging
  <2>2. m \in 1 .. PwdDepth /\ m - 1 \in 0 .. PwdDepth /\ n - 1 <= m - 1
    BY <1>1, <1>4
  <2>3. Rooted(m - 1, Up(c))
    BY <2>1, <2>2, <1>4 DEF Hangs
  <2>4. c \in D
    <3>1. n \in 0 .. N /\ N \in n .. N
      BY <1>1
    <3>2. c \in Dirs
      BY <3>1, DirsMonotone DEF Dirs
    <3> QED
      BY <3>2, TreePlaced
  <2> QED
    BY <2>2, <2>3, <2>4, RootedStep
<1>5. Inherits(back, 0 .. N, S)
  <2> SUFFICES ASSUME NEW n \in 0 .. N, back[n] \in 0 .. N => back[n] \in S PROVE Fine(n)
    BY DEF Inherits
  <2>1. CASE n = 0
    BY <2>1, <1>3, DirsRecursion
  <2>2. CASE n # 0
    <3>1. n \in 1 .. N /\ back[n] = n - 1 /\ n - 1 \in 0 .. N
      BY <2>2, <1>1
    <3>2. Fine(n - 1)
      BY <3>1
    <3> QED
      BY <3>1, <3>2, <1>3, <1>4
  <2> QED
    BY <2>1, <2>2
<1> HIDE DEF S, back, same
<1>6. 0 .. N \subseteq S
  BY <1>2, <1>5, RankInduction
<1> QED
  BY <1>6 DEF S

LEMMA RootedWithin ==
  ASSUME FatInv, NEW D, Consistent(D), \A b \in D : Neat(fat, disk, b)
  PROVE  \A m \in 0 .. PwdDepth : \A c \in Dirs :
           Rooted(m, c) => \E n \in 0 .. Cardinality(Clusters) : n <= m /\ c \in DirsWithin[n]
<1> DEFINE N == Cardinality(Clusters)
<1> DEFINE M == PwdDepth
<1> DEFINE Fine(m) == \A c \in Dirs : Rooted(m, c) => \E n \in 0 .. N : n <= m /\ c \in DirsWithin[n]
<1> DEFINE S == {m \in Nat : Fine(m)}
<1> DEFINE back == [m \in 0 .. M |-> m - 1]  same == [m \in 0 .. M |-> m]
<1>1. N \in Nat /\ M \in Nat /\ N \in 0 .. N /\ 0 \in 0 .. N
  BY ClusterFacts, Fat32Assumption
<1>2. Descends(back, 0 .. M, same)
  BY <1>1 DEF Descends
<1>3. \A m \in 0 .. M : \E n \in 0 .. N : n <= m /\ Root \in DirsWithin[n]
  BY <1>1, DirsRecursion
<1>4. Dirs \subseteq D /\ D \subseteq Clusters
  BY TreePlaced, DirClusters
<1>5. ASSUME NEW m \in 1 .. M, Fine(m - 1), NEW c \in Dirs \ {Root}, Rooted(m, c)
      PROVE  \E n \in 0 .. N : n <= m /\ c \in DirsWithin[n]
  <2>1. Hangs(N, c)
    BY <1>1, Hanging DEF Dirs
  <2>2. Up(c) \in Dirs
    <3>1. N - 1 \in 0 .. N /\ N \in (N - 1) .. N
      BY <2>1, <1>1 DEF Hangs
    <3> QED
      BY <2>1, <3>1, DirsMonotone DEF Hangs, Dirs
  <2>3. Rooted(m - 1, Up(c))
    BY <1>4, <1>5, RootedStep
  <2>4. PICK n \in 0 .. N : n <= m - 1 /\ Up(c) \in DirsWithin[n]
    BY <2>2, <2>3, <1>5
  <2>5. CASE n = N
    BY <2>4, <2>5, <1>1 DEF Dirs
  <2>6. CASE n # N
    <3>1. n + 1 \in 1 .. N /\ n + 1 \in 0 .. N /\ (n + 1) - 1 = n /\ n + 1 <= m
      BY <2>4, <2>6, <1>1
    <3>2. DirsWithin[n + 1] = Grown(DirsWithin[n])
      BY <3>1, DirsRecursion
    <3>3. PICK l \in Kept(Up(c)) : IsDir(At(l)) /\ At(l).first = c
      BY <2>1 DEF Hangs
    <3>4. c \in Grown(DirsWithin[n])
      BY <2>4, <3>3 DEF Grown
    <3> QED
      BY <3>1, <3>2, <3>4
  <2> QED
    BY <2>5, <2>6
<1>6. \A c : Rooted(0, c) /\ c \in D => c = Root
  <2> SUFFICES ASSUME NEW c \in D, Rooted(0, c) PROVE c = Root
    OBVIOUS
  <2>1. Climbs[0][c] = <<>>
    BY <1>4, ClimbsRecursion
  <2> QED
    BY <2>1 DEF Rooted
<1>7. Inherits(back, 0 .. M, S)
  <2> SUFFICES ASSUME NEW m \in 0 .. M, back[m] \in 0 .. M => back[m] \in S PROVE Fine(m)
    BY DEF Inherits
  <2>1. CASE m = 0
    BY <2>1, <1>3, <1>4, <1>6
  <2>2. CASE m # 0
    <3>1. m \in 1 .. M /\ back[m] = m - 1 /\ m - 1 \in 0 .. M
      BY <2>2, <1>1
    <3>2. Fine(m - 1)
      BY <3>1
    <3> QED
      BY <3>1, <3>2, <1>3, <1>5
  <2> QED
    BY <2>1, <2>2
<1> HIDE DEF S, back, same
<1>8. 0 .. M \subseteq S
  BY <1>2, <1>7, RankInduction
<1> QED
  BY <1>8 DEF S

-----------------------------------------------------------------------------
(* The path that fat32_pwd prints leads back.                              *)

(* A way down: each component of p leads from one cluster of W to the next.*)
Leads(W, p) == \A i \in 1 .. Len(p) : /\ find_dir(W[i - 1], p[i]) # NoLoc
                                      /\ RootIfZero(At(find_dir(W[i - 1], p[i])).first) = W[i]

LEMMA WayDown ==
  ASSUME NEW A \in SUBSET Clusters, NotFound \notin A, NEW p, Len(p) \in Nat,
         NEW W \in [0 .. Len(p) -> A], W[0] = Root, Leads(W, p)
  PROVE  get_path_cluster(Root, [absolute |-> TRUE, parts |-> p]) = W[Len(p)]
<1> DEFINE N == Len(p)  path == [absolute |-> TRUE, parts |-> p]
<1> DEFINE next(v, i) == IF v = NotFound THEN NotFound
                         ELSE LET loc == find_dir(v, path.parts[i])
                              IN IF loc = NoLoc THEN NotFound ELSE RootIfZero(At(loc).first)
<1> DEFINE base == IF path.absolute THEN Root ELSE Root
<1>1. base = Root /\ N = Len(path.parts)
  OBVIOUS
<1>2. ASSUME NEW n \in 1 .. N PROVE next(W[n - 1], n) = W[n]
  <2>1. W[n - 1] # NotFound
    OBVIOUS
  <2>2. path.parts[n] = p[n]
    OBVIOUS
  <2> QED
    BY <2>1, <2>2 DEF Leads
<1> DEFINE Eq(h) == h = [i \in 0 .. Len(path.parts) |->
                          IF i = 0 THEN IF path.absolute THEN Root ELSE Root
                          ELSE IF h[i - 1] = NotFound THEN NotFound
                          ELSE LET loc == find_dir(h[i - 1], path.parts[i])
                               IN IF loc = NoLoc THEN NotFound ELSE RootIfZero(At(loc).first)]
<1> HIDE DEF N
<1>3. Eq(W)
  <2>1. \A n \in 0 .. N : W[n] = IF n = 0 THEN base ELSE next(W[n - 1], n)
    <3> SUFFICES ASSUME NEW n \in 0 .. N PROVE W[n] = IF n = 0 THEN base ELSE next(W[n - 1], n)
      OBVIOUS
    <3>1. n = 0 \/ n \in 1 .. N
      BY DEF N
    <3> HIDE DEF base, next
    <3> QED
      BY <3>1, <1>1, <1>2
  <2>2. W = [n \in 0 .. N |-> IF n = 0 THEN base ELSE next(W[n - 1], n)]
    <3> HIDE DEF base, next
    <3> QED
      BY <2>1 DEF N
  <2>3. W = [n \in 0 .. Len(path.parts) |-> IF n = 0 THEN base ELSE next(W[n - 1], n)]
    <3> HIDE DEF base, next, path
    <3> QED
      BY <2>2, <1>1
  <2> QED
    BY <2>3, Zenon
<1> DEFINE resolve == CHOOSE h : Eq(h)
<1>4. Eq(resolve)
  BY <1>3, Zenon
<1>5. get_path_cluster(Root, path) = resolve[Len(path.parts)]
  BY Zenon DEF get_path_cluster
<1> HIDE DEF resolve
<1>6. \A n \in 0 .. N : resolve[n] = IF n = 0 THEN base ELSE next(resolve[n - 1], n)
  <2>1. resolve = [n \in 0 .. Len(path.parts) |-> IF n = 0 THEN base ELSE next(resolve[n - 1], n)]
    BY <1>4, Zenon
  <2> HIDE DEF base, next, path
  <2>2. resolve = [n \in 0 .. N |-> IF n = 0 THEN base ELSE next(resolve[n - 1], n)]
    BY <2>1, <1>1
  <2> QED
    BY <2>2
<1>7. N \in Nat
  BY DEF N
<1>8. \A n \in 0 .. N : resolve[n] = W[n]
  <2> DEFINE Bad == {n \in 0 .. N : resolve[n] # W[n]}
  <2> SUFFICES ASSUME Bad # {} PROVE FALSE
    OBVIOUS
  <2>1. Bad \in SUBSET Nat
    OBVIOUS
  <2> DEFINE m == Min(Bad)
  <2>2. m \in Bad /\ \A y \in Bad : m <= y
    BY <2>1, MinNat
  <2> HIDE DEF m
  <2>3. m \in 0 .. N /\ resolve[m] # W[m]
    BY <2>2
  <2> HIDE DEF Bad, base, next
  <2>4. m # 0
    BY <2>3, <1>6, <1>1
  <2>5. m \in Nat /\ m \in 1 .. N /\ m - 1 \in 0 .. N /\ ~(m <= m - 1)
    BY <2>3, <2>4, <1>7
  <2>6. resolve[m - 1] = W[m - 1]
    <3>1. m - 1 \notin Bad
      BY <2>2, <2>5, Zenon
    <3> QED
      BY <3>1, <2>5, Zenon DEF Bad
  <2>7. resolve[m] = next(resolve[m - 1], m)
    BY <1>6, <2>3, <2>4
  <2> QED
    BY <2>7, <2>6, <2>5, <1>2, <2>3
<1> QED
  <2>1. N \in 0 .. N /\ resolve[N] = W[N]
    BY <1>7, <1>8
  <2> HIDE DEF path
  <2> QED
    BY <2>1, <1>1, <1>5 DEF N

(* The clusters of the path, when s is the stack of the climb.             *)
Way(r, s) == [i \in 0 .. Len(s) |-> IF i = 0 THEN r ELSE s[(Len(s) - i) + 1]]

LEMMA DownFrom ==
  ASSUME NEW E, NEW s \in Seq(E), NEW r, NEW i \in 1 .. Len(s)
  PROVE  /\ (<<r>> \o Reverse(s))[i] = Way(r, s)[i - 1]
         /\ (<<r>> \o Reverse(s))[i + 1] = Way(r, s)[i]
<1> DEFINE q == Reverse(s)  F == E \cup {r}  k == Len(s)
<1>1. k \in Nat /\ q = [j \in 1 .. k |-> s[(k - j) + 1]]
  BY DEF Reverse
<1>2. \A j \in 1 .. k : (k - j) + 1 \in 1 .. k /\ s[(k - j) + 1] \in F
  OBVIOUS
<1>3. q \in Seq(F) /\ Len(q) = k
  BY <1>1, <1>2
<1>4. \A j \in 1 .. k : q[j] = s[(k - j) + 1]
  BY <1>1
<1>5. \A j \in 1 .. k : Way(r, s)[j] = s[(k - j) + 1]
  BY DEF Way
<1>6. Way(r, s)[0] = r
  BY DEF Way
<1> HIDE DEF q, F
<1> DEFINE d == <<r>> \o q
<1>7. d[1] = r /\ \A j \in 1 .. k : d[j + 1] = q[j]
  <2>1. r \in F
    BY DEF F
  <2> HIDE DEF k
  <2> QED
    BY <2>1, <1>3, PutAhead
<1> HIDE DEF d
<1>8. d[i + 1] = Way(r, s)[i]
  BY <1>4, <1>5, <1>7
<1>9. d[i] = Way(r, s)[i - 1]
  <2>1. CASE i = 1
    BY <2>1, <1>6, <1>7
  <2>2. CASE i # 1
    <3>1. i - 1 \in 1 .. k /\ (i - 1) + 1 = i
      BY <2>2, <1>1
    <3> QED
      BY <3>1, <1>4, <1>5, <1>7
  <2> QED
    BY <2>1, <2>2
<1> QED
  BY <1>8, <1>9 DEF d, q

LEMMA PwdNames ==
  ASSUME FatInv, NEW D, Consistent(D), \A b \in D : Neat(fat, disk, b), NEW c \in D
  PROVE  LET s == Climbs[PwdDepth][c]
             W == Way(Root, s)
         IN /\ s \in Seq(D \ {Root})
            /\ pwd(c) = [i \in 1 .. Len(s) |-> find_dirname_in_parent(W[i - 1], W[i])]
<1> DEFINE s == Climbs[PwdDepth][c]  W == Way(Root, s)  down == <<Root>> \o Reverse(s)  E == D \ {Root}
<1>1. PwdDepth \in 0 .. PwdDepth
  BY Fat32Assumption
<1>2. s \in Seq(E)
  BY <1>1, Climbing DEF GoodClimb
<1>3. E \in SUBSET Clusters
  BY DirClusters
<1> HIDE DEF E
<1>4. s # Corrupt
  BY <1>2, <1>3, CorruptIsNone
<1>5. pwd(c) = IF s = Corrupt THEN <<Missing>>
               ELSE [i \in 1 .. Len(s) |-> find_dirname_in_parent(down[i], down[i + 1])]
  BY Zenon DEF pwd
<1>6. \A i \in 1 .. Len(s) : down[i] = W[i - 1] /\ down[i + 1] = W[i]
  BY <1>2, DownFrom
<1> HIDE DEF s, W, down
<1>7. pwd(c) = [i \in 1 .. Len(s) |-> find_dirname_in_parent(W[i - 1], W[i])]
  BY <1>4, <1>5, <1>6
<1> QED
  BY <1>2, <1>7 DEF s, W, E

LEMMA WayHome ==
  ASSUME FatInv, NEW D, Consistent(D), \A b \in D : Neat(fat, disk, b),
         NEW c \in D, Rooted(PwdDepth, c)
  PROVE  LET s == Climbs[PwdDepth][c]
             W == Way(Root, s)
         IN /\ W \in [0 .. Len(s) -> D] /\ W[0] = Root /\ W[Len(s)] = c
            /\ \A i \in 1 .. Len(s) : W[i] \in D \ {Root} /\ Up(W[i]) = W[i - 1]
<1> DEFINE s == Climbs[PwdDepth][c]  W == Way(Root, s)  E == D \ {Root}  k == Len(s)
<1>1. PwdDepth \in 0 .. PwdDepth /\ PwdDepth # 0
  BY Fat32Assumption
<1>2. /\ s \in Seq(E)
      /\ s = <<>> <=> c = Root
      /\ s # <<>> => s[1] = c
      /\ \A i \in 1 .. k - 1 : s[i + 1] = Up(s[i])
  <2>1. GoodClimb(D, PwdDepth, c)
    BY <1>1, Climbing
  <2> QED
    BY <1>1, <2>1, Zenon DEF GoodClimb
<1>3. s # <<>> => Up(s[k]) = Root
  BY <1>2 DEF Rooted
<1>4. Root \in D
  BY DirFacts DEF Consistent, Good
<1> HIDE DEF s
<1>5. k \in Nat /\ (s = <<>> <=> k = 0)
  BY <1>2
<1>6. W[0] = Root /\ \A i \in 1 .. k : W[i] = s[(k - i) + 1] /\ (k - i) + 1 \in 1 .. k
  BY <1>5 DEF Way
<1>7. \A i \in 1 .. k : W[i] \in E
  BY <1>2, <1>6
<1>8. W \in [0 .. k -> D]
  <2>1. \A i \in 0 .. k : W[i] \in D
    <3> SUFFICES ASSUME NEW i \in 0 .. k PROVE W[i] \in D
      OBVIOUS
    <3>1. i = 0 \/ i \in 1 .. k
      BY <1>5
    <3> QED
      BY <3>1, <1>4, <1>6, <1>7
  <2> QED
    BY <2>1 DEF Way
<1>9. W[k] = c
  <2>1. CASE k = 0
    BY <2>1, <1>2, <1>5, <1>6
  <2>2. CASE k # 0
    <3>1. k \in 1 .. k /\ (k - k) + 1 = 1
      BY <2>2, <1>5
    <3>2. W[k] = s[1]
      BY <3>1, <1>6
    <3> QED
      BY <3>2, <2>2, <1>2, <1>5
  <2> QED
    BY <2>1, <2>2
<1>10. ASSUME NEW i \in 1 .. k PROVE Up(W[i]) = W[i - 1]
  <2>1. CASE i = 1
    <3>1. W[i] = s[k] /\ W[i - 1] = Root
      BY <2>1, <1>5, <1>6
    <3> QED
      BY <3>1, <1>3, <1>5
  <2>2. CASE i # 1
    <3>1. i - 1 \in 1 .. k /\ (k - i) + 1 \in 1 .. k - 1 /\ (k - (i - 1)) + 1 = ((k - i) + 1) + 1
      BY <2>2, <1>5
    <3>2. W[i - 1] = s[(k - (i - 1)) + 1] /\ W[i] = s[(k - i) + 1]
      BY <3>1, <1>6
    <3> QED
      BY <3>1, <3>2, <1>2
  <2> QED
    BY <2>1, <2>2
<1> HIDE DEF W
<1>11. \A i \in 1 .. k : W[i] \in D \ {Root} /\ Up(W[i]) = W[i - 1]
  BY <1>7, <1>10
<1> QED
  BY <1>6, <1>8, <1>9, <1>11 DEF s, W

(* Directories are named by a stem alone, which is all that fat32_pwd      *)
(* prints of a name.                                                       *)
NoExtensions == \A n \in DirNames : n = <<n[1], "">>

LEMMA PwdResolves ==
  ASSUME NoExtensions, FatInv, NEW D, Consistent(D),
         \A b \in D : Tidy(fat, disk, b) /\ Neat(fat, disk, b),
         NEW c \in D, Rooted(PwdDepth, c)
  PROVE  get_path_cluster(Root, [absolute |-> TRUE, parts |-> pwd(c)]) = c
<1> DEFINE s == Climbs[PwdDepth][c]  W == Way(Root, s)  p == pwd(c)
<1>1. /\ s \in Seq(D \ {Root})
      /\ p = [i \in 1 .. Len(s) |-> find_dirname_in_parent(W[i - 1], W[i])]
  BY PwdNames
<1>2. /\ W \in [0 .. Len(s) -> D] /\ W[0] = Root /\ W[Len(s)] = c
      /\ \A i \in 1 .. Len(s) : W[i] \in D \ {Root} /\ Up(W[i]) = W[i - 1]
  BY WayHome
<1> HIDE DEF s, W, p
<1>3. Len(s) \in Nat /\ Len(p) = Len(s)
  BY <1>1
<1>4. ASSUME NEW i \in 1 .. Len(s)
      PROVE  /\ find_dir(W[i - 1], p[i]) # NoLoc
             /\ RootIfZero(At(find_dir(W[i - 1], p[i])).first) = W[i]
  <2> DEFINE b == W[i]
  <2>1. b \in D \ {Root} /\ Up(b) = W[i - 1] /\ Up(b) \in D
    BY <1>2, Parents
  <2> HIDE DEF b
  <2>2. PICK l \in Own(fat, Up(b)) \X CellIndex : Home(D, b, l)
    BY <2>1, Parents
  <2>3. find_dirname_in_parent(Up(b), b) = <<CellAt(disk, l).name[1], "">>
    BY <2>1, <2>2, FoundByCluster
  <2>4. CellAt(disk, l) \in Cell /\ At(l) = CellAt(disk, l)
    BY <2>2, AtCell DEF Home, FatInv
  <2>5. CellAt(disk, l).name \in DirNames
    BY <2>2, <2>4, EntryFacts DEF Home, IsDir
  <2>6. find_dirname_in_parent(Up(b), b) = CellAt(disk, l).name
    BY <2>3, <2>5, Zenon DEF NoExtensions
  <2>7. p[i] = CellAt(disk, l).name
    BY <2>1, <2>6, <1>1 DEF b
  <2>8. Up(b) \in Clusters /\ Tidy(fat, disk, Up(b)) /\ Neat(fat, disk, Up(b)) /\ IsDir(CellAt(disk, l))
    BY <2>1, <2>2, DirClusters DEF Home
  <2>9. find_dir(Up(b), p[i]) = l
    BY <2>2, <2>7, <2>8, FoundByName
  <2>10. l # NoLoc
    BY <2>2, NoLocNowhere DEF Home
  <2>11. RootIfZero(At(l).first) = b
    <3>1. At(l).first = b /\ b \in Clusters
      BY <2>1, <2>2, <2>4, DirClusters DEF Home
    <3> QED
      BY <3>1, ClusterFacts DEF RootIfZero
  <2> QED
    BY <2>1, <2>9, <2>10, <2>11 DEF b
<1>5. Leads(W, p)
  BY <1>3, <1>4 DEF Leads
<1>6. D \in SUBSET Clusters /\ NotFound \notin D
  <2>1. D \in SUBSET Clusters
    BY DirClusters
  <2> QED
    BY <2>1, ClusterFacts DEF NotFound
<1>7. get_path_cluster(Root, [absolute |-> TRUE, parts |-> p]) = W[Len(p)]
  BY <1>2, <1>3, <1>5, <1>6, WayDown
<1> QED
  BY <1>2, <1>3, <1>7 DEF p

LEMMA PwdAstray ==
  ASSUME FatInv, NEW D, Consistent(D), \A b \in D : Neat(fat, disk, b),
         NEW c \in D, ~Rooted(PwdDepth, c)
  PROVE  Head(pwd(c)) \in {Unknown, Astray}
<1> DEFINE s == Climbs[PwdDepth][c]  W == Way(Root, s)  E == D \ {Root}  p == pwd(c)
<1>1. /\ s \in Seq(E)
      /\ p = [i \in 1 .. Len(s) |-> find_dirname_in_parent(W[i - 1], W[i])]
  BY PwdNames
<1>2. s = <<>> <=> c = Root
  <2>1. PwdDepth \in 0 .. PwdDepth /\ PwdDepth # 0
    BY Fat32Assumption
  <2>2. GoodClimb(D, PwdDepth, c)
    BY <2>1, Climbing
  <2> QED
    BY <2>1, <2>2, Zenon DEF GoodClimb
<1>3. c # Root /\ (s # <<>> => Up(s[Len(s)]) # Root)
  BY DEF Rooted
<1> HIDE DEF s, p
<1>4. Len(s) \in Nat /\ s # <<>> /\ Len(s) # 0
  BY <1>1, <1>2, <1>3
<1>5. W[0] = Root /\ W[1] = s[Len(s)] /\ 1 \in 1 .. Len(s) /\ s[Len(s)] \in E
  BY <1>1, <1>4 DEF Way
<1> HIDE DEF W
<1>6. p[1] = find_dirname_in_parent(Root, s[Len(s)]) /\ Head(p) = p[1]
  BY <1>1, <1>5
<1>7. Up(s[Len(s)]) # Root
  BY <1>3, <1>4
<1>8. find_dirname_in_parent(Root, s[Len(s)]) \in {Unknown, Astray}
  BY <1>5, <1>7, NotInRoot
<1> QED
  BY <1>6, <1>8 DEF p

(* pwd prints a path that leads back from the root to where the shell is,  *)
(* whatever the volume and the stack of fat32_pwd, as long as directories  *)
(* are named by a stem alone; of one too deep for the stack it never       *)
(* prints the path of another.                                             *)
THEOREM PwdIsRight ==
  ASSUME NoExtensions
  PROVE  Spec => []PwdLeadsBack
<1>1. FatInv /\ PathInv => PwdLeadsBack
  <2> SUFFICES ASSUME FatInv, PathInv, ~poisoned, cwd \in Dirs
               PROVE  IF \E n \in DOMAIN DirsWithin : n <= PwdDepth /\ cwd \in DirsWithin[n]
                      THEN get_path_cluster(Root, [absolute |-> TRUE, parts |-> pwd(cwd)]) = cwd
                      ELSE Head(pwd(cwd)) \in {Unknown, Astray}
    BY Zenon DEF PwdLeadsBack
  <2>1. PICK D \in SUBSET Clusters : /\ Consistent(D)
                                     /\ \A c \in D : Tidy(fat, disk, c) /\ Neat(fat, disk, c)
    BY DEF PathInv
  <2>2. cwd \in D /\ PwdDepth \in 0 .. PwdDepth
    BY <2>1, TreePlaced, Fat32Assumption
  <2>3. DOMAIN DirsWithin = 0 .. Cardinality(Clusters)
    BY DirsRecursion
  <2>4. CASE Rooted(PwdDepth, cwd)
    <3>1. get_path_cluster(Root, [absolute |-> TRUE, parts |-> pwd(cwd)]) = cwd
      BY <2>1, <2>2, <2>4, PwdResolves
    <3>2. \E n \in DOMAIN DirsWithin : n <= PwdDepth /\ cwd \in DirsWithin[n]
      BY <2>1, <2>2, <2>3, <2>4, RootedWithin
    <3> QED
      BY <3>1, <3>2
  <2>5. CASE ~Rooted(PwdDepth, cwd)
    <3>1. Head(pwd(cwd)) \in {Unknown, Astray}
      BY <2>1, <2>2, <2>5, PwdAstray
    <3>2. ~\E n \in DOMAIN DirsWithin : n <= PwdDepth /\ cwd \in DirsWithin[n]
      BY <2>1, <2>2, <2>3, <2>5, WithinRooted
    <3> QED
      BY <3>1, <3>2
  <2> QED
    BY <2>4, <2>5
<1> QED
  BY <1>1, PathAlways, PTL
=============================================================================
