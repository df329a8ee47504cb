---------------------------- MODULE LoaderProofs ----------------------------
(***************************************************************************)
(* Proofs about Paging.tla and Loader.tla, for address spaces, kernels and *)
(* programs of every size.  First, programs behind the identity map: one   *)
(* that fits is started as its headers describe it.  Then, programs that   *)
(* lie anywhere: no page of a program shares its frame, and no page of the *)
(* identity map is changed that the program does not ask for.              *)
(***************************************************************************)
EXTENDS Loader, FiniteSetTheorems, Arithmetic

Dirs == 0 .. VirtualPages \div Words - 1

(* The pages behind the identity map, which programs use.                  *)
HighPages == IdentityPages .. VirtualPages - 1

(* The first frame that paging_init leaves free.                           *)
First == (KernelEnd + Words - 1) \div Words

Entries == [frame : Frames, user : BOOLEAN]

(* What a word of memory can hold.                                         *)
Contents == {Zero, Junk} \cup Entries \cup [from : Nat, word : Nat]

(* A state of memory.  Frames are handed out from below, so the used ones  *)
(* are the first n.                                                        *)
Shape(m) ==
  /\ m \in [phys : [Frames -> [Offsets -> Contents]], used : SUBSET Nat,
            dir : [Dirs -> Frames \cup {NoFrame}], fault : BOOLEAN]
  /\ \E n \in First .. TotalFrames : m.used = 0 .. n - 1

(* The static tables are in place and hold the identity map.               *)
IdentityMap(m) ==
  \A d \in Dirs : d < StaticTables =>
    /\ m.dir[d] = StaticTable(d)
    /\ \A o \in Offsets : m.phys[StaticTable(d)][o] = Entry(d * Words + o, FALSE)

(* The other tables are frames of their own, taken after the start.        *)
OwnTables(m) ==
  /\ \A d \in Dirs : d >= StaticTables /\ m.dir[d] # NoFrame => m.dir[d] \in m.used \ ReservedFrames
  /\ \A d, e \in Dirs : m.dir[d] = m.dir[e] /\ m.dir[d] # NoFrame => d = e

IsTable(m, f) == \E d \in Dirs : m.dir[d] = f

(* A page of a program has a frame taken after the start, which is no      *)
(* table and is no other page's.                                           *)
OwnFrames(m) ==
  /\ \A p \in HighPages : Lookup(m, p) # Zero =>
       /\ Lookup(m, p).user = TRUE
       /\ FrameOf(m, p) \in m.used \ ReservedFrames
       /\ ~IsTable(m, FrameOf(m, p))
  /\ \A p, q \in HighPages :
       Lookup(m, p) # Zero /\ Lookup(m, q) # Zero /\ FrameOf(m, p) = FrameOf(m, q) => p = q

(* A frame that was never taken was never written: a table that starts out *)
(* uncleared maps nothing.                                                 *)
Unwritten(m) == \A f \in Frames \ m.used : \A o \in Offsets : m.phys[f][o] = Junk

Good(m) == Shape(m) /\ IdentityMap(m) /\ OwnTables(m) /\ OwnFrames(m) /\ Unwritten(m)

(* A frame that is taken and not yet used for anything.                    *)
Spare(m, f) == /\ f \in m.used \ ReservedFrames /\ f \in Frames /\ ~IsTable(m, f)
               /\ \A p \in HighPages : Lookup(m, p) # Zero => FrameOf(m, p) # f
-----------------------------------------------------------------------------
LEMMA Sizes ==
  /\ Words \in Nat \ {0} /\ StaticTables \in Nat \ {0} /\ KernelEnd \in Nat
  /\ TotalFrames \in Nat /\ VirtualPages \in Nat /\ IdentityPages \in Nat
  /\ IdentityPages = StaticTables * Words /\ IdentityPages <= TotalFrames
  /\ TotalFrames <= VirtualPages /\ NoFrame \notin Frames
  /\ Zero \notin Entries /\ Junk \notin Entries
<1>1. /\ Words \in Nat \ {0} /\ StaticTables \in Nat \ {0} /\ KernelEnd \in Nat
      /\ TotalFrames \in Nat /\ VirtualPages \in Nat
      /\ IdentityPages <= TotalFrames /\ TotalFrames <= VirtualPages /\ NoFrame \notin Frames
  BY PagingAssumption DEF Frames
<1>2. IdentityPages \in Nat /\ IdentityPages = StaticTables * Words
  BY <1>1 DEF IdentityPages
<1>3. \A e \in Entries : e \in [frame : 0 .. VirtualPages - 1, user : BOOLEAN]
  BY <1>1 DEF Entries, Frames
<1>4. Zero \notin Entries /\ Junk \notin Entries
  BY <1>3, PagingAssumption
<1> QED
  BY <1>1, <1>2, <1>4

(* Where the reserved frames end: behind the kernel and its tables, and    *)
(* inside of the identity map.                                             *)
LEMMA FirstFree ==
  /\ First \in Nat /\ ReservedFrames = 0 .. First - 1
  /\ StaticTables + 1 < First /\ First <= IdentityPages
  /\ \A f \in Nat : f >= First => f * Words >= KernelEnd
<1> DEFINE n == KernelEnd + Words - 1
<1>1. n \in Nat /\ Words \in Nat \ {0} /\ StaticTables \in Nat /\ KernelEnd \in Nat
  BY Sizes
<1>2. First = n \div Words
  BY DEF First
<1> HIDE DEF n
<1>3. First \in Nat /\ n % Words \in Nat /\ n = Words * First + (n % Words) /\ n % Words < Words
  BY <1>1, <1>2, DivMod
<1>4. ReservedFrames = 0 .. First - 1
  BY DEF ReservedFrames, First
<1>5. KernelEnd <= Words * First
  BY <1>1, <1>3 DEF n
<1>6. \A f \in Nat : f >= First => f * Words >= KernelEnd
  <2> SUFFICES ASSUME NEW f \in Nat, f >= First PROVE f * Words >= KernelEnd
    OBVIOUS
  <2>1. Words * First <= Words * f
    BY <1>1, <1>3, MulMono
  <2>2. Words * f = f * Words /\ Words * First \in Nat /\ f * Words \in Nat
    BY <1>1, <1>3
  <2> QED
    BY <1>1, <1>5, <2>1, <2>2
<1>7. StaticTables + 1 < First
  <2> SUFFICES ASSUME First <= StaticTables + 1 PROVE FALSE
    BY <1>1, <1>3
  <2>1. Words * First <= Words * (StaticTables + 1)
    BY <1>1, <1>3, MulMono
  <2>2. Words * (StaticTables + 1) = (StaticTables + 1) * Words /\ Words * First \in Nat
    BY <1>1, <1>3
  <2>3. KernelEnd > (StaticTables + 1) * Words
    BY PagingAssumption
  <2> QED
    BY <1>1, <1>5, <2>1, <2>2, <2>3
<1>8. First <= IdentityPages
  <2>0. IdentityPages \in Nat
    BY Sizes
  <2> SUFFICES ASSUME IdentityPages + 1 <= First PROVE FALSE
    BY <1>3, <2>0
  <2>1. Words * (IdentityPages + 1) <= Words * First
    BY <1>1, <1>3, <2>0, MulMono
  <2>2. Words * (IdentityPages + 1) = IdentityPages * Words + Words
    BY <1>1, <2>0
  <2>3. KernelEnd <= IdentityPages * Words
    BY PagingAssumption
  <2> QED
    BY <1>1, <1>3, <2>0, <2>1, <2>2, <2>3 DEF n
<1> QED
  BY <1>3, <1>4, <1>6, <1>7, <1>8

(* The place of a page in the tables.                                      *)
LEMMA PagePlace ==
  ASSUME NEW p \in Pages
  PROVE  /\ p \in Nat /\ p \div Words \in Dirs /\ p % Words \in Offsets
         /\ p = (p \div Words) * Words + (p % Words)
         /\ p < IdentityPages <=> p \div Words < StaticTables
<1> DEFINE d == p \div Words
           v == VirtualPages \div Words
<1>1. Words \in Nat \ {0} /\ VirtualPages \in Nat /\ StaticTables \in Nat /\ p \in Nat /\ p < VirtualPages
  BY Sizes DEF Pages
<1>2. d \in Nat /\ p % Words \in Nat /\ p = Words * d + (p % Words) /\ p % Words < Words
  BY <1>1, DivMod
<1>3. v \in Nat /\ VirtualPages = Words * v
  BY <1>1, DivMod, PagingAssumption
<1> HIDE DEF d, v
<1>4. d < v
  <2> SUFFICES ASSUME v <= d PROVE FALSE
    BY <1>2, <1>3
  <2>1. Words * v <= Words * d
    BY <1>1, <1>2, <1>3, MulMono
  <2>2. Words * v \in Nat /\ Words * d \in Nat
    BY <1>1, <1>2, <1>3
  <2> QED
    BY <1>1, <1>2, <1>3, <2>1, <2>2
<1>5. Words * d = d * Words
  BY <1>1, <1>2
<1>6. IdentityPages = Words * StaticTables
  BY <1>1 DEF IdentityPages
<1>7. ASSUME d < StaticTables PROVE p < IdentityPages
  <2>1. Words * (d + 1) <= Words * StaticTables /\ Words * (d + 1) = Words * d + Words
    BY <1>1, <1>2, <1>7, MulMono
  <2> QED
    BY <1>1, <1>2, <1>6, <2>1
<1>8. ASSUME StaticTables <= d PROVE ~(p < IdentityPages)
  <2>1. Words * StaticTables <= Words * d
    BY <1>1, <1>2, <1>8, MulMono
  <2>2. Words * StaticTables \in Nat /\ Words * d \in Nat
    BY <1>1, <1>2
  <2> QED
    BY <1>1, <1>2, <1>6, <2>1, <2>2
<1>9. d \in Dirs /\ p % Words \in Offsets
  BY <1>1, <1>2, <1>3, <1>4 DEF Dirs, Offsets, v
<1> QED
  BY <1>1, <1>2, <1>5, <1>7, <1>8, <1>9 DEF d

(* A word address and the page it lies on.                                 *)
LEMMA WordPlace ==
  ASSUME NEW p \in Nat, NEW o \in Offsets
  PROVE  /\ p * Words + o \in Nat
         /\ (p * Words + o) \div Words = p /\ (p * Words + o) % Words = o
<1>1. Words \in Nat \ {0} /\ o \in Nat /\ o < Words
  BY Sizes DEF Offsets
<1>2. p * Words + o \in Nat /\ p * Words + o = Words * p + o
  BY <1>1
<1> QED
  BY <1>1, <1>2, DivUnique

LEMMA LowPages == \A p \in 0 .. IdentityPages - 1 : p \in Pages /\ p \in Frames
  BY Sizes DEF Pages, Frames

LEMMA PagesAreLowOrHigh == Pages = (0 .. IdentityPages - 1) \cup HighPages
  BY Sizes DEF Pages, HighPages

LEMMA EntryIs ==
  ASSUME NEW w \in Contents
  PROVE  IsEntry(w) <=> w \in Entries
<1>1. CASE w \in {Zero, Junk}
  BY <1>1, Sizes DEF IsEntry
<1>2. CASE w \in Entries
  BY <1>2, Sizes DEF IsEntry, Entries
<1>3. CASE w \in [from : Nat, word : Nat]
  BY <1>3 DEF IsEntry, Entries
<1> QED
  BY <1>1, <1>2, <1>3 DEF Contents

LEMMA EntryType ==
  ASSUME NEW f \in Frames, NEW u \in BOOLEAN
  PROVE  /\ Entry(f, u) \in Entries /\ Entry(f, u) \in Contents
         /\ Entry(f, u).frame = f /\ Entry(f, u).user = u /\ Entry(f, u) # Zero
<1>1. Entry(f, u) \in Entries
  BY DEF Entry, Entries
<1>2. Entry(f, u).frame = f /\ Entry(f, u).user = u
  BY DEF Entry
<1> QED
  BY <1>1, <1>2, Sizes DEF Contents

(* What the processor finds for a page.                                    *)
LEMMA LookupIs ==
  ASSUME NEW m, Shape(m), NEW p \in Pages
  PROVE  LET t == m.dir[p \div Words]
             w == m.phys[t][p % Words]
         IN /\ t \in Frames \cup {NoFrame}
            /\ t = NoFrame => Lookup(m, p) = Zero
            /\ t # NoFrame => /\ w \in Contents
                              /\ Lookup(m, p) = IF w \in Entries THEN w ELSE Zero
            /\ Lookup(m, p) # Zero => /\ t # NoFrame /\ Lookup(m, p) = w
                                      /\ Lookup(m, p) \in Entries
                                      /\ FrameOf(m, p) = Lookup(m, p).frame
                                      /\ FrameOf(m, p) \in Frames
            /\ Lookup(m, p) = Zero => FrameOf(m, p) = NoFrame
<1> DEFINE t == m.dir[p \div Words]
           w == m.phys[t][p % Words]
<1>1. t \in Frames \cup {NoFrame}
  BY PagePlace DEF Shape
<1>2. t # NoFrame => w \in Contents
  BY <1>1, PagePlace DEF Shape
<1>3. Lookup(m, p) = IF t = NoFrame THEN Zero ELSE IF IsEntry(w) THEN w ELSE Zero
  BY DEF Lookup
<1> HIDE DEF t, w
<1>4. t # NoFrame => Lookup(m, p) = IF w \in Entries THEN w ELSE Zero
  BY <1>2, <1>3, EntryIs
<1>5. Lookup(m, p) # Zero => t # NoFrame /\ Lookup(m, p) = w /\ Lookup(m, p) \in Entries
  BY <1>3, <1>4
<1>6. FrameOf(m, p) = IF Lookup(m, p) = Zero THEN NoFrame ELSE Lookup(m, p).frame
  BY DEF FrameOf
<1>7. Lookup(m, p) # Zero => FrameOf(m, p) = Lookup(m, p).frame /\ FrameOf(m, p) \in Frames
  BY <1>5, <1>6 DEF Entries
<1> QED
  BY <1>1, <1>2, <1>3, <1>4, <1>5, <1>6, <1>7 DEF t, w

LEMMA StaticFrame ==
  ASSUME NEW d \in Dirs, d < StaticTables
  PROVE  StaticTable(d) \in Frames /\ StaticTable(d) # NoFrame /\ StaticTable(d) < First
         /\ StaticTable(d) \in Nat
<1>1. StaticTable(d) \in Frames /\ StaticTable(d) < First /\ StaticTable(d) \in Nat
  BY Sizes, FirstFree DEF StaticTable, Frames, Dirs
<1> QED
  BY <1>1, Sizes

(* Low pages are translated to themselves.                                 *)
LEMMA LowLookup ==
  ASSUME NEW m, Shape(m), IdentityMap(m), NEW p \in 0 .. IdentityPages - 1
  PROVE  Lookup(m, p) = Entry(p, FALSE) /\ FrameOf(m, p) = p /\ p \in Frames /\ p \in Pages
<1> DEFINE d == p \div Words
           o == p % Words
<1>1. p \in Pages /\ p \in Frames
  BY LowPages
<1>2. /\ d \in Dirs /\ o \in Offsets /\ p = d * Words + o
      /\ d < StaticTables
  BY <1>1, PagePlace, Sizes
<1> HIDE DEF d, o
<1>3. m.dir[d] = StaticTable(d) /\ m.phys[StaticTable(d)][o] = Entry(p, FALSE)
  BY <1>2 DEF IdentityMap
<1>4. Entry(p, FALSE) \in Entries /\ Entry(p, FALSE) # Zero /\ Entry(p, FALSE).frame = p
  BY <1>1, EntryType
<1>5. StaticTable(d) # NoFrame
  <2>1. StaticTable(d) \in Frames
    BY <1>2, Sizes, FirstFree DEF StaticTable, Frames, Dirs
  <2> QED
    BY <2>1, Sizes
<1>6. Lookup(m, p) = Entry(p, FALSE)
  BY <1>1, <1>3, <1>4, <1>5, LookupIs DEF d, o
<1> QED
  BY <1>1, <1>4, <1>6 DEF FrameOf
-----------------------------------------------------------------------------
LEMMA MaxOfOne == ASSUME NEW x \in Nat PROVE Max({x}) = x
  BY DEF Max

(* Stores to these addresses hit a word each.                              *)
Apart(m, D) ==
  /\ D \in SUBSET Nat /\ \A w \in D : w \div Words \in Pages
  /\ \A w, v \in D : /\ FrameOf(m, w \div Words) = FrameOf(m, v \div Words)
                     /\ w % Words = v % Words
                     => w = v

(* They fault and change nothing, or every word arrives; and nothing else  *)
(* is changed.                                                             *)
Stored(m, D, val, r) ==
  /\ Shape(r) /\ r.used = m.used /\ r.dir = m.dir
  /\ (\E w \in D : FrameOf(m, w \div Words) = NoFrame) => r.phys = m.phys /\ r.fault = TRUE
  /\ (\A w \in D : FrameOf(m, w \div Words) # NoFrame) =>
       /\ r.fault = m.fault
       /\ \A w \in D : r.phys[FrameOf(m, w \div Words)][w % Words] = val[w]
  /\ \A f \in Frames, o \in Offsets :
       \/ r.phys[f][o] = m.phys[f][o]
       \/ \E w \in D : /\ FrameOf(m, w \div Words) = f /\ w % Words = o
                       /\ r.phys[f][o] = val[w]

LEMMA StoresEffect ==
  ASSUME NEW m, Shape(m), NEW D, Apart(m, D), NEW val \in [D -> Contents]
  PROVE  Stored(m, D, val, Stores(m, val))
<1> USE DEF Apart
<1> DEFINE to == [w \in D |-> FrameOf(m, w \div Words)]
           at(f, o) == {w \in D : to[w] = f /\ w % Words = o}
           new(f) == [o \in Offsets |-> IF at(f, o) = {} THEN m.phys[f][o] ELSE val[Max(at(f, o))]]
           ph == [f \in Frames |-> IF \E w \in D : to[w] = f THEN new(f) ELSE m.phys[f]]
           r == Stores(m, val)
<1>0. DOMAIN val = D
  OBVIOUS
<1>1. r = IF \E w \in D : to[w] = NoFrame THEN [m EXCEPT !.fault = TRUE] ELSE [m EXCEPT !.phys = ph]
  BY <1>0 DEF Stores
<1>2. \A w \in D : to[w] = FrameOf(m, w \div Words)
  OBVIOUS
<1>3. m.phys \in [Frames -> [Offsets -> Contents]]
  BY DEF Shape
<1>4. \A f \in Frames, o \in Offsets : \A w \in at(f, o) : at(f, o) = {w} /\ Max(at(f, o)) = w
  <2> SUFFICES ASSUME NEW f \in Frames, NEW o \in Offsets, NEW w \in at(f, o)
               PROVE  at(f, o) = {w} /\ Max(at(f, o)) = w
    OBVIOUS
  <2>1. \A v \in at(f, o) : v = w
    BY <1>2
  <2>2. at(f, o) = {w}
    BY <2>1
  <2> QED
    BY <2>2, MaxOfOne
<1> HIDE DEF to
<1>5. \A f \in Frames, o \in Offsets :
        /\ at(f, o) = {} => new(f)[o] = m.phys[f][o]
        /\ \A w \in at(f, o) : new(f)[o] = val[w]
  BY <1>4
<1>6. \A f \in Frames : new(f) \in [Offsets -> Contents]
  <2> SUFFICES ASSUME NEW f \in Frames, NEW o \in Offsets
               PROVE  (IF at(f, o) = {} THEN m.phys[f][o] ELSE val[Max(at(f, o))]) \in Contents
    OBVIOUS
  <2>1. CASE at(f, o) = {}
    BY <1>3, <2>1
  <2>2. CASE at(f, o) # {}
    <3>1. PICK w \in at(f, o) : TRUE
      BY <2>2
    <3>2. Max(at(f, o)) = w /\ w \in D
      BY <1>4, <3>1
    <3> QED
      BY <2>2, <3>2
  <2> QED
    BY <2>1, <2>2
<1> HIDE DEF new
<1>7. ph \in [Frames -> [Offsets -> Contents]]
  BY <1>3, <1>6
<1>8. \A f \in Frames, o \in Offsets :
        /\ at(f, o) = {} => ph[f][o] = m.phys[f][o]
        /\ \A w \in at(f, o) : ph[f][o] = val[w]
  BY <1>5
<1> HIDE DEF ph, r
<1>9. CASE \E w \in D : to[w] = NoFrame
  <2>1. r = [m EXCEPT !.fault = TRUE]
    BY <1>1, <1>9
  <2>2. r.phys = m.phys /\ r.used = m.used /\ r.dir = m.dir /\ r.fault = TRUE /\ Shape(r)
    BY <2>1 DEF Shape
  <2> QED
    BY <1>2, <1>9, <2>2 DEF r, Stored
<1>10. CASE ~(\E w \in D : to[w] = NoFrame)
  <2>1. r = [m EXCEPT !.phys = ph]
    BY <1>1, <1>10
  <2>2. r.phys = ph /\ r.used = m.used /\ r.dir = m.dir /\ r.fault = m.fault /\ Shape(r)
    BY <1>7, <2>1 DEF Shape
  <2>3. \A w \in D : r.phys[FrameOf(m, w \div Words)][w % Words] = val[w]
    <3> SUFFICES ASSUME NEW w \in D PROVE r.phys[to[w]][w % Words] = val[w]
      BY <1>2
    <3>1. to[w] \in Frames
      BY <1>2, <1>10, LookupIs
    <3>2. w % Words \in Offsets
      BY Sizes, DivMod DEF Offsets
    <3>3. w \in at(to[w], w % Words)
      OBVIOUS
    <3> QED
      BY <1>8, <2>2, <3>1, <3>2, <3>3
  <2>4. \A f \in Frames, o \in Offsets :
          \/ r.phys[f][o] = m.phys[f][o]
          \/ \E w \in D : /\ FrameOf(m, w \div Words) = f /\ w % Words = o
                          /\ r.phys[f][o] = val[w]
    <3> SUFFICES ASSUME NEW f \in Frames, NEW o \in Offsets, at(f, o) # {}
                 PROVE  \E w \in D : /\ to[w] = f /\ w % Words = o /\ r.phys[f][o] = val[w]
      BY <1>2, <1>8, <2>2
    <3>1. PICK w \in at(f, o) : TRUE
      OBVIOUS
    <3>2. r.phys[f][o] = val[w]
      BY <1>8, <2>2, <3>1
    <3> QED
      BY <3>1, <3>2
  <2> QED
    BY <1>2, <1>10, <2>2, <2>3, <2>4 DEF r, Stored
<1> QED
  BY <1>9, <1>10

(* Memory of which the tables are the same translates the same.            *)
LEMMA SameLookup ==
  ASSUME NEW m, NEW r, Shape(m), Shape(r), r.dir = m.dir,
         \A d \in Dirs : m.dir[d] # NoFrame => r.phys[m.dir[d]] = m.phys[m.dir[d]],
         NEW p \in Pages
  PROVE  Lookup(r, p) = Lookup(m, p) /\ FrameOf(r, p) = FrameOf(m, p)
<1>1. p \div Words \in Dirs
  BY PagePlace
<1>2. Lookup(r, p) = Lookup(m, p)
  BY <1>1 DEF Lookup
<1> QED
  BY <1>2 DEF FrameOf

(* So it is good when the other was, and nothing free was written.         *)
LEMMA SameTablesGood ==
  ASSUME NEW m, NEW r, Good(m), Shape(r), r.dir = m.dir, m.used \subseteq r.used,
         \A d \in Dirs : m.dir[d] # NoFrame => r.phys[m.dir[d]] = m.phys[m.dir[d]],
         Unwritten(r)
  PROVE  Good(r)
<1>0. Shape(m)
  BY DEF Good
<1>1. \A p \in Pages : Lookup(r, p) = Lookup(m, p) /\ FrameOf(r, p) = FrameOf(m, p)
  BY <1>0, SameLookup
<1>2. \A p \in HighPages : p \in Pages
  BY PagesAreLowOrHigh
<1>3. IdentityMap(r)
  <2> SUFFICES ASSUME NEW d \in Dirs, d < StaticTables
               PROVE  /\ r.dir[d] = StaticTable(d)
                      /\ \A o \in Offsets : r.phys[StaticTable(d)][o] = Entry(d * Words + o, FALSE)
    BY DEF IdentityMap
  <2>1. m.dir[d] = StaticTable(d) /\ \A o \in Offsets : m.phys[StaticTable(d)][o] = Entry(d * Words + o, FALSE)
    BY DEF Good, IdentityMap
  <2>2. StaticTable(d) \in Frames
    BY Sizes, FirstFree DEF StaticTable, Frames, Dirs
  <2>3. StaticTable(d) # NoFrame
    BY <2>2, Sizes
  <2> QED
    BY <2>1, <2>3
<1>4. OwnTables(r)
  BY DEF Good, OwnTables
<1>5. OwnFrames(r)
  BY <1>1, <1>2 DEF Good, OwnFrames, IsTable
<1> QED
  BY <1>3, <1>4, <1>5 DEF Good
-----------------------------------------------------------------------------
(* alloc_frame gives the frame behind the used ones.                       *)
LEMMA NextFrame ==
  ASSUME NEW m, NEW n \in First .. TotalFrames, m.used = 0 .. n - 1
  PROVE  /\ FreeFrames(m) = {} <=> n = TotalFrames
         /\ n < TotalFrames => Min(FreeFrames(m)) = n
<1>0. First \in Nat /\ TotalFrames \in Nat
  BY Sizes, FirstFree
<1>1. FreeFrames(m) = n .. TotalFrames - 1
  BY <1>0 DEF FreeFrames, Frames
<1>2. ASSUME n < TotalFrames PROVE Min(FreeFrames(m)) = n
  <2>1. n \in FreeFrames(m) /\ FreeFrames(m) \in SUBSET Nat /\ \A y \in FreeFrames(m) : n <= y
    BY <1>0, <1>1, <1>2
  <2>2. Min(FreeFrames(m)) \in FreeFrames(m) /\ \A y \in FreeFrames(m) : Min(FreeFrames(m)) <= y
    BY <2>1, MinNat
  <2>3. Min(FreeFrames(m)) <= n /\ n <= Min(FreeFrames(m)) /\ Min(FreeFrames(m)) \in Nat
    BY <2>1, <2>2
  <2> QED
    BY <1>0, <2>3
<1> QED
  BY <1>0, <1>1, <1>2

LEMMA Allocated ==
  ASSUME NEW m, Good(m), NEW n \in First .. TotalFrames, m.used = 0 .. n - 1, n < TotalFrames
  PROVE  LET r == Allocate(m, n)
         IN /\ Good(r) /\ r.used = 0 .. n /\ Spare(r, n)
            /\ r.phys = m.phys /\ r.dir = m.dir /\ r.fault = m.fault
            /\ \A o \in Offsets : r.phys[n][o] = Junk
            /\ \A p \in Pages : Lookup(r, p) = Lookup(m, p) /\ FrameOf(r, p) = FrameOf(m, p)
<1> DEFINE r == Allocate(m, n)
<1>0. First \in Nat /\ TotalFrames \in Nat /\ n \in Frames /\ n \notin m.used /\ n \notin ReservedFrames
  BY Sizes, FirstFree DEF Frames
<1>1. Shape(m)
  BY DEF Good
<1>2. m.used \cup {n} = 0 .. (n + 1) - 1 /\ n + 1 \in First .. TotalFrames
  BY <1>0
<1>3. r = [m EXCEPT !.used = 0 .. (n + 1) - 1]
  BY <1>2 DEF Allocate
<1>4. r.phys = m.phys /\ r.dir = m.dir /\ r.fault = m.fault /\ r.used = 0 .. (n + 1) - 1
  BY <1>1, <1>3 DEF Shape
<1>5. Shape(r)
  <2>1. 0 .. (n + 1) - 1 \in SUBSET Nat
    BY <1>0
  <2>2. r \in [phys : [Frames -> [Offsets -> Contents]], used : SUBSET Nat,
               dir : [Dirs -> Frames \cup {NoFrame}], fault : BOOLEAN]
    BY <1>1, <1>3, <2>1 DEF Shape
  <2> QED
    BY <1>2, <1>4, <2>2 DEF Shape
<1> HIDE DEF r
<1>6. m.used \subseteq r.used /\ n \in r.used /\ 0 .. (n + 1) - 1 = 0 .. n
  BY <1>0, <1>4
<1>7. Unwritten(r)
  BY <1>4, <1>6 DEF Good, Unwritten
<1>8. Good(r)
  BY <1>4, <1>5, <1>6, <1>7, SameTablesGood
<1>9. \A p \in Pages : Lookup(r, p) = Lookup(m, p) /\ FrameOf(r, p) = FrameOf(m, p)
  BY <1>1, <1>4, <1>5, SameLookup
<1>10. \A o \in Offsets : r.phys[n][o] = Junk
  BY <1>0, <1>4 DEF Good, Unwritten
<1>11. ~IsTable(m, n)
  <2> SUFFICES ASSUME NEW d \in Dirs, m.dir[d] = n PROVE FALSE
    BY DEF IsTable
  <2>1. n # NoFrame
    BY <1>0, Sizes
  <2>2. CASE d >= StaticTables
    BY <1>0, <2>1, <2>2 DEF Good, OwnTables
  <2>3. CASE d < StaticTables
    <3>1. n = 1 + d
      BY <2>3 DEF Good, IdentityMap, StaticTable
    <3> QED
      BY <1>0, <2>3, <3>1, FirstFree, Sizes DEF Dirs
  <2> QED
    BY <2>2, <2>3, Sizes DEF Dirs
<1>12. \A p \in HighPages : Lookup(r, p) # Zero => FrameOf(r, p) # n
  BY <1>0, <1>9, PagesAreLowOrHigh DEF Good, OwnFrames
<1>13. Spare(r, n)
  BY <1>0, <1>4, <1>6, <1>11, <1>12 DEF Spare, IsTable
<1> QED
  BY <1>4, <1>6, <1>8, <1>9, <1>10, <1>13 DEF r

LEMMA FramesArePages == Frames \subseteq Pages
  BY Sizes DEF Frames, Pages

(* A table is one of the kernel's, or taken after the start.               *)
LEMMA TablesAreUsed ==
  ASSUME NEW m, Good(m), NEW d \in Dirs, m.dir[d] # NoFrame
  PROVE  m.dir[d] \in m.used /\ m.dir[d] \in Frames
<1>1. m.dir[d] \in Frames
  BY DEF Good, Shape
<1>2. CASE d >= StaticTables
  BY <1>1, <1>2 DEF Good, OwnTables
<1>3. CASE d < StaticTables
  <2>1. m.dir[d] = 1 + d
    BY <1>3 DEF Good, IdentityMap, StaticTable
  <2>2. PICK n \in First .. TotalFrames : m.used = 0 .. n - 1
    BY DEF Good, Shape
  <2> QED
    BY <1>1, <1>3, <2>1, <2>2, FirstFree, Sizes DEF Dirs
<1> QED
  BY <1>1, <1>2, <1>3, Sizes DEF Dirs

(* Clearing a frame that is used for nothing, by way of the page of the    *)
(* same number: below the identity map's end it clears that frame; behind  *)
(* it, another page of the program, or it faults.                          *)
LEMMA Cleared ==
  ASSUME NEW m, Good(m), NEW f, Spare(m, f)
  PROVE  LET r == ClearPage(m, f)
         IN /\ Good(r) /\ Spare(r, f) /\ r.dir = m.dir /\ r.used = m.used
            /\ \A p \in Pages : Lookup(r, p) = Lookup(m, p) /\ FrameOf(r, p) = FrameOf(m, p)
            /\ \A o \in Offsets : r.phys[f][o] \in {Zero, m.phys[f][o]}
            /\ f < IdentityPages => /\ r.fault = m.fault
                                    /\ \A o \in Offsets : r.phys[f][o] = Zero
                                    /\ \A g \in Frames \ {f} : r.phys[g] = m.phys[g]
<1> DEFINE D == f * Words .. f * Words + Words - 1
           val == [w \in D |-> Zero]
           r == ClearPage(m, f)
           g == FrameOf(m, f)
<1>0. Shape(m) /\ IdentityMap(m) /\ Words \in Nat \ {0} /\ f \in Frames /\ f \in Nat /\ f \in Pages
  BY Sizes, FramesArePages DEF Good, Spare, Frames
<1>1. \A w \in D : w \in Nat /\ w \div Words = f
  <2> SUFFICES ASSUME NEW w \in D PROVE w \in Nat /\ w \div Words = f
    OBVIOUS
  <2>1. f * Words \in Nat
    BY <1>0
  <2>2. w - f * Words \in Offsets /\ w = f * Words + (w - f * Words)
    BY <1>0, <2>1 DEF Offsets
  <2> QED
    BY <1>0, <2>2, WordPlace
<1>2. \A w, v \in D : w % Words = v % Words => w = v
  <2> SUFFICES ASSUME NEW w \in D, NEW v \in D, w % Words = v % Words PROVE w = v
    OBVIOUS
  <2>1. /\ w = Words * (w \div Words) + (w % Words)
        /\ v = Words * (v \div Words) + (v % Words)
    BY <1>0, <1>1, DivMod
  <2> QED
    BY <1>1, <2>1
<1>3. r = Stores(m, val) /\ val \in [D -> Contents] /\ D \in SUBSET Nat
  BY <1>1 DEF ClearPage, Contents
<1>4. \A o \in Offsets : f * Words + o \in D /\ (f * Words + o) % Words = o
  <2>1. \A o \in Offsets : f * Words + o \in D
    BY <1>0 DEF Offsets
  <2> QED
    BY <1>0, <2>1, WordPlace
<1>5. \A w \in D : val[w] = Zero
  OBVIOUS
<1>6. \E w \in D : TRUE
  <2>1. 0 \in Offsets
    BY <1>0 DEF Offsets
  <2> QED
    BY <1>4, <2>1
<1> HIDE DEF D, val, r
<1>7. Stored(m, D, val, r)
  <2>1. Apart(m, D)
    BY <1>0, <1>1, <1>2, <1>3 DEF Apart
  <2> QED
    BY <1>0, <1>3, <2>1, StoresEffect
<1> USE DEF Stored
<1>8. \A h \in Frames : h # g => r.phys[h] = m.phys[h]
  <2> SUFFICES ASSUME NEW h \in Frames, h # g PROVE r.phys[h] = m.phys[h]
    OBVIOUS
  <2>1. \A o \in Offsets : r.phys[h][o] = m.phys[h][o]
    BY <1>1, <1>7
  <2>2. r.phys[h] \in [Offsets -> Contents] /\ m.phys[h] \in [Offsets -> Contents]
    BY <1>0, <1>7 DEF Shape
  <2> QED
    BY <2>1, <2>2
<1>9. f < IdentityPages => g = f
  <2>1. f < IdentityPages => f \in 0 .. IdentityPages - 1
    BY <1>0, Sizes
  <2> QED
    BY <1>0, <2>1, LowLookup
<1>10. g # NoFrame => g \in m.used /\ ~IsTable(m, g) /\ (f >= IdentityPages => g # f)
  <2>1. CASE f < IdentityPages
    BY <1>0, <1>9, <2>1, Sizes DEF Spare
  <2>2. CASE f >= IdentityPages
    <3>1. f \in HighPages
      BY <1>0, <2>2, Sizes DEF HighPages, Pages
    <3>2. g # NoFrame => Lookup(m, f) # Zero
      BY <1>0, LookupIs
    <3> QED
      BY <3>1, <3>2 DEF Good, OwnFrames, Spare
  <2> QED
    BY <1>0, <2>1, <2>2, Sizes
<1>11. \A d \in Dirs : m.dir[d] # NoFrame => r.phys[m.dir[d]] = m.phys[m.dir[d]]
  <2> SUFFICES ASSUME NEW d \in Dirs, m.dir[d] # NoFrame PROVE r.phys[m.dir[d]] = m.phys[m.dir[d]]
    OBVIOUS
  <2>1. m.dir[d] \in Frames
    BY <1>0 DEF Shape
  <2>2. m.dir[d] # g
    BY <1>10 DEF IsTable
  <2> QED
    BY <1>8, <2>1, <2>2
<1>12. Unwritten(r)
  <2>1. \A h \in Frames \ r.used : h # g
    BY <1>7, <1>10, Sizes
  <2> QED
    BY <1>7, <1>8, <2>1 DEF Good, Unwritten
<1>13. Good(r)
  BY <1>7, <1>11, <1>12, SameTablesGood
<1>14. \A p \in Pages : Lookup(r, p) = Lookup(m, p) /\ FrameOf(r, p) = FrameOf(m, p)
  BY <1>0, <1>7, <1>11, SameLookup
<1>15. Spare(r, f)
  BY <1>7, <1>14, PagesAreLowOrHigh DEF Spare, IsTable
<1>16. \A o \in Offsets : r.phys[f][o] \in {Zero, m.phys[f][o]}
  BY <1>0, <1>5, <1>7
<1>17. ASSUME f < IdentityPages
       PROVE  /\ r.fault = m.fault
              /\ \A o \in Offsets : r.phys[f][o] = Zero
              /\ \A h \in Frames \ {f} : r.phys[h] = m.phys[h]
  <2>1. \A w \in D : FrameOf(m, w \div Words) = f /\ f # NoFrame
    BY <1>0, <1>1, <1>9, <1>17, Sizes
  <2>2. r.fault = m.fault /\ \A w \in D : r.phys[f][w % Words] = Zero
    BY <1>5, <1>7, <2>1
  <2> QED
    BY <1>4, <1>8, <1>9, <1>17, <2>2
<1> QED
  BY <1>7, <1>13, <1>14, <1>15, <1>16, <1>17 DEF r

(* Writing an entry of a program's table: below the end of the identity    *)
(* map it changes the translation of that page only; behind it, it writes  *)
(* to another page of the program, or faults.                              *)
EntryWritten(m, f, page, r) ==
  LET t == m.dir[page \div Words]
  IN /\ Good(r) /\ r.dir = m.dir /\ r.used = m.used
     /\ t < IdentityPages =>
          /\ r.fault = m.fault
          /\ Lookup(r, page) = Entry(f, TRUE) /\ FrameOf(r, page) = f
          /\ \A p \in Pages \ {page} : Lookup(r, p) = Lookup(m, p) /\ FrameOf(r, p) = FrameOf(m, p)
          /\ \A h \in Frames \ {t} : r.phys[h] = m.phys[h]

LEMMA Entered ==
  ASSUME NEW m, Good(m), NEW f, Spare(m, f), NEW page \in HighPages,
         m.dir[page \div Words] # NoFrame
  PROVE  EntryWritten(m, f, page, SetEntry(m, m.dir[page \div Words], page, f))
<1> DEFINE t == m.dir[page \div Words]
           o == page % Words
           a == t * Words + o
           D == {a}
           val == [w \in D |-> Entry(f, TRUE)]
           r == SetEntry(m, t, page, f)
           g == FrameOf(m, t)
<1>0. Shape(m) /\ IdentityMap(m) /\ page \in Pages /\ f \in Frames
  BY PagesAreLowOrHigh DEF Good, Spare
<1>1. page \div Words \in Dirs /\ o \in Offsets /\ page \div Words >= StaticTables
  BY <1>0, PagePlace, Sizes DEF HighPages, Dirs
<1>2. t \in Frames /\ t \in m.used /\ t \notin ReservedFrames /\ t \in Nat /\ t \in Pages
  BY <1>1, TablesAreUsed, FramesArePages DEF Good, OwnTables, Frames
<1>3. a \in Nat /\ a \div Words = t /\ a % Words = o
  BY <1>1, <1>2, WordPlace
<1>4. Entry(f, TRUE) \in Entries /\ Entry(f, TRUE) \in Contents /\ Entry(f, TRUE) # Zero
      /\ Entry(f, TRUE).frame = f /\ Entry(f, TRUE).user = TRUE
  BY <1>0, EntryType
<1>5. r = Stores(m, val)
  BY DEF SetEntry
<1>6. val \in [D -> Contents]
  BY <1>4
<1>7. val[a] = Entry(f, TRUE)
  OBVIOUS
<1> HIDE DEF o, a, val, r
<1>8. Stored(m, D, val, r)
  <2>1. Apart(m, D)
    BY <1>2, <1>3 DEF Apart
  <2> QED
    BY <1>0, <1>5, <1>6, <2>1, StoresEffect
<1> USE DEF Stored
<1>same. Shape(r) /\ r.dir = m.dir /\ r.used = m.used
  BY <1>8
<1>9. \A h \in Frames : h # g => r.phys[h] = m.phys[h]
  <2> SUFFICES ASSUME NEW h \in Frames, h # g PROVE r.phys[h] = m.phys[h]
    OBVIOUS
  <2>1. \A q \in Offsets : r.phys[h][q] = m.phys[h][q]
    BY <1>3, <1>8
  <2>2. r.phys[h] \in [Offsets -> Contents] /\ m.phys[h] \in [Offsets -> Contents]
    BY <1>0, <1>8 DEF Shape
  <2> QED
    BY <2>1, <2>2
<1> HIDE DEF Stored
<1>10. CASE t >= IdentityPages
  <2>1. t \in HighPages
    BY <1>2, <1>10, Sizes DEF HighPages, Pages
  <2>2. g # NoFrame => g \in m.used /\ ~IsTable(m, g)
    <3>1. g # NoFrame => Lookup(m, t) # Zero
      BY <1>0, <1>2, LookupIs
    <3> QED
      BY <2>1, <3>1 DEF Good, OwnFrames
  <2>3. \A d \in Dirs : m.dir[d] # NoFrame => r.phys[m.dir[d]] = m.phys[m.dir[d]]
    <3> SUFFICES ASSUME NEW d \in Dirs, m.dir[d] # NoFrame PROVE r.phys[m.dir[d]] = m.phys[m.dir[d]]
      OBVIOUS
    <3>1. m.dir[d] \in Frames
      BY <1>0 DEF Shape
    <3>2. m.dir[d] # g
      BY <2>2 DEF IsTable
    <3> QED
      BY <1>9, <3>1, <3>2
  <2>4. Unwritten(r)
    <3>1. \A h \in Frames \ r.used : h # g
      BY <1>same, <2>2, Sizes
    <3> QED
      BY <1>same, <1>9, <3>1 DEF Good, Unwritten
  <2>5. Good(r)
    BY <1>same, <2>3, <2>4, SameTablesGood
  <2>6. ~(t < IdentityPages)
    BY <1>2, <1>10, Sizes
  <2> QED
    BY <1>same, <2>5, <2>6 DEF r, EntryWritten
<1>11. CASE t < IdentityPages
  <2>1. g = t /\ t # NoFrame
    <3>1. t \in 0 .. IdentityPages - 1
      BY <1>2, <1>11, Sizes
    <3> QED
      BY <1>0, <3>1, LowLookup
  <2>2. \A w \in D : FrameOf(m, w \div Words) = t /\ w % Words = o /\ val[w] = Entry(f, TRUE)
    BY <1>3, <1>7, <2>1
  <2>3. r.fault = m.fault /\ r.phys[t][o] = Entry(f, TRUE)
    BY <1>8, <2>1, <2>2 DEF Stored
  <2>4. \A q \in Offsets : q # o => r.phys[t][q] = m.phys[t][q]
    BY <1>2, <1>8, <2>2 DEF Stored
  <2>5. Lookup(r, page) = Entry(f, TRUE) /\ FrameOf(r, page) = f
    <3>1. r.dir[page \div Words] = t /\ r.phys[t][page % Words] = Entry(f, TRUE)
      BY <1>same, <2>3 DEF o
    <3>2. Lookup(r, page) = Entry(f, TRUE)
      BY <1>0, <1>4, <1>same, <3>1, LookupIs, Zenon
    <3> QED
      BY <1>4, <3>2 DEF FrameOf
  <2>6. \A p \in Pages \ {page} : Lookup(r, p) = Lookup(m, p) /\ FrameOf(r, p) = FrameOf(m, p)
    <3> SUFFICES ASSUME NEW p \in Pages, p # page PROVE Lookup(r, p) = Lookup(m, p)
      BY DEF FrameOf
    <3> DEFINE s == m.dir[p \div Words]
    <3>1. p \div Words \in Dirs /\ p % Words \in Offsets /\ p = (p \div Words) * Words + (p % Words)
      BY PagePlace
    <3>2. page = (page \div Words) * Words + o
      BY <1>0, PagePlace DEF o
    <3>3. s \in Frames \cup {NoFrame}
      BY <1>0, <3>1 DEF Shape
    <3>4. s = t => p % Words # o
      BY <1>1, <3>1, <3>2 DEF Good, OwnTables
    <3>5. s # NoFrame => r.phys[s][p % Words] = m.phys[s][p % Words]
      BY <1>9, <2>1, <2>4, <3>1, <3>3, <3>4
    <3> QED
      BY <1>same, <3>5 DEF Lookup
  <2>7. IdentityMap(r)
    <3> SUFFICES ASSUME NEW d \in Dirs, d < StaticTables
                 PROVE  /\ r.dir[d] = StaticTable(d)
                        /\ \A q \in Offsets : r.phys[StaticTable(d)][q] = Entry(d * Words + q, FALSE)
      BY DEF IdentityMap
    <3>1. StaticTable(d) \in Frames /\ StaticTable(d) # t
      BY <1>2, StaticFrame, FirstFree
    <3>2. r.phys[StaticTable(d)] = m.phys[StaticTable(d)]
      BY <1>9, <2>1, <3>1
    <3> QED
      BY <1>0, <1>same, <3>2 DEF IdentityMap
  <2>8. OwnTables(r)
    BY <1>same DEF Good, OwnTables
  <2>9. OwnFrames(r)
    <3>1. \A p \in HighPages : p \in Pages
      BY PagesAreLowOrHigh
    <3>2. \A p \in HighPages : Lookup(r, p) # Zero =>
            /\ Lookup(r, p).user = TRUE
            /\ FrameOf(r, p) \in r.used \ ReservedFrames
            /\ ~IsTable(r, FrameOf(r, p))
      <4> SUFFICES ASSUME NEW p \in HighPages, Lookup(r, p) # Zero
                   PROVE  /\ Lookup(r, p).user = TRUE
                          /\ FrameOf(r, p) \in m.used \ ReservedFrames
                          /\ ~IsTable(m, FrameOf(r, p))
        BY <1>same DEF IsTable
      <4>1. CASE p = page
        BY <1>4, <2>5, <4>1 DEF Spare
      <4>2. CASE p # page
        BY <2>6, <3>1, <4>2 DEF Good, OwnFrames
      <4> QED
        BY <4>1, <4>2
    <3>3. \A p, q \in HighPages :
            Lookup(r, p) # Zero /\ Lookup(r, q) # Zero /\ FrameOf(r, p) = FrameOf(r, q) => p = q
      BY <2>5, <2>6, <3>1 DEF Good, OwnFrames, Spare
    <3> QED
      BY <3>2, <3>3 DEF OwnFrames
  <2>10. Unwritten(r)
    BY <1>2, <1>same, <1>9, <2>1 DEF Good, Unwritten
  <2>11. Good(r)
    BY <1>same, <2>7, <2>8, <2>9, <2>10 DEF Good
  <2> QED
    BY <1>same, <1>9, <2>1, <2>3, <2>5, <2>6, <2>11 DEF r, EntryWritten
<1>12. t < IdentityPages \/ t >= IdentityPages
  BY <1>2, Sizes
<1> QED
  BY <1>10, <1>11, <1>12

(* A new table, of a frame that maps nothing yet.                          *)
TableAdded(m, n, d, r) ==
  /\ Good(r) /\ r.dir = [m.dir EXCEPT ![d] = n] /\ r.dir[d] = n
  /\ r.used = m.used /\ r.phys = m.phys /\ r.fault = m.fault
  /\ \A p \in Pages : Lookup(r, p) = Lookup(m, p) /\ FrameOf(r, p) = FrameOf(m, p)
  /\ \A f : Spare(m, f) /\ f # n => Spare(r, f)

LEMMA Installed ==
  ASSUME NEW m, Good(m), NEW n, Spare(m, n), NEW d \in Dirs, m.dir[d] = NoFrame,
         \A o \in Offsets : m.phys[n][o] \in {Zero, Junk}
  PROVE  TableAdded(m, n, d, [m EXCEPT !.dir[d] = n])
<1> DEFINE r == [m EXCEPT !.dir[d] = n]
<1>0. Shape(m) /\ n \in Frames /\ n # NoFrame /\ n \in m.used \ ReservedFrames
  BY Sizes DEF Good, Spare
<1>1. /\ r.dir = [m.dir EXCEPT ![d] = n]
      /\ r.used = m.used /\ r.phys = m.phys /\ r.fault = m.fault /\ Shape(r)
  BY <1>0 DEF Shape
<1> HIDE DEF r
<1>2. r.dir[d] = n /\ \A e \in Dirs : e # d => r.dir[e] = m.dir[e]
  BY <1>0, <1>1 DEF Shape
<1>3. d >= StaticTables
  <2>1. d < StaticTables => m.dir[d] = StaticTable(d) /\ StaticTable(d) # NoFrame
    BY StaticFrame DEF Good, IdentityMap
  <2> QED
    BY <2>1, Sizes DEF Dirs
<1>4. \A p \in Pages : Lookup(r, p) = Lookup(m, p) /\ FrameOf(r, p) = FrameOf(m, p)
  <2> SUFFICES ASSUME NEW p \in Pages PROVE Lookup(r, p) = Lookup(m, p)
    BY DEF FrameOf
  <2>1. p \div Words \in Dirs /\ p % Words \in Offsets
    BY PagePlace
  <2>2. CASE p \div Words # d
    BY <1>1, <1>2, <2>1, <2>2 DEF Lookup
  <2>3. CASE p \div Words = d
    <3>1. Lookup(m, p) = Zero
      BY <1>0, <2>3, LookupIs
    <3>2. r.phys[n][p % Words] \notin Entries
      BY <1>1, <2>1, Sizes
    <3>3. Lookup(r, p) = Zero
      BY <1>0, <1>1, <1>2, <2>3, <3>2, LookupIs
    <3> QED
      BY <3>1, <3>3
  <2> QED
    BY <2>2, <2>3
<1>5. \A p \in HighPages : p \in Pages
  BY PagesAreLowOrHigh
<1>6. IdentityMap(r)
  <2>1. \A e \in Dirs : e < StaticTables => e # d
    BY <1>3, Sizes DEF Dirs
  <2> QED
    <3> SUFFICES ASSUME NEW e \in Dirs, e < StaticTables
                 PROVE  /\ r.dir[e] = StaticTable(e)
                        /\ \A o \in Offsets : r.phys[StaticTable(e)][o] = Entry(e * Words + o, FALSE)
      BY DEF IdentityMap
    <3>1. r.dir[e] = m.dir[e] /\ r.phys = m.phys
      BY <1>1, <1>2, <2>1
    <3> QED
      BY <3>1 DEF Good, IdentityMap
<1>7. OwnTables(r)
  <2>1. \A e \in Dirs : e # d => r.dir[e] # n
    BY <1>2 DEF Spare, IsTable
  <2>2. \A e \in Dirs : e >= StaticTables /\ r.dir[e] # NoFrame => r.dir[e] \in r.used \ ReservedFrames
    BY <1>0, <1>1, <1>2 DEF Good, OwnTables
  <2>3. \A e, b \in Dirs : r.dir[e] = r.dir[b] /\ r.dir[e] # NoFrame => e = b
    BY <1>2, <2>1 DEF Good, OwnTables
  <2> QED
    BY <2>2, <2>3 DEF OwnTables
<1>8. \A f : IsTable(r, f) => f = n \/ IsTable(m, f)
  BY <1>2 DEF IsTable
<1>9. OwnFrames(r)
  BY <1>1, <1>4, <1>5, <1>8 DEF Good, OwnFrames, Spare
<1>10. Good(r)
  BY <1>1, <1>6, <1>7, <1>9 DEF Good, Unwritten
<1>11. \A f : Spare(m, f) /\ f # n => Spare(r, f)
  BY <1>1, <1>4, <1>5, <1>8 DEF Spare
<1> QED
  BY <1>1, <1>2, <1>4, <1>10, <1>11 DEF r, TableAdded
-----------------------------------------------------------------------------
(* Frames below the end of the identity map are left for the page and, if  *)
(* it needs one, for its table; n frames are used.                         *)
Room(m, n, page) ==
  LET t == m.dir[page \div Words]
  IN IF t = NoFrame THEN n + 1 < IdentityPages ELSE n < IdentityPages /\ t < IdentityPages

(* Then the page gets a cleared frame, and nothing else changes.           *)
PageAdded(m, n, page, r) ==
  /\ r.fault = m.fault
  /\ Lookup(r, page) # Zero /\ FrameOf(r, page) = n
  /\ \A p \in Pages \ {page} : Lookup(r, p) = Lookup(m, p) /\ FrameOf(r, p) = FrameOf(m, p)
  /\ \A o \in Offsets : r.phys[n][o] = Zero
  /\ \A g \in Frames : g < n /\ ~IsTable(m, g) => r.phys[g] = m.phys[g]
  /\ LET d == page \div Words
     IN IF m.dir[d] = NoFrame
        THEN r.used = 0 .. n + 1 /\ r.dir = [m.dir EXCEPT ![d] = n + 1]
        ELSE r.used = 0 .. n /\ r.dir = m.dir

LEMMA PageMapped ==
  ASSUME NEW m, Good(m), NEW n \in First .. TotalFrames, m.used = 0 .. n - 1,
         NEW page \in HighPages
  PROVE  /\ Good(MapUserPage(m, page))
         /\ Room(m, n, page) => PageAdded(m, n, page, MapUserPage(m, page))
<1> DEFINE r == MapUserPage(m, page)
           d == page \div Words
           t == m.dir[d]
<1>0. First \in Nat /\ TotalFrames \in Nat /\ IdentityPages \in Nat /\ IdentityPages <= TotalFrames /\ n \in Nat
  BY Sizes, FirstFree
<1>1. d \in Dirs /\ page \in Pages
  BY PagePlace, PagesAreLowOrHigh
<1>2. r = IF FreeFrames(m) = {} THEN m
          ELSE LET f == Min(FreeFrames(m)) IN map_page(ClearPage(Allocate(m, f), f), f, page)
  BY DEF MapUserPage
<1>3. CASE n = TotalFrames
  <2>1. r = m
    BY <1>2, <1>3, NextFrame
  <2>2. ~Room(m, n, page)
    BY <1>0, <1>3 DEF Room
  <2> QED
    BY <2>1, <2>2
<1>4. CASE n < TotalFrames
  <2> DEFINE m1 == Allocate(m, n)
             m2 == ClearPage(m1, n)
  <2>1. r = map_page(m2, n, page)
    BY <1>0, <1>2, <1>4, NextFrame
  <2>2. /\ Good(m1) /\ m1.used = 0 .. n /\ Spare(m1, n)
        /\ m1.phys = m.phys /\ m1.dir = m.dir /\ m1.fault = m.fault
        /\ \A p \in Pages : Lookup(m1, p) = Lookup(m, p) /\ FrameOf(m1, p) = FrameOf(m, p)
    BY <1>4, Allocated
  <2> HIDE DEF m1
  <2>3. /\ Good(m2) /\ Spare(m2, n) /\ m2.dir = m1.dir /\ m2.used = m1.used
        /\ \A p \in Pages : Lookup(m2, p) = Lookup(m1, p) /\ FrameOf(m2, p) = FrameOf(m1, p)
        /\ n < IdentityPages => /\ m2.fault = m1.fault
                                /\ \A o \in Offsets : m2.phys[n][o] = Zero
                                /\ \A g \in Frames \ {n} : m2.phys[g] = m1.phys[g]
    BY <2>2, Cleared
  <2> HIDE DEF m2, r
  <2>4. /\ m2.dir = m.dir /\ m2.used = 0 .. n
        /\ \A p \in Pages : Lookup(m2, p) = Lookup(m, p) /\ FrameOf(m2, p) = FrameOf(m, p)
    BY <2>2, <2>3
  <2>5. n < IdentityPages => /\ m2.fault = m.fault
                             /\ \A g \in Frames \ {n} : m2.phys[g] = m.phys[g]
    BY <2>2, <2>3
  <2>6. n \in Frames /\ n # NoFrame
    BY <1>0, <1>4, Sizes DEF Frames
  <2>7. CASE t # NoFrame
    <3>1. r = SetEntry(m2, t, page, n)
      BY <2>1, <2>4, <2>7 DEF map_page
    <3>2. /\ Good(r) /\ r.dir = m2.dir /\ r.used = m2.used
          /\ t < IdentityPages =>
               /\ r.fault = m2.fault
               /\ Lookup(r, page) = Entry(n, TRUE) /\ FrameOf(r, page) = n
               /\ \A p \in Pages \ {page} : Lookup(r, p) = Lookup(m2, p) /\ FrameOf(r, p) = FrameOf(m2, p)
               /\ \A h \in Frames \ {t} : r.phys[h] = m2.phys[h]
      <4>1. EntryWritten(m2, n, page, r)
        BY <2>3, <2>4, <2>7, <3>1, Entered
      <4> QED
        BY <2>4, <4>1 DEF EntryWritten
    <3>3. ASSUME Room(m, n, page) PROVE PageAdded(m, n, page, r)
      <4>1. n < IdentityPages /\ t < IdentityPages
        BY <2>7, <3>3 DEF Room
      <4>2. t # n /\ IsTable(m, t)
        BY <1>1, <2>3, <2>4 DEF Spare, IsTable
      <4>3. Lookup(r, page) # Zero
        BY <2>6, <3>2, <4>1, EntryType
      <4>4. \A o \in Offsets : r.phys[n][o] = Zero
        BY <2>3, <2>6, <3>2, <4>1, <4>2
      <4>5. \A g \in Frames : g < n /\ ~IsTable(m, g) => r.phys[g] = m.phys[g]
        <5> SUFFICES ASSUME NEW g \in Frames, g < n, ~IsTable(m, g) PROVE r.phys[g] = m.phys[g]
          OBVIOUS
        <5>1. g # n /\ g # t
          BY <1>0, <4>2
        <5> QED
          BY <2>5, <3>2, <4>1, <5>1
      <4>6. \A p \in Pages \ {page} : Lookup(r, p) = Lookup(m, p) /\ FrameOf(r, p) = FrameOf(m, p)
        BY <2>4, <3>2, <4>1
      <4> QED
        BY <2>4, <2>5, <2>7, <3>2, <4>1, <4>3, <4>4, <4>5, <4>6 DEF PageAdded
    <3> QED
      BY <3>2, <3>3 DEF r
  <2>8. CASE t = NoFrame
    <3>1. n + 1 \in First .. TotalFrames /\ m2.used = 0 .. (n + 1) - 1
      BY <1>0, <1>4, <2>4
    <3>2. r = IF FreeFrames(m2) = {} THEN m2
              ELSE LET new == Min(FreeFrames(m2))
                       cleared == ClearPage(Allocate(m2, new), new)
                   IN SetEntry([cleared EXCEPT !.dir[d] = new], new, page, n)
      BY <2>1, <2>4, <2>8 DEF map_page
    <3>3. CASE n + 1 = TotalFrames
      <4>1. r = m2
        BY <3>1, <3>2, <3>3, NextFrame
      <4>2. ~Room(m, n, page)
        BY <1>0, <2>8, <3>3 DEF Room
      <4> QED
        BY <2>3, <4>1, <4>2 DEF r
    <3>4. CASE n + 1 < TotalFrames
      <4> DEFINE k == n + 1
                 m3 == Allocate(m2, k)
                 m4 == ClearPage(m3, k)
                 m5 == [m4 EXCEPT !.dir[d] = k]
      <4>1. r = SetEntry(m5, k, page, n)
        BY <1>0, <3>1, <3>2, <3>4, NextFrame
      <4>0. k \in First .. TotalFrames /\ m2.used = 0 .. k - 1 /\ k < TotalFrames /\ k \in Frames /\ k # n
        BY <1>0, <3>1, <3>4 DEF Frames
      <4> HIDE DEF k
      <4>2. /\ Good(m3) /\ m3.used = 0 .. k /\ Spare(m3, k)
            /\ m3.phys = m2.phys /\ m3.dir = m2.dir /\ m3.fault = m2.fault
            /\ \A o \in Offsets : m3.phys[k][o] = Junk
            /\ \A p \in Pages : Lookup(m3, p) = Lookup(m2, p) /\ FrameOf(m3, p) = FrameOf(m2, p)
        BY <2>3, <4>0, Allocated
      <4> HIDE DEF m3
      <4>3. /\ Good(m4) /\ Spare(m4, k) /\ m4.dir = m3.dir /\ m4.used = m3.used
            /\ \A p \in Pages : Lookup(m4, p) = Lookup(m3, p) /\ FrameOf(m4, p) = FrameOf(m3, p)
            /\ \A o \in Offsets : m4.phys[k][o] \in {Zero, m3.phys[k][o]}
            /\ k < IdentityPages => /\ m4.fault = m3.fault
                                    /\ \A g \in Frames \ {k} : m4.phys[g] = m3.phys[g]
        BY <4>2, Cleared
      <4> HIDE DEF m4
      <4>4. Spare(m4, n)
        <5>1. m4.dir = m2.dir /\ \A p \in Pages : Lookup(m4, p) = Lookup(m2, p) /\ FrameOf(m4, p) = FrameOf(m2, p)
          BY <4>2, <4>3
        <5>2. n \in m4.used
          BY <1>0, <4>0, <4>2, <4>3 DEF k
        <5> QED
          BY <2>3, <5>1, <5>2, PagesAreLowOrHigh DEF Spare, IsTable
      <4>5. \A o \in Offsets : m4.phys[k][o] \in {Zero, Junk}
        BY <4>2, <4>3
      <4>6. m4.dir[d] = NoFrame
        BY <2>4, <2>8, <4>2, <4>3
      <4>7. /\ Good(m5) /\ m5.dir = [m4.dir EXCEPT ![d] = k] /\ m5.dir[d] = k
            /\ m5.used = m4.used /\ m5.phys = m4.phys /\ m5.fault = m4.fault
            /\ \A p \in Pages : Lookup(m5, p) = Lookup(m4, p) /\ FrameOf(m5, p) = FrameOf(m4, p)
            /\ Spare(m5, n)
        <5>1. TableAdded(m4, k, d, m5)
          BY <1>1, <4>3, <4>5, <4>6, Installed
        <5> QED
          BY <4>0, <4>4, <5>1 DEF TableAdded
      <4> HIDE DEF m5
      <4>8. /\ Good(r) /\ r.dir = m5.dir /\ r.used = m5.used
            /\ k < IdentityPages =>
                 /\ r.fault = m5.fault
                 /\ Lookup(r, page) = Entry(n, TRUE) /\ FrameOf(r, page) = n
                 /\ \A p \in Pages \ {page} : Lookup(r, p) = Lookup(m5, p) /\ FrameOf(r, p) = FrameOf(m5, p)
                 /\ \A h \in Frames \ {k} : r.phys[h] = m5.phys[h]
        <5>1. k # NoFrame
          BY <4>0, Sizes
        <5> QED
          <6>1. EntryWritten(m5, n, page, r)
            BY <4>1, <4>7, <5>1, Entered
          <6> QED
            BY <4>7, <6>1 DEF EntryWritten
      <4>9. ASSUME Room(m, n, page) PROVE PageAdded(m, n, page, r)
        <5>1. n < IdentityPages /\ k < IdentityPages
          BY <1>0, <2>8, <4>9 DEF Room, k
        <5>2. Lookup(r, page) # Zero
          BY <2>6, <4>8, <5>1, EntryType
        <5>3. \A o \in Offsets : r.phys[n][o] = Zero
          BY <2>3, <2>6, <4>0, <4>2, <4>3, <4>7, <4>8, <5>1
        <5>4. \A g \in Frames : g < n => r.phys[g] = m.phys[g]
          <6> SUFFICES ASSUME NEW g \in Frames, g < n PROVE r.phys[g] = m.phys[g]
            OBVIOUS
          <6>1. g # n /\ g # k
            BY <1>0 DEF k
          <6> QED
            BY <2>5, <4>2, <4>3, <4>7, <4>8, <5>1, <6>1
        <5>5. \A p \in Pages \ {page} : Lookup(r, p) = Lookup(m, p) /\ FrameOf(r, p) = FrameOf(m, p)
          BY <2>4, <4>2, <4>3, <4>7, <4>8, <5>1
        <5>6. r.fault = m.fault
          BY <2>5, <4>2, <4>3, <4>7, <4>8, <5>1
        <5>7. r.used = 0 .. n + 1 /\ r.dir = [m.dir EXCEPT ![d] = n + 1]
          BY <2>4, <4>2, <4>3, <4>7, <4>8 DEF k
        <5> QED
          BY <2>8, <4>8, <5>1, <5>2, <5>3, <5>4, <5>5, <5>6, <5>7 DEF PageAdded
      <4> QED
        BY <4>8, <4>9 DEF r
    <3> QED
      BY <1>0, <1>4, <3>3, <3>4
  <2> QED
    BY <2>7, <2>8
<1> QED
  BY <1>0, <1>3, <1>4
-----------------------------------------------------------------------------
(* The memory after a step, seen from the record that the step computed.   *)
LEMMA MemoryIs ==
  ASSUME NEW r, Good(r), SetMemory(r)
  PROVE  /\ Good(Memory)'
         /\ \A p \in Pages : Lookup(Memory', p) = Lookup(r, p) /\ FrameOf(Memory', p) = FrameOf(r, p)
         /\ phys' = r.phys /\ used' = r.used /\ dir' = r.dir
<1>0. Memory' = [phys |-> r.phys, used |-> r.used, dir |-> r.dir, fault |-> FALSE]
  BY DEF SetMemory, Memory
<1>1. Memory'.phys = r.phys /\ Memory'.used = r.used /\ Memory'.dir = r.dir
  BY <1>0
<1>2. Shape(Memory') /\ Unwritten(Memory')
  BY <1>0, <1>1 DEF Good, Shape, Unwritten
<1>3. Good(Memory')
  BY <1>1, <1>2, SameTablesGood
<1>4. \A p \in Pages : Lookup(Memory', p) = Lookup(r, p) /\ FrameOf(Memory', p) = FrameOf(r, p)
  BY <1>1, <1>2, SameLookup DEF Good
<1> QED
  BY <1>3, <1>4 DEF SetMemory
-----------------------------------------------------------------------------
Segment == [load : BOOLEAN, vaddr : Nat, memsz : Nat, filesz : Nat]

(* A segment that is loaded lies in the address space.                     *)
Inside(s) == /\ s \in Segment
             /\ s.load => s.filesz <= s.memsz /\ s.vaddr + s.memsz <= VirtualPages * Words

(* And behind the identity map.                                            *)
Placed(s) == Inside(s) /\ (s.load => s.vaddr >= IdentityPages * Words)

IsProgram == file \in Programs \ (OtherFiles \cup Missing)

(* The headers that exec_elf goes through, and how many it has filled.     *)
Walked == Append(HeadersRead(file), Stack)

Done == Len(Walked) - Len(prog)

(* Before a program is found nothing is taken, and the node is open only   *)
(* on the way.                                                             *)
Control ==
  /\ pc \in {"shell", "lookup", "header", "map", "fill", "user", "fault"}
  /\ pc \in {"shell", "user"} => ~open
  /\ pc \in {"shell", "lookup", "header"} =>
       used = ReservedFrames /\ \A d \in Dirs : d >= StaticTables => dir[d] = NoFrame
  /\ pc = "lookup" => file \in Programs \cup OtherFiles \cup Missing
  /\ pc = "header" => file \in (Programs \cup OtherFiles) \ Missing
  /\ pc \in {"map", "fill", "user", "fault"} => IsProgram /\ Behind

(* prog is what is left of the headers, todo of the pages of its first.    *)
Walk ==
  /\ pc \in {"map", "fill"} =>
       /\ prog \in Seq(Segment) /\ Len(prog) \in 1 .. Len(Walked)
       /\ \A j \in 1 .. Len(prog) : prog[j] = Walked[Done + j]
       /\ todo \subseteq SegmentPages(prog[1])
  /\ pc = "fill" => todo = {}
  /\ pc = "user" => prog = <<>>

Running == pc \in {"map", "fill", "user"} /\ Fits

(* The loop has been at page p of header i.                                *)
Seen(i, p) == i <= Done \/ (i = Done + 1 /\ p \notin todo)

Taken == {ip \in PageFrames : Seen(ip[1], ip[2])}

NewTables == {d \in Dirs : d >= StaticTables /\ dir[d] # NoFrame}

(* No more frames are used than pages were seen and tables are in place.   *)
Counted ==
  Running => /\ NewTables \subseteq Tables
             /\ \E n \in First .. TotalFrames :
                  /\ used = 0 .. n - 1
                  /\ n <= First + Cardinality(Taken) + Cardinality(NewTables)

AllMapped ==
  Running => \A i \in 1 .. Len(Walked) : \A p \in SegmentPages(Walked[i]) :
               Seen(i, p) => Lookup(Memory, p) # Zero

Clean ==
  Running => \A p \in HighPages : Lookup(Memory, p) # Zero =>
               \A o \in Offsets : phys[FrameOf(Memory, p)][o] # Junk

(* What was read stays as it was read.                                     *)
Filled ==
  Running /\ SeparatePages /\ Walked = Segments =>
    \A i \in 1 .. Done : Segments[i].load => InMemory(Segments[i])

NoFault == Fits => pc # "fault"

(* The inductive invariant.                                                *)
IInv == /\ Good(Memory) /\ Control /\ Walk
        /\ Counted /\ AllMapped /\ Clean /\ Filled /\ NoFault
-----------------------------------------------------------------------------
LEMMA StackSize == StackPages \in Nat /\ StackPages <= VirtualPages - IdentityPages
<1>1. StackPages \in 1 .. VirtualPages - IdentityPages
  BY LoaderAssumption
<1> QED
  BY <1>1, Sizes

LEMMA StackPlaced == Placed(Stack) /\ Stack.load = TRUE
<1> DEFINE a == VirtualPages - StackPages
<1>1. Words \in Nat \ {0} /\ VirtualPages \in Nat /\ IdentityPages \in Nat
  BY Sizes
<1>2. StackPages \in Nat /\ a \in Nat /\ IdentityPages <= a
  BY <1>1, StackSize
<1>3. VirtualPages = a + StackPages
  BY <1>1, <1>2
<1>4. Stack = [load |-> TRUE, vaddr |-> a * Words, memsz |-> StackPages * Words, filesz |-> 0]
  BY DEF Stack
<1> HIDE DEF a
<1>5. a * Words \in Nat /\ StackPages * Words \in Nat /\ a * Words + StackPages * Words = (a + StackPages) * Words
  BY <1>1, <1>2
<1>6. IdentityPages * Words <= a * Words
  <2>1. Words * IdentityPages <= Words * a
    BY <1>1, <1>2, MulMono
  <2>2. Words * IdentityPages = IdentityPages * Words /\ Words * a = a * Words
    BY <1>1, <1>2
  <2> QED
    BY <2>1, <2>2
<1>7. Stack \in Segment /\ Stack.load = TRUE /\ Stack.vaddr = a * Words
      /\ Stack.memsz = StackPages * Words /\ Stack.filesz = 0
  BY <1>4, <1>5 DEF Segment
<1>8. IdentityPages * Words \in Nat
  BY <1>1
<1> QED
  BY <1>3, <1>5, <1>6, <1>7, <1>8 DEF Placed, Inside

(* The headers of a program, as they are and as they are read, are inside. *)
LEMMA FileInside ==
  ASSUME NEW f \in Programs, NEW i \in 1 .. Len(f)
  PROVE  Inside(f[i])
<1>0. f \in Seq(Segment)
  BY LoaderAssumption DEF Segment
<1>1. f[i] \in Segment /\ i \in DOMAIN f
  BY <1>0
<1>2. f[i].load => /\ f[i].filesz <= f[i].memsz
                   /\ f[i].vaddr + f[i].memsz <= (VirtualPages - StackPages) * Words
  BY <1>1, LoaderAssumption
<1>3. (VirtualPages - StackPages) * Words <= VirtualPages * Words
      /\ (VirtualPages - StackPages) * Words \in Int /\ VirtualPages * Words \in Int
  <2>1. Words \in Nat /\ VirtualPages \in Nat /\ StackPages \in Nat /\ VirtualPages - StackPages \in Nat
    BY Sizes, StackSize
  <2>2. Words * (VirtualPages - StackPages) <= Words * VirtualPages
    BY <2>1, MulMono
  <2>3. Words * (VirtualPages - StackPages) = (VirtualPages - StackPages) * Words
        /\ Words * VirtualPages = VirtualPages * Words
    BY <2>1
  <2> QED
    BY <2>1, <2>2, <2>3
<1>4. f[i].vaddr + f[i].memsz \in Nat
  BY <1>1 DEF Segment
<1>5. f[i].load => f[i].vaddr + f[i].memsz <= VirtualPages * Words
  BY <1>2, <1>3, <1>4
<1> QED
  BY <1>1, <1>2, <1>5 DEF Inside

LEMMA WalkedIs ==
  ASSUME file \in Programs
  PROVE  /\ Walked \in Seq(Segment) /\ Len(Walked) = Len(file) + 1 /\ Len(file) \in Nat
         /\ \A i \in 1 .. Len(Walked) :
              /\ Inside(Walked[i]) /\ Inside(Append(file, Stack)[i])
              /\ SegmentPages(Walked[i]) \subseteq SegmentPages(Append(file, Stack)[i])
              /\ Walked[i].load => Append(file, Stack)[i].load /\ Walked[i].vaddr = Append(file, Stack)[i].vaddr
<1> DEFINE h == HeadersRead(file)
           g(k) == [file[k] EXCEPT !.load = @ /\ k \in PlacesRead(file)]
<1>1. file \in Seq(Segment) /\ Len(file) \in Nat
  BY LoaderAssumption DEF Segment
<1>2. \A k \in 1 .. Len(file) :
        /\ g(k) \in Segment /\ g(k).vaddr = file[k].vaddr /\ g(k).memsz = file[k].memsz
        /\ g(k).filesz = file[k].filesz /\ (g(k).load => file[k].load)
  <2> SUFFICES ASSUME NEW k \in 1 .. Len(file)
               PROVE  /\ g(k) \in Segment /\ g(k).vaddr = file[k].vaddr /\ g(k).memsz = file[k].memsz
                      /\ g(k).filesz = file[k].filesz /\ (g(k).load => file[k].load)
    OBVIOUS
  <2>1. file[k] \in Segment
    BY <1>1
  <2>2. (file[k].load /\ k \in PlacesRead(file)) \in BOOLEAN
    OBVIOUS
  <2> QED
    BY <2>1, <2>2 DEF Segment
<1>3. h = [k \in 1 .. Len(file) |-> g(k)]
  BY DEF HeadersRead
<1> HIDE DEF g
<1>4. h \in Seq(Segment) /\ Len(h) = Len(file) /\ \A k \in 1 .. Len(file) : h[k] = g(k)
  BY <1>1, <1>2, <1>3
<1> HIDE DEF h
<1>5. Stack \in Segment
  BY StackPlaced DEF Placed, Inside
<1>6. /\ Walked = Append(h, Stack) /\ Walked \in Seq(Segment) /\ Len(Walked) = Len(file) + 1
      /\ \A k \in 1 .. Len(file) : Walked[k] = g(k) /\ Append(file, Stack)[k] = file[k]
      /\ Walked[Len(file) + 1] = Stack /\ Append(file, Stack)[Len(file) + 1] = Stack
  BY <1>1, <1>4, <1>5 DEF Walked, h
<1>7. \A i \in 1 .. Len(Walked) :
        /\ Inside(Walked[i]) /\ Inside(Append(file, Stack)[i])
        /\ SegmentPages(Walked[i]) \subseteq SegmentPages(Append(file, Stack)[i])
        /\ Walked[i].load => Append(file, Stack)[i].load /\ Walked[i].vaddr = Append(file, Stack)[i].vaddr
  <2> SUFFICES ASSUME NEW i \in 1 .. Len(Walked)
               PROVE  /\ Inside(Walked[i]) /\ Inside(Append(file, Stack)[i])
                      /\ SegmentPages(Walked[i]) \subseteq SegmentPages(Append(file, Stack)[i])
                      /\ Walked[i].load => Append(file, Stack)[i].load /\ Walked[i].vaddr = Append(file, Stack)[i].vaddr
    OBVIOUS
  <2>1. CASE i = Len(file) + 1
    BY <1>6, <2>1, StackPlaced DEF Placed
  <2>2. CASE i \in 1 .. Len(file)
    <3>1. Inside(file[i]) /\ Walked[i] = g(i) /\ Append(file, Stack)[i] = file[i]
      BY <1>6, <2>2, FileInside
    <3>2. Inside(g(i))
      BY <1>2, <2>2, <3>1 DEF Placed, Inside
    <3>3. SegmentPages(g(i)) \subseteq SegmentPages(file[i])
      BY <1>2, <2>2 DEF SegmentPages
    <3> QED
      BY <1>2, <2>2, <3>1, <3>2, <3>3
  <2> QED
    BY <1>1, <1>6, <2>1, <2>2
<1> QED
  BY <1>1, <1>6, <1>7

(* The pages of a segment are the program's, and hold all of its words.    *)
LEMMA SegmentIn ==
  ASSUME NEW s, Inside(s)
  PROVE  /\ SegmentPages(s) \subseteq Pages
         /\ Placed(s) => SegmentPages(s) \subseteq HighPages
         /\ s.load => \A w \in s.vaddr .. s.vaddr + s.memsz - 1 :
                        w \in Nat /\ w \div Words \in SegmentPages(s)
<1> DEFINE a == s.vaddr
           b == s.vaddr + s.memsz
           top == (b + Words - 1) \div Words
<1>0. Words \in Nat \ {0} /\ IdentityPages \in Nat /\ VirtualPages \in Nat
  BY Sizes
<1>1. a \in Nat /\ s.memsz \in Nat /\ b \in Nat /\ s.load \in BOOLEAN
  BY DEF Inside, Segment
<1>2. CASE ~s.load
  BY <1>2 DEF SegmentPages
<1>3. CASE s.load /\ s.memsz = 0
  <2>1. SegmentPages(s) = {}
    BY <1>3 DEF SegmentPages, PagesOf
  <2> QED
    BY <1>1, <1>3, <2>1
<1>4. CASE s.load /\ s.memsz # 0
  <2>1. SegmentPages(s) = a \div Words .. top - 1
    BY <1>4 DEF SegmentPages, PagesOf
  <2>2. b <= VirtualPages * Words /\ (Placed(s) => a >= IdentityPages * Words)
    BY <1>4 DEF Inside, Placed
  <2>3. a \div Words \in Nat /\ top \in Nat /\ b + Words - 1 \in Nat
    <3>1. b + Words - 1 \in Nat
      BY <1>0, <1>1
    <3> QED
      BY <1>0, <1>1, <3>1, DivMod
  <2>4. ASSUME Placed(s) PROVE IdentityPages <= a \div Words
    <3>1. IdentityPages * Words \in Nat /\ IdentityPages * Words = Words * IdentityPages + 0
      BY <1>0
    <3>2. (IdentityPages * Words) \div Words = IdentityPages
      BY <1>0, <3>1, DivUnique
    <3>3. (IdentityPages * Words) \div Words <= a \div Words
      BY <1>0, <1>1, <2>2, <2>4, <3>1, DivMono
    <3> QED
      BY <3>2, <3>3
  <2>5. top <= VirtualPages
    <3> DEFINE c == VirtualPages * Words + (Words - 1)
    <3>1. c \in Nat /\ c = Words * VirtualPages + (Words - 1) /\ Words - 1 \in Nat /\ Words - 1 < Words
      BY <1>0
    <3>2. c \div Words = VirtualPages
      BY <1>0, <3>1, DivUnique
    <3>3. b + Words - 1 <= c
      BY <1>0, <1>1, <2>2
    <3> HIDE DEF c
    <3>4. top <= c \div Words
      BY <1>0, <2>3, <3>1, <3>3, DivMono
    <3> QED
      BY <3>2, <3>4
  <2>6. SegmentPages(s) \subseteq Pages /\ (Placed(s) => SegmentPages(s) \subseteq HighPages)
    BY <1>0, <2>1, <2>3, <2>4, <2>5 DEF HighPages, Pages
  <2>7. \A w \in s.vaddr .. s.vaddr + s.memsz - 1 : w \in Nat /\ w \div Words \in SegmentPages(s)
    <3> SUFFICES ASSUME NEW w \in a .. b - 1
                 PROVE  w \in Nat /\ w \div Words \in SegmentPages(s)
      BY <1>1
    <3>1. w \in Nat /\ a <= w /\ w + Words <= b + Words - 1 /\ w + Words \in Nat
      BY <1>0, <1>1
    <3>2. a \div Words <= w \div Words /\ w \div Words \in Nat
      BY <1>0, <1>1, <3>1, DivMono, DivMod
    <3>3. (w + Words) \div Words = w \div Words + 1
      <4> DEFINE q == w \div Words
                 o == w % Words
      <4>1. q \in Nat /\ w = Words * q + o /\ o \in Nat /\ o < Words
        BY <1>0, <3>1, DivMod
      <4> HIDE DEF q, o
      <4>2. q + 1 \in Nat /\ Words * (q + 1) = Words * q + Words
        BY <1>0, <4>1
      <4>3. w + Words = Words * (q + 1) + o
        BY <1>0, <3>1, <4>1, <4>2
      <4>4. (w + Words) \div Words = q + 1
        BY <1>0, <3>1, <4>1, <4>2, <4>3, DivUnique
      <4> QED
        BY <4>4 DEF q
    <3>4. (w + Words) \div Words <= top
      BY <1>0, <2>3, <3>1, DivMono
    <3> QED
      BY <2>1, <2>3, <3>1, <3>2, <3>3, <3>4
  <2> QED
    BY <2>6, <2>7
<1> QED
  BY <1>1, <1>2, <1>3, <1>4
-----------------------------------------------------------------------------
(* Reading a segment: the tables stay as they are.                         *)
ImageStored(m, s, r) ==
  /\ Good(r) /\ r.used = m.used /\ r.dir = m.dir
  /\ \A p \in Pages : Lookup(r, p) = Lookup(m, p) /\ FrameOf(r, p) = FrameOf(m, p)
  /\ Stored(m, DOMAIN Image(s), Image(s), r)

LEMMA ImageIs ==
  ASSUME NEW s, Inside(s), s.load
  PROVE  /\ DOMAIN Image(s) = s.vaddr .. s.vaddr + s.memsz - 1
         /\ \A w \in DOMAIN Image(s) : /\ Image(s)[w] \in Contents /\ Image(s)[w] # Junk
                                       /\ w \in Nat /\ w \div Words \in SegmentPages(s)
                                       /\ w \div Words \in Pages
         /\ Image(s) \in [DOMAIN Image(s) -> Contents]
<1> DEFINE D == s.vaddr .. s.vaddr + s.memsz - 1
<1>1. Image(s) = [w \in D |-> IF w < s.vaddr + s.filesz THEN FileWord(s, w - s.vaddr) ELSE Zero]
  BY DEF Image
<1>2. s.vaddr \in Nat /\ s.memsz \in Nat
  BY DEF Inside, Segment
<1>3. \A w \in D : FileWord(s, w - s.vaddr) \in [from : Nat, word : Nat]
  BY <1>2 DEF FileWord
<1>4. Junk # Zero /\ Junk \notin [from : Nat, word : Nat]
  BY LoaderAssumption
<1>5. \A w \in D : w \in Nat /\ w \div Words \in SegmentPages(s)
                   /\ w \div Words \in Pages
  BY SegmentIn
<1> HIDE DEF D
<1>6. DOMAIN Image(s) = D /\ \A w \in D : Image(s)[w] \in {Zero} \cup [from : Nat, word : Nat]
  BY <1>1, <1>3
<1>7. \A w \in D : Image(s)[w] \in Contents /\ Image(s)[w] # Junk
  BY <1>4, <1>6 DEF Contents
<1>8. Image(s) \in [D -> Contents]
  <2>1. \A w \in D : (IF w < s.vaddr + s.filesz THEN FileWord(s, w - s.vaddr) ELSE Zero) \in Contents
    BY <1>3 DEF Contents
  <2> QED
    BY <1>1, <2>1
<1> QED
  BY <1>5, <1>6, <1>7, <1>8 DEF D

LEMMA SegmentFilled ==
  ASSUME NEW m, Good(m), NEW s, Placed(s), s.load
  PROVE  ImageStored(m, s, Stores(m, Image(s)))
<1> DEFINE D == DOMAIN Image(s)
           val == Image(s)
           r == Stores(m, val)
<1>0. Shape(m) /\ Words \in Nat \ {0}
  BY Sizes DEF Good
<1>1. /\ \A w \in D : w \in Nat /\ w \div Words \in HighPages /\ w \div Words \in Pages
      /\ val \in [D -> Contents]
  BY ImageIs, SegmentIn DEF Placed
<1> HIDE DEF D, val, r
<1>2. CASE \E w \in D : FrameOf(m, w \div Words) = NoFrame
  <2>1. r = [m EXCEPT !.fault = TRUE]
    BY <1>2 DEF Stores, r, D, val
  <2>2. r.phys = m.phys /\ r.used = m.used /\ r.dir = m.dir /\ r.fault = TRUE /\ Shape(r)
    BY <1>0, <2>1 DEF Shape
  <2>3. Unwritten(r)
    BY <2>2 DEF Good, Unwritten
  <2>4. Good(r)
    BY <2>2, <2>3, SameTablesGood
  <2>5. \A p \in Pages : Lookup(r, p) = Lookup(m, p) /\ FrameOf(r, p) = FrameOf(m, p)
    BY <1>0, <2>2, SameLookup
  <2>6. Stored(m, D, val, r)
    BY <1>2, <2>2 DEF Stored
  <2> QED
    BY <2>2, <2>4, <2>5, <2>6 DEF ImageStored, D, val, r
<1>3. CASE \A w \in D : FrameOf(m, w \div Words) # NoFrame
  <2>1. \A w \in D : Lookup(m, w \div Words) # Zero
    BY <1>0, <1>1, <1>3, LookupIs
  <2>2. Apart(m, D)
    <3>1. ASSUME NEW w \in D, NEW v \in D, FrameOf(m, w \div Words) = FrameOf(m, v \div Words),
                 w % Words = v % Words
          PROVE  w = v
      <4>1. w \div Words = v \div Words
        BY <1>1, <2>1, <3>1 DEF Good, OwnFrames
      <4>2. /\ w = Words * (w \div Words) + (w % Words)
            /\ v = Words * (v \div Words) + (v % Words)
        BY <1>0, <1>1, DivMod
      <4> QED
        BY <3>1, <4>1, <4>2
    <3> QED
      BY <1>1, <3>1 DEF Apart
  <2>3. Stored(m, D, val, r)
    BY <1>0, <1>1, <2>2, StoresEffect DEF r
  <2>4. Shape(r) /\ r.used = m.used /\ r.dir = m.dir
    BY <2>3 DEF Stored
  <2>5. \A h \in Frames : (\A w \in D : FrameOf(m, w \div Words) # h) => r.phys[h] = m.phys[h]
    <3> SUFFICES ASSUME NEW h \in Frames, \A w \in D : FrameOf(m, w \div Words) # h
                 PROVE  r.phys[h] = m.phys[h]
      OBVIOUS
    <3>1. \A o \in Offsets : r.phys[h][o] = m.phys[h][o]
      BY <2>3 DEF Stored
    <3>2. r.phys[h] \in [Offsets -> Contents] /\ m.phys[h] \in [Offsets -> Contents]
      BY <1>0, <2>4 DEF Shape
    <3> QED
      BY <3>1, <3>2
  <2>6. \A w \in D : FrameOf(m, w \div Words) \in m.used /\ ~IsTable(m, FrameOf(m, w \div Words))
    BY <1>1, <2>1 DEF Good, OwnFrames
  <2>7. \A d \in Dirs : m.dir[d] # NoFrame => r.phys[m.dir[d]] = m.phys[m.dir[d]]
    <3> SUFFICES ASSUME NEW d \in Dirs, m.dir[d] # NoFrame PROVE r.phys[m.dir[d]] = m.phys[m.dir[d]]
      OBVIOUS
    <3>1. m.dir[d] \in Frames /\ IsTable(m, m.dir[d])
      BY <1>0 DEF Shape, IsTable
    <3> QED
      BY <2>5, <2>6, <3>1
  <2>8. Unwritten(r)
    BY <2>4, <2>5, <2>6 DEF Good, Unwritten
  <2>9. Good(r)
    BY <2>4, <2>7, <2>8, SameTablesGood
  <2>10. \A p \in Pages : Lookup(r, p) = Lookup(m, p) /\ FrameOf(r, p) = FrameOf(m, p)
    BY <1>0, <2>4, <2>7, SameLookup
  <2> QED
    BY <2>3, <2>4, <2>9, <2>10 DEF ImageStored, D, val, r
<1> QED
  BY <1>2, <1>3

LEMMA InitGood == Init => Good(Memory)
<1> SUFFICES ASSUME Init PROVE Good(Memory)
  OBVIOUS
<1> DEFINE Stat == {StaticTable(i) : i \in 0 .. StaticTables - 1}
<1>0. /\ Words \in Nat \ {0} /\ StaticTables \in Nat \ {0} /\ TotalFrames \in Nat /\ IdentityPages \in Nat
      /\ First \in Nat /\ First <= IdentityPages /\ IdentityPages <= TotalFrames /\ StaticTables + 1 < First
  BY Sizes, FirstFree
<1>1. Memory = [phys |-> phys, used |-> used, dir |-> dir, fault |-> FALSE]
  BY DEF Memory
<1>2. used = 0 .. First - 1
  BY FirstFree DEF Init, paging_init
<1>3. dir = [d \in Dirs |-> IF d < StaticTables THEN StaticTable(d) ELSE NoFrame]
  BY DEF Init, paging_init, Dirs
<1>4. phys = [f \in Frames |-> [o \in Offsets |-> IF f \in Stat THEN Entry((f - 1) * Words + o, FALSE) ELSE Junk]]
  BY DEF Init, paging_init
<1>5. \A f \in Stat : f \in Nat /\ 1 <= f /\ f <= StaticTables /\ f < First
  BY <1>0 DEF StaticTable
<1>6. \A f \in Stat, o \in Offsets : (f - 1) * Words + o \in Frames
  <2> SUFFICES ASSUME NEW f \in Stat, NEW o \in Offsets PROVE (f - 1) * Words + o \in Frames
    OBVIOUS
  <2>1. f - 1 \in Nat /\ f \in Nat /\ f <= StaticTables /\ o \in Nat /\ o < Words
    BY <1>0, <1>5 DEF Offsets
  <2>2. Words * f <= Words * StaticTables /\ Words * f = Words * (f - 1) + Words
    BY <1>0, <2>1, MulMono
  <2>3. Words * (f - 1) = (f - 1) * Words /\ Words * StaticTables = IdentityPages
    BY <1>0, <2>1, Sizes
  <2>4. (f - 1) * Words \in Nat
    BY <1>0, <2>1
  <2> QED
    BY <1>0, <2>1, <2>2, <2>3, <2>4 DEF Frames
<1>7. \A f \in Stat, o \in Offsets : Entry((f - 1) * Words + o, FALSE) \in Contents
  BY <1>6, EntryType
<1>8. phys \in [Frames -> [Offsets -> Contents]]
  BY <1>4, <1>7 DEF Contents
<1>9. dir \in [Dirs -> Frames \cup {NoFrame}]
  BY <1>3, StaticFrame
<1>10. Shape(Memory)
  <2>1. First \in First .. TotalFrames /\ used \in SUBSET Nat
    BY <1>0, <1>2
  <2> QED
    BY <1>1, <1>2, <1>8, <1>9, <2>1 DEF Shape
<1>11. IdentityMap(Memory)
  <2> SUFFICES ASSUME NEW d \in Dirs, d < StaticTables
               PROVE  /\ dir[d] = StaticTable(d)
                      /\ \A o \in Offsets : phys[StaticTable(d)][o] = Entry(d * Words + o, FALSE)
    BY <1>1 DEF IdentityMap
  <2>1. StaticTable(d) \in Frames /\ StaticTable(d) \in Stat /\ StaticTable(d) - 1 = d
    BY <1>0, StaticFrame DEF StaticTable, Dirs
  <2>2. \A o \in Offsets : phys[StaticTable(d)][o] = Entry((StaticTable(d) - 1) * Words + o, FALSE)
    BY <1>4, <2>1
  <2> QED
    BY <1>3, <2>1, <2>2
<1>12. OwnTables(Memory)
  <2>1. \A d \in Dirs : d >= StaticTables => dir[d] = NoFrame
    BY <1>0, <1>3 DEF Dirs
  <2>2. \A d, e \in Dirs : dir[d] = dir[e] /\ dir[d] # NoFrame => d = e
    BY <1>0, <1>3 DEF Dirs, StaticTable
  <2> QED
    BY <1>1, <2>1, <2>2 DEF OwnTables
<1>13. \A p \in HighPages : Lookup(Memory, p) = Zero
  <2> SUFFICES ASSUME NEW p \in HighPages PROVE Lookup(Memory, p) = Zero
    OBVIOUS
  <2>1. p \in Pages /\ p \div Words \in Dirs /\ ~(p \div Words < StaticTables)
    <3>1. p \in Pages /\ ~(p < IdentityPages)
      BY PagesAreLowOrHigh, Sizes DEF HighPages
    <3> QED
      BY <3>1, PagePlace
  <2>2. Memory.dir[p \div Words] = NoFrame
    BY <1>1, <1>3, <2>1
  <2> QED
    BY <1>10, <2>1, <2>2, LookupIs
<1>14. OwnFrames(Memory)
  BY <1>13 DEF OwnFrames
<1>15. Unwritten(Memory)
  <2>1. \A f \in Frames \ used : f \notin Stat
    BY <1>0, <1>2, <1>5
  <2> QED
    BY <1>1, <1>4, <2>1 DEF Unwritten
<1> QED
  BY <1>10, <1>11, <1>12, <1>14, <1>15 DEF Good
-----------------------------------------------------------------------------
LEMMA InitIInv == Init => IInv
<1> SUFFICES ASSUME Init PROVE IInv
  OBVIOUS
<1>1. Good(Memory)
  BY InitGood
<1>2. \A d \in Dirs : d >= StaticTables => dir[d] = NoFrame
  <2>1. dir = [d \in Dirs |-> IF d < StaticTables THEN StaticTable(d) ELSE NoFrame]
    BY DEF Init, paging_init, Dirs
  <2> QED
    BY <2>1, Sizes DEF Dirs
<1>3. pc = "shell" /\ ~open /\ used = ReservedFrames
  BY DEF Init, paging_init
<1>4. Control
  BY <1>2, <1>3 DEF Control
<1>5. Walk /\ Counted /\ AllMapped /\ Clean /\ Filled /\ NoFault
  BY <1>3 DEF Walk, Counted, AllMapped, Clean, Filled, NoFault, Running
<1> QED
  BY <1>1, <1>4, <1>5 DEF IInv

(* What depends on the file only.                                          *)
LEMMA SameFile ==
  ASSUME file' = file
  PROVE  /\ Walked' = Walked /\ Segments' = Segments /\ PageFrames' = PageFrames
         /\ Tables' = Tables /\ Fits' = Fits /\ SeparatePages' = SeparatePages
         /\ IsProgram' = IsProgram /\ Behind' = Behind
<1>1. Walked' = Walked /\ Segments' = Segments /\ IsProgram' = IsProgram
  BY DEF Walked, Segments, IsProgram
<1>0. Behind' = Behind
  BY <1>1 DEF Behind
<1>2. PageFrames' = PageFrames /\ SeparatePages' = SeparatePages
  BY <1>1 DEF PageFrames, SeparatePages
<1>3. Tables' = Tables
  BY <1>2 DEF Tables
<1>4. Fits' = Fits
  BY <1>2, <1>3 DEF Fits
<1> QED
  BY <1>0, <1>1, <1>2, <1>3, <1>4

(* The segments of a program, and those that are walked, number by number. *)
LEMMA ProgramIs ==
  ASSUME IsProgram, Behind
  PROVE  /\ Segments = Append(file, Stack) /\ Len(Segments) = Len(Walked)
         /\ Len(Walked) \in Nat /\ Len(Walked) >= 1 /\ Walked \in Seq(Segment)
         /\ DOMAIN Segments = 1 .. Len(Walked)
         /\ \A i \in 1 .. Len(Walked) :
              /\ Placed(Walked[i]) /\ Placed(Segments[i])
              /\ SegmentPages(Walked[i]) \subseteq SegmentPages(Segments[i])
              /\ SegmentPages(Walked[i]) \subseteq HighPages
              /\ SegmentPages(Segments[i]) \subseteq HighPages
<1>1. Segments = Append(file, Stack) /\ file \in Programs
  BY DEF Segments, IsProgram
<1>2. /\ Walked \in Seq(Segment) /\ Len(Walked) = Len(file) + 1 /\ Len(file) \in Nat
      /\ \A i \in 1 .. Len(Walked) :
           /\ Inside(Walked[i]) /\ Inside(Segments[i])
           /\ SegmentPages(Walked[i]) \subseteq SegmentPages(Segments[i])
           /\ Walked[i].load => Segments[i].load /\ Walked[i].vaddr = Segments[i].vaddr
  BY <1>1, WalkedIs
<1>3. file \in Seq(Segment) /\ Stack \in Segment
  BY <1>1, LoaderAssumption, StackPlaced DEF Segment, Placed, Inside
<1>4. Len(Segments) = Len(Walked) /\ DOMAIN Segments = 1 .. Len(Walked)
  BY <1>1, <1>2, <1>3
<1>5. \A i \in 1 .. Len(Walked) : Placed(Walked[i]) /\ Placed(Segments[i])
  BY <1>2, <1>4 DEF Behind, Placed
<1>6. \A i \in 1 .. Len(Walked) :
        SegmentPages(Walked[i]) \subseteq HighPages /\ SegmentPages(Segments[i]) \subseteq HighPages
  BY <1>2, <1>5, SegmentIn
<1> QED
  BY <1>1, <1>2, <1>4, <1>5, <1>6

(* Everything that is counted is finite.                                   *)
LEMMA Finite ==
  ASSUME IsProgram, Behind
  PROVE  /\ IsFiniteSet(PageFrames) /\ Cardinality(PageFrames) \in Nat
         /\ IsFiniteSet(Tables) /\ Cardinality(Tables) \in Nat
         /\ IsFiniteSet(Taken) /\ Cardinality(Taken) \in Nat
         /\ IsFiniteSet(NewTables) /\ Cardinality(NewTables) \in Nat
         /\ Cardinality(ReservedFrames) = First
<1>1. Len(Segments) \in Nat /\ VirtualPages \in Nat /\ Words \in Nat \ {0}
  BY ProgramIs, Sizes
<1>2. IsFiniteSet(1 .. Len(Segments)) /\ IsFiniteSet(Pages)
  BY <1>1, FS_Interval DEF Pages
<1>3. IsFiniteSet((1 .. Len(Segments)) \X Pages)
  BY <1>2, FS_Product
<1>4. PageFrames \in SUBSET ((1 .. Len(Segments)) \X Pages)
  BY DEF PageFrames
<1>5. IsFiniteSet(PageFrames)
  BY <1>3, <1>4, FS_Subset
<1>6. VirtualPages \div Words \in Nat
  BY <1>1, DivMod
<1>7. IsFiniteSet(Dirs)
  BY <1>6, FS_Interval DEF Dirs
<1>8. Tables \in SUBSET Dirs /\ NewTables \in SUBSET Dirs /\ Taken \in SUBSET PageFrames
  <2>1. \A ip \in PageFrames : ip[2] \in Pages
    BY DEF PageFrames
  <2> QED
    BY <2>1, PagePlace DEF Tables, NewTables, Taken
<1>9. IsFiniteSet(Tables) /\ IsFiniteSet(NewTables) /\ IsFiniteSet(Taken)
  BY <1>5, <1>7, <1>8, FS_Subset
<1>10. Cardinality(ReservedFrames) = First
  <2>1. First \in Nat /\ First > 0 /\ ReservedFrames = 0 .. First - 1
    BY FirstFree, Sizes
  <2>2. Cardinality(0 .. First - 1) = IF 0 > First - 1 THEN 0 ELSE First - 1 - 0 + 1
    BY <2>1, FS_Interval
  <2> QED
    BY <2>1, <2>2
<1> QED
  BY <1>5, <1>9, <1>10, FS_CardinalityType
-----------------------------------------------------------------------------
LEMMA ExecKeeps ==
  ASSUME IInv, NEW f \in Programs \cup OtherFiles \cup Missing, exec_elf(f)
  PROVE  IInv'
<1>1. Good(Memory)' /\ used' = used /\ dir' = dir
  BY DEF IInv, exec_elf, paging, Memory
<1>2. pc = "shell" /\ pc' = "lookup" /\ file' = f
  BY DEF exec_elf
<1>3. Control'
  BY <1>1, <1>2 DEF IInv, Control
<1>4. Walk' /\ Counted' /\ AllMapped' /\ Clean' /\ Filled' /\ NoFault'
  BY <1>2 DEF Walk, Counted, AllMapped, Clean, Filled, NoFault, Running
<1> QED
  BY <1>1, <1>3, <1>4 DEF IInv

LEMMA LookupKeeps == ASSUME IInv, fat32_file_lookup PROVE IInv'
<1>1. Good(Memory)' /\ used' = used /\ dir' = dir /\ file' = file
  BY DEF IInv, fat32_file_lookup, paging, Memory
<1>2. pc = "lookup" /\ pc' \in {"shell", "header"}
  BY DEF fat32_file_lookup
<1>3. Control'
  BY <1>1, <1>2 DEF IInv, Control, fat32_file_lookup
<1>4. Walk' /\ Counted' /\ AllMapped' /\ Clean' /\ Filled' /\ NoFault'
  BY <1>2 DEF Walk, Counted, AllMapped, Clean, Filled, NoFault, Running
<1> QED
  BY <1>1, <1>3, <1>4 DEF IInv

LEMMA CheckKeeps == ASSUME IInv, CheckHeader, pc' = "map" => Behind PROVE IInv'
<1>1. /\ Good(Memory)' /\ used' = used /\ dir' = dir /\ file' = file /\ pc = "header"
      /\ Memory' = Memory
  BY DEF IInv, CheckHeader, paging, Memory
<1>2. CASE file \in OtherFiles /\ BadHeader
  <2>1. pc' = "shell" /\ ~open'
    BY <1>2 DEF BadHeader
  <2>2. Control'
    BY <1>1, <2>1 DEF IInv, Control
  <2>3. Walk' /\ Counted' /\ AllMapped' /\ Clean' /\ Filled' /\ NoFault'
    BY <2>1 DEF Walk, Counted, AllMapped, Clean, Filled, NoFault, Running
  <2> QED
    BY <1>1, <2>2, <2>3 DEF IInv
<1>3. CASE /\ file \notin OtherFiles
           /\ pc' = "map" /\ prog' = Append(HeadersRead(file), Stack) /\ todo' = SegmentPages(prog'[1])
           /\ UNCHANGED open
  <2>1. IsProgram /\ Behind
    BY <1>1, <1>3 DEF IInv, Control, IsProgram
  <2>2. Control'
    BY <1>1, <1>3, <2>1, SameFile DEF IInv, Control
  <2>3. /\ Walked' = Walked /\ prog' = Walked /\ todo' = SegmentPages(Walked[1])
        /\ Len(Walked) \in Nat /\ Len(Walked) >= 1 /\ Walked \in Seq(Segment)
    BY <1>1, <1>3, <2>1, SameFile, ProgramIs DEF Walked
  <2>4. Done' = 0
    BY <2>3 DEF Done
  <2>5. Walk'
    BY <1>3, <2>3, <2>4 DEF Walk
  <2>6. NewTables = {} /\ NewTables' = {}
    BY <1>1 DEF NewTables, IInv, Control
  <2>7. Counted'
    <3>1. First \in First .. TotalFrames /\ used' = 0 .. First - 1 /\ First \in Nat
      BY <1>1, FirstFree, Sizes DEF IInv, Control
    <3>2. Cardinality(Taken') \in Nat /\ Cardinality(NewTables') \in Nat
      <4>1. Taken' \in SUBSET PageFrames
        BY <1>1, SameFile DEF Taken
      <4>2. IsFiniteSet(Taken')
        BY <2>1, <4>1, Finite, FS_Subset
      <4> QED
        BY <2>6, <4>2, FS_CardinalityType, FS_EmptySet
    <3> QED
      BY <2>6, <3>1, <3>2 DEF Counted
  <2>8. AllMapped'
    <3> SUFFICES ASSUME NEW i \in 1 .. Len(Walked), NEW p \in SegmentPages(Walked[i]), Seen(i, p)'
                 PROVE  Lookup(Memory', p) # Zero
      BY <2>3 DEF AllMapped
    <3>1. i = 1 /\ p \notin SegmentPages(Walked[1])
      BY <2>3, <2>4 DEF Seen
    <3> QED
      BY <3>1
  <2>9. \A p \in HighPages : Lookup(Memory, p) = Zero
    <3> SUFFICES ASSUME NEW p \in HighPages PROVE Lookup(Memory, p) = Zero
      OBVIOUS
    <3>1. p \in Pages /\ ~(p < IdentityPages)
      BY PagesAreLowOrHigh, Sizes DEF HighPages
    <3>2. p \div Words \in Dirs /\ p \div Words >= StaticTables
      BY <3>1, PagePlace, Sizes DEF Dirs
    <3>3. Memory.dir[p \div Words] = NoFrame
      BY <1>1, <3>2 DEF IInv, Control, Memory
    <3> QED
      BY <3>1, <3>3, LookupIs DEF IInv, Good
  <2>10. Clean'
    BY <1>1, <2>9 DEF Clean
  <2>11. Filled'
    BY <2>4 DEF Filled
  <2>12. NoFault'
    BY <1>3 DEF NoFault
  <2> QED
    BY <1>1, <2>2, <2>5, <2>7, <2>8, <2>10, <2>11, <2>12 DEF IInv
<1> QED
  BY <1>2, <1>3 DEF CheckHeader

LEMMA MappedKeeps == ASSUME IInv, Mapped PROVE IInv'
<1>1. /\ Good(Memory)' /\ Memory' = Memory /\ phys' = phys /\ used' = used /\ dir' = dir /\ file' = file
      /\ prog' = prog /\ todo' = todo /\ open' = open /\ pc = "map" /\ todo = {} /\ pc' = "fill"
  BY DEF IInv, Mapped, paging, Memory
<1>2. /\ Walked' = Walked /\ Segments' = Segments /\ PageFrames' = PageFrames
      /\ Tables' = Tables /\ Fits' = Fits /\ SeparatePages' = SeparatePages
  BY <1>1, SameFile
<1>3. Done' = Done /\ \A i, p : Seen(i, p)' = Seen(i, p)
  BY <1>1, <1>2 DEF Done, Seen
<1>4. Taken' = Taken /\ NewTables' = NewTables /\ Running' = Running
  BY <1>1, <1>2, <1>3 DEF Taken, NewTables, Running
<1>5. Control' /\ Walk'
  BY <1>1, <1>2, <1>3, SameFile DEF IInv, Control, Walk
<1>6. Counted'
  BY <1>1, <1>2, <1>4 DEF IInv, Counted
<1>7. AllMapped' /\ Clean'
  BY <1>1, <1>2, <1>3, <1>4 DEF IInv, AllMapped, Clean
<1>8. Filled'
  BY <1>1, <1>2, <1>3, <1>4 DEF IInv, Filled, InMemory
<1>9. NoFault'
  BY <1>1 DEF NoFault
<1> QED
  BY <1>1, <1>5, <1>6, <1>7, <1>8, <1>9 DEF IInv
-----------------------------------------------------------------------------
(* Where the loop of exec_elf is.                                          *)
LEMMA AtHeader ==
  ASSUME IInv, pc \in {"map", "fill"}
  PROVE  /\ IsProgram /\ Behind
         /\ Done \in Nat /\ Done + 1 \in 1 .. Len(Walked) /\ prog \in Seq(Segment) /\ prog # <<>>
         /\ Len(prog) \in Nat /\ Len(prog) >= 1 /\ prog[1] = Walked[Done + 1] /\ Head(prog) = prog[1]
         /\ Placed(prog[1]) /\ SegmentPages(prog[1]) \subseteq HighPages
         /\ todo \subseteq SegmentPages(prog[1])
         /\ SegmentPages(prog[1]) \subseteq SegmentPages(Segments[Done + 1])
<1>1. /\ IsProgram /\ Behind
      /\ prog \in Seq(Segment) /\ Len(prog) \in 1 .. Len(Walked)
      /\ \A j \in 1 .. Len(prog) : prog[j] = Walked[Done + j]
      /\ todo \subseteq SegmentPages(prog[1])
  BY DEF IInv, Control, Walk
<1>2. Len(Walked) \in Nat
  BY <1>1, ProgramIs
<1>3. /\ Done \in Nat /\ Done + 1 \in 1 .. Len(Walked) /\ Len(prog) \in Nat /\ Len(prog) >= 1
      /\ prog # <<>> /\ Head(prog) = prog[1]
  BY <1>1, <1>2 DEF Done
<1>4. prog[1] = Walked[Done + 1]
  BY <1>1, <1>3
<1> QED
  BY <1>1, <1>3, <1>4, ProgramIs

(* A program that fits finds room for every page.                          *)
LEMMA RoomLeft ==
  ASSUME IInv, pc = "map", Fits, NEW page \in todo,
         NEW n \in First .. TotalFrames, used = 0 .. n - 1,
         n <= First + Cardinality(Taken) + Cardinality(NewTables)
  PROVE  LET ip == <<Done + 1, page>>
             d == page \div Words
         IN /\ Room(Memory, n, page) /\ n < IdentityPages
            /\ ip \in PageFrames /\ ip \notin Taken /\ d \in Tables /\ d \in Dirs /\ d >= StaticTables
            /\ dir[d] = NoFrame => n + 1 < IdentityPages
<1> DEFINE ip == <<Done + 1, page>>
           d == page \div Words
<1>0. /\ IsProgram /\ Behind /\ Running
      /\ First \in Nat /\ IdentityPages \in Nat /\ n \in Nat
  BY AtHeader, FirstFree, Sizes DEF Running
<1>1. page \in SegmentPages(Segments[Done + 1]) /\ page \in HighPages /\ page \in Pages
      /\ Done \in Nat /\ Done + 1 \in 1 .. Len(Segments)
  BY <1>0, AtHeader, ProgramIs, PagesAreLowOrHigh
<1>2. ip \in PageFrames /\ ip[1] = Done + 1 /\ ip[2] = page
  BY <1>1 DEF PageFrames
<1>3. ip \notin Taken
  BY <1>1, <1>2 DEF Taken, Seen
<1>4. d \in Dirs /\ d >= StaticTables /\ d \in Tables
  <2>1. ~(page < IdentityPages)
    BY <1>1, Sizes DEF HighPages
  <2>2. d \in Dirs /\ d >= StaticTables
    BY <1>1, <2>1, PagePlace, Sizes DEF Dirs
  <2>3. d \in Tables
    BY <1>2 DEF Tables
  <2> QED
    BY <2>2, <2>3
<1> HIDE DEF ip, d
<1>5. /\ IsFiniteSet(PageFrames) /\ Cardinality(PageFrames) \in Nat
      /\ IsFiniteSet(Tables) /\ Cardinality(Tables) \in Nat
      /\ IsFiniteSet(Taken) /\ Cardinality(Taken) \in Nat
      /\ IsFiniteSet(NewTables) /\ Cardinality(NewTables) \in Nat
      /\ Cardinality(ReservedFrames) = First
  BY <1>0, Finite
<1>6. Cardinality(Taken) + 1 <= Cardinality(PageFrames)
  <2>1. Cardinality(Taken \cup {ip}) = Cardinality(Taken) + 1
    BY <1>3, <1>5, FS_AddElement
  <2>2. Taken \cup {ip} \in SUBSET PageFrames
    BY <1>2 DEF Taken
  <2> QED
    BY <1>5, <2>1, <2>2, FS_Subset
<1>7. NewTables \in SUBSET Tables
  BY <1>0 DEF IInv, Counted
<1>8. Cardinality(NewTables) <= Cardinality(Tables)
  BY <1>5, <1>7, FS_Subset
<1>9. Cardinality(PageFrames) + Cardinality(Tables) <= IdentityPages - First
  BY <1>5 DEF Fits
<1>10. n < IdentityPages
  BY <1>0, <1>5, <1>6, <1>8, <1>9
<1>11. ASSUME dir[d] = NoFrame PROVE n + 1 < IdentityPages
  <2>1. d \notin NewTables
    BY <1>11 DEF NewTables
  <2>2. Cardinality(NewTables \cup {d}) = Cardinality(NewTables) + 1
    BY <1>5, <2>1, FS_AddElement
  <2>3. NewTables \cup {d} \in SUBSET Tables
    BY <1>4, <1>7
  <2>4. Cardinality(NewTables) + 1 <= Cardinality(Tables)
    BY <1>5, <2>2, <2>3, FS_Subset
  <2> QED
    BY <1>0, <1>5, <1>6, <1>9, <2>4
<1>12. dir[d] # NoFrame => dir[d] < IdentityPages
  <2>1. dir[d] # NoFrame => dir[d] \in used
    BY <1>4 DEF IInv, Good, OwnTables, Memory
  <2> QED
    BY <1>0, <1>10, <2>1
<1>13. Room(Memory, n, page)
  BY <1>10, <1>11, <1>12 DEF Room, Memory, d
<1> QED
  BY <1>2, <1>3, <1>4, <1>10, <1>11, <1>13 DEF ip, d
-----------------------------------------------------------------------------
LEMMA MapKeeps == ASSUME IInv, MapNext PROVE IInv'
<1> DEFINE page == Min(todo)
           r == MapUserPage(Memory, page)
           d == page \div Words
           ip == <<Done + 1, page>>
<1>1. /\ pc = "map" /\ todo # {} /\ SetMemory(r) /\ todo' = todo \ {page}
      /\ pc' = (IF r.fault THEN "fault"
                ELSE IF page \in ReservedFrames /\ FreeFrames(Memory) # {} THEN "lost" ELSE "map")
      /\ prog' = prog /\ open' = open /\ file' = file
  BY DEF MapNext
<1>2. /\ IsProgram /\ Behind
      /\ todo \subseteq SegmentPages(prog[1]) /\ SegmentPages(prog[1]) \subseteq HighPages
      /\ Done \in Nat
  BY <1>1, AtHeader
<1>3. page \in todo /\ page \in HighPages /\ page \in Pages
  <2>1. todo \in SUBSET Nat
    BY <1>2, Sizes DEF HighPages
  <2>2. page \in todo
    BY <1>1, <2>1, MinNat
  <2> QED
    BY <1>2, <2>2, PagesAreLowOrHigh
<1> HIDE DEF page
<1>4. Good(Memory)
  BY DEF IInv
<1>5. Good(r)
  <2>1. PICK n \in First .. TotalFrames : used = 0 .. n - 1
    BY <1>4 DEF Good, Shape, Memory
  <2>2. Memory.used = 0 .. n - 1
    BY <2>1 DEF Memory
  <2> QED
    BY <1>3, <1>4, <2>2, PageMapped
<1>6. /\ Good(Memory)'
      /\ \A p \in Pages : Lookup(Memory', p) = Lookup(r, p) /\ FrameOf(Memory', p) = FrameOf(r, p)
      /\ phys' = r.phys /\ used' = r.used /\ dir' = r.dir
  BY <1>1, <1>5, MemoryIs
<1>7. /\ Walked' = Walked /\ Segments' = Segments /\ PageFrames' = PageFrames
      /\ Tables' = Tables /\ Fits' = Fits /\ SeparatePages' = SeparatePages
  BY <1>1, SameFile
<1>8. Done' = Done
  BY <1>1, <1>7 DEF Done
<1>9. pc' = (IF r.fault THEN "fault" ELSE "map")
  <2>1. page \notin ReservedFrames
    BY <1>3, FirstFree, Sizes DEF HighPages
  <2> QED
    BY <1>1, <2>1
<1>10. Control'
  BY <1>1, <1>2, <1>9, SameFile DEF IInv, Control
<1>11. Walk'
  BY <1>1, <1>7, <1>8, <1>9 DEF IInv, Walk
<1>12. CASE ~Fits
  <2>1. ~Running' /\ NoFault'
    BY <1>7, <1>12 DEF Running, NoFault
  <2>2. Counted' /\ AllMapped' /\ Clean' /\ Filled'
    BY <2>1 DEF Counted, AllMapped, Clean, Filled
  <2> QED
    BY <1>6, <1>10, <1>11, <2>1, <2>2 DEF IInv
<1>13. CASE Fits
  <2>0. Running
    BY <1>1, <1>13 DEF Running
  <2>1. PICK n \in First .. TotalFrames :
          used = 0 .. n - 1 /\ n <= First + Cardinality(Taken) + Cardinality(NewTables)
    BY <2>0 DEF IInv, Counted
  <2>2. /\ Room(Memory, n, page) /\ n < IdentityPages
        /\ ip \in PageFrames /\ ip \notin Taken /\ d \in Tables /\ d \in Dirs /\ d >= StaticTables
        /\ dir[d] = NoFrame => n + 1 < IdentityPages
    BY <1>1, <1>3, <1>13, <2>1, RoomLeft
  <2>3. PageAdded(Memory, n, page, r)
    <3>1. Memory.used = 0 .. n - 1
      BY <2>1 DEF Memory
    <3> QED
      BY <1>3, <1>4, <2>2, <3>1, PageMapped
  <2>4. n \in Nat /\ First \in Nat /\ IdentityPages \in Nat /\ TotalFrames \in Nat /\ IdentityPages <= TotalFrames
    BY FirstFree, Sizes
  <2> HIDE DEF r
  <2>5. r.fault = FALSE /\ pc' = "map"
    <3>1. r.fault = Memory.fault
      BY <2>3 DEF PageAdded
    <3> QED
      BY <1>9, <3>1 DEF Memory
  <2>6. /\ Lookup(Memory', page) # Zero /\ FrameOf(Memory', page) = n
        /\ \A p \in Pages \ {page} : Lookup(Memory', p) = Lookup(Memory, p) /\ FrameOf(Memory', p) = FrameOf(Memory, p)
        /\ \A o \in Offsets : phys'[n][o] = Zero
        /\ \A g \in Frames : g < n /\ ~IsTable(Memory, g) => phys'[g] = phys[g]
    BY <1>3, <1>6, <2>3 DEF PageAdded, Memory
  <2>7. IF dir[d] = NoFrame
        THEN used' = 0 .. n + 1 /\ dir' = [dir EXCEPT ![d] = n + 1]
        ELSE used' = 0 .. n /\ dir' = dir
    BY <1>6, <2>3 DEF PageAdded, Memory
  (* The frames of a program's pages are not disturbed.                    *)
  <2>8. \A p \in HighPages : Lookup(Memory, p) # Zero => phys'[FrameOf(Memory, p)] = phys[FrameOf(Memory, p)]
    <3> SUFFICES ASSUME NEW p \in HighPages, Lookup(Memory, p) # Zero
                 PROVE  phys'[FrameOf(Memory, p)] = phys[FrameOf(Memory, p)]
      OBVIOUS
    <3>1. p \in Pages
      BY PagesAreLowOrHigh
    <3>2. FrameOf(Memory, p) \in Frames
      BY <1>4, <3>1, LookupIs DEF Good
    <3>3. FrameOf(Memory, p) \in used /\ ~IsTable(Memory, FrameOf(Memory, p))
      BY <1>4 DEF Good, OwnFrames, Memory
    <3>4. FrameOf(Memory, p) < n
      BY <2>1, <2>4, <3>3
    <3> QED
      BY <2>6, <3>2, <3>3, <3>4
  <2>9. Counted'
    <3>0. /\ IsFiniteSet(Taken) /\ Cardinality(Taken) \in Nat
          /\ IsFiniteSet(NewTables) /\ Cardinality(NewTables) \in Nat
      BY <1>2, Finite
    <3>1. Taken' = Taken \cup {ip}
      <4>1. \A q \in PageFrames : q = ip <=> q[1] = Done + 1 /\ q[2] = page
        BY DEF PageFrames
      <4>2. Taken' = {q \in PageFrames : q[1] <= Done \/ (q[1] = Done + 1 /\ q[2] \notin todo \ {page})}
        BY <1>1, <1>7, <1>8 DEF Taken, Seen
      <4>3. Taken = {q \in PageFrames : q[1] <= Done \/ (q[1] = Done + 1 /\ q[2] \notin todo)}
        BY DEF Taken, Seen
      <4> QED
        BY <2>2, <4>1, <4>2, <4>3
    <3>2. Cardinality(Taken') = Cardinality(Taken) + 1
      BY <2>2, <3>0, <3>1, FS_AddElement
    <3>3. NewTables \subseteq Tables
      BY <2>0 DEF IInv, Counted
    <3>4. CASE dir[d] = NoFrame
      <4>1. used' = 0 .. (n + 2) - 1 /\ dir' = [dir EXCEPT ![d] = n + 1]
        BY <2>4, <2>7, <3>4
      <4>2. n + 1 # NoFrame
        <5>1. n + 1 \in Frames
          BY <2>2, <2>4, <3>4 DEF Frames
        <5> QED
          BY <5>1, Sizes
      <4>3. dir \in [Dirs -> Frames \cup {NoFrame}]
        BY <1>4 DEF Good, Shape, Memory
      <4>4. NewTables' = NewTables \cup {d} /\ d \notin NewTables
        BY <2>2, <3>4, <4>1, <4>2, <4>3 DEF NewTables
      <4>5. Cardinality(NewTables') = Cardinality(NewTables) + 1
        BY <3>0, <4>4, FS_AddElement
      <4>6. n + 2 \in First .. TotalFrames
        BY <2>2, <2>4, <3>4
      <4>7. n + 2 <= First + Cardinality(Taken') + Cardinality(NewTables')
        BY <2>1, <2>4, <3>0, <3>2, <4>5
      <4> QED
        BY <1>7, <2>2, <3>3, <4>1, <4>4, <4>6, <4>7 DEF Counted
    <3>5. CASE dir[d] # NoFrame
      <4>1. used' = 0 .. (n + 1) - 1 /\ dir' = dir
        BY <2>4, <2>7, <3>5
      <4>2. NewTables' = NewTables
        BY <4>1 DEF NewTables
      <4>3. n + 1 \in First .. TotalFrames
        BY <2>2, <2>4
      <4>4. n + 1 <= First + Cardinality(Taken') + Cardinality(NewTables')
        BY <2>1, <2>4, <3>0, <3>2, <4>2
      <4> QED
        BY <1>7, <3>3, <4>1, <4>2, <4>3, <4>4 DEF Counted
    <3> QED
      BY <3>4, <3>5
  <2>10. AllMapped'
    <3> SUFFICES ASSUME NEW i \in 1 .. Len(Walked), NEW p \in SegmentPages(Walked[i]), Seen(i, p)'
                 PROVE  Lookup(Memory', p) # Zero
      BY <1>7 DEF AllMapped
    <3>1. CASE p = page
      BY <2>6, <3>1
    <3>2. CASE p # page
      <4>1. Seen(i, p)
        BY <1>1, <1>8, <3>2 DEF Seen
      <4>2. Lookup(Memory, p) # Zero
        BY <2>0, <4>1 DEF IInv, AllMapped
      <4>3. p \in Pages
        BY <1>2, ProgramIs, PagesAreLowOrHigh
      <4> QED
        BY <2>6, <3>2, <4>2, <4>3
    <3> QED
      BY <3>1, <3>2
  <2>11. Clean'
    <3> SUFFICES ASSUME NEW p \in HighPages, Lookup(Memory', p) # Zero, NEW o \in Offsets
                 PROVE  phys'[FrameOf(Memory', p)][o] # Junk
      BY DEF Clean
    <3>1. CASE p = page
      BY <2>6, <3>1, LoaderAssumption
    <3>2. CASE p # page
      <4>1. p \in Pages
        BY PagesAreLowOrHigh
      <4>2. Lookup(Memory, p) # Zero /\ FrameOf(Memory', p) = FrameOf(Memory, p)
        BY <2>6, <3>2, <4>1
      <4> QED
        BY <2>0, <2>8, <4>2 DEF IInv, Clean
    <3> QED
      BY <3>1, <3>2
  <2>12. Filled'
    <3> SUFFICES ASSUME SeparatePages, Walked = Segments, NEW i \in 1 .. Done, Segments[i].load
                 PROVE  InMemory(Segments[i])'
      BY <1>7, <1>8 DEF Filled
    <3> DEFINE s == Segments[i]
    <3>0. i \in 1 .. Len(Walked) /\ Done + 1 \in 1 .. Len(Walked) /\ i # Done + 1
      BY <1>1, AtHeader
    <3>1. Placed(s) /\ s.load /\ DOMAIN Segments = 1 .. Len(Walked)
      BY <1>2, <3>0, ProgramIs
    <3>2. InMemory(s)
      BY <2>0 DEF IInv, Filled
    <3>3. page \in SegmentPages(Segments[Done + 1])
      BY <1>1, <1>3, AtHeader
    <3>4. page \notin SegmentPages(s)
      BY <3>0, <3>1, <3>3 DEF SeparatePages
    <3> HIDE DEF s
    <3>5. ASSUME NEW w \in DOMAIN Image(s)
          PROVE  FrameOf(Memory', w \div Words) # NoFrame
                 /\ phys'[FrameOf(Memory', w \div Words)][w % Words] = Image(s)[w]
      <4>1. w \div Words \in HighPages /\ w \div Words \in Pages /\ w \div Words # page
        BY <3>1, <3>4, ImageIs, SegmentIn, PagesAreLowOrHigh DEF Placed
      <4>2. FrameOf(Memory, w \div Words) # NoFrame
            /\ phys[FrameOf(Memory, w \div Words)][w % Words] = Image(s)[w]
        BY <3>2 DEF InMemory
      <4>3. Lookup(Memory, w \div Words) # Zero
        BY <1>4, <4>1, <4>2, LookupIs DEF Good
      <4>4. FrameOf(Memory', w \div Words) = FrameOf(Memory, w \div Words)
        BY <2>6, <4>1
      <4> QED
        BY <2>8, <4>1, <4>2, <4>3, <4>4
    <3>6. s' = s
      BY <1>7 DEF s
    <3>7. InMemory(s)'
      BY <3>5, <3>6 DEF InMemory
    <3> QED
      BY <3>7 DEF s
  <2>13. NoFault'
    BY <2>5 DEF NoFault
  <2> QED
    BY <1>6, <1>10, <1>11, <2>9, <2>10, <2>11, <2>12, <2>13 DEF IInv
<1> QED
  BY <1>12, <1>13
-----------------------------------------------------------------------------
(* What the fill of header s does to memory, loaded or not.                *)
LEMMA FillEffect ==
  ASSUME NEW m, Good(m), NEW s, Placed(s),
         NEW r, r = IF s.load THEN Stores(m, Image(s)) ELSE m
  PROVE  /\ Good(r) /\ r.used = m.used /\ r.dir = m.dir
         /\ \A p \in Pages : Lookup(r, p) = Lookup(m, p) /\ FrameOf(r, p) = FrameOf(m, p)
         /\ (\A p \in SegmentPages(s) : Lookup(m, p) # Zero) =>
              /\ r.fault = m.fault
              /\ s.load => \A w \in DOMAIN Image(s) : r.phys[FrameOf(m, w \div Words)][w % Words] = Image(s)[w]
         /\ \A f \in Frames, o \in Offsets :
              \/ r.phys[f][o] = m.phys[f][o]
              \/ /\ r.phys[f][o] # Junk
                 /\ \E p \in SegmentPages(s) : FrameOf(m, p) = f
<1>1. CASE ~s.load
  BY <1>1
<1>2. CASE s.load
  <2>1. ImageStored(m, s, r)
    BY <1>2, SegmentFilled
  <2>2. /\ Good(r) /\ r.used = m.used /\ r.dir = m.dir
        /\ \A p \in Pages : Lookup(r, p) = Lookup(m, p) /\ FrameOf(r, p) = FrameOf(m, p)
        /\ Stored(m, DOMAIN Image(s), Image(s), r)
    BY <2>1 DEF ImageStored
  <2>3. \A w \in DOMAIN Image(s) : /\ Image(s)[w] # Junk /\ w \div Words \in SegmentPages(s)
                                   /\ w \div Words \in Pages
    BY <1>2, ImageIs, SegmentIn DEF Placed
  <2>4. ASSUME \A p \in SegmentPages(s) : Lookup(m, p) # Zero
        PROVE  /\ r.fault = m.fault
               /\ \A w \in DOMAIN Image(s) : r.phys[FrameOf(m, w \div Words)][w % Words] = Image(s)[w]
    <3>1. \A w \in DOMAIN Image(s) : FrameOf(m, w \div Words) \in Frames
      BY <2>3, <2>4, LookupIs DEF Good
    <3>2. \A w \in DOMAIN Image(s) : FrameOf(m, w \div Words) # NoFrame
      BY <3>1, Sizes
    <3> QED
      BY <2>2, <3>2 DEF Stored
  <2>5. \A f \in Frames, o \in Offsets :
          \/ r.phys[f][o] = m.phys[f][o]
          \/ /\ r.phys[f][o] # Junk
             /\ \E p \in SegmentPages(s) : FrameOf(m, p) = f
    BY <2>2, <2>3 DEF Stored
  <2> QED
    BY <2>2, <2>4, <2>5
<1> QED
  BY <1>1, <1>2

LEMMA FillKeeps == ASSUME IInv, Fill PROVE IInv'
<1> DEFINE s == Head(prog)
           rest == Tail(prog)
           r == IF s.load THEN Stores(Memory, Image(s)) ELSE Memory
<1>1. /\ pc = "fill" /\ SetMemory(r) /\ prog' = rest /\ file' = file
      /\ todo' = (IF rest = <<>> THEN {} ELSE SegmentPages(Head(rest)))
      /\ pc' = (IF r.fault THEN "fault" ELSE IF rest = <<>> THEN "user" ELSE "map")
      /\ open' = (rest # <<>> \/ r.fault)
  BY DEF Fill
<1>2. /\ IsProgram /\ Behind
      /\ Done \in Nat /\ Done + 1 \in 1 .. Len(Walked) /\ prog \in Seq(Segment) /\ prog # <<>>
      /\ Len(prog) \in Nat /\ Len(prog) >= 1 /\ s = Walked[Done + 1]
      /\ Placed(s) /\ SegmentPages(s) \subseteq HighPages
  BY <1>1, AtHeader
<1>3. todo = {}
  BY <1>1 DEF IInv, Walk
<1>4. Len(Walked) \in Nat /\ Walked \in Seq(Segment) /\ DOMAIN Segments = 1 .. Len(Walked)
      /\ \A i \in 1 .. Len(Walked) : Placed(Segments[i]) /\ Placed(Walked[i])
                                     /\ SegmentPages(Walked[i]) \subseteq HighPages
  BY <1>2, ProgramIs
<1>5. /\ rest \in Seq(Segment) /\ Len(rest) = Len(prog) - 1
      /\ \A j \in 1 .. Len(rest) : rest[j] = prog[j + 1]
      /\ rest = <<>> <=> Len(rest) = 0
      /\ rest # <<>> => Head(rest) = rest[1]
  <2>1. rest \in Seq(Segment) /\ Len(rest) = Len(prog) - 1
    BY <1>2
  <2>2. \A j \in 1 .. Len(rest) : rest[j] = prog[j + 1]
    BY <1>2
  <2> HIDE DEF rest
  <2>3. (rest = <<>> <=> Len(rest) = 0) /\ (rest # <<>> => Head(rest) = rest[1])
    BY <2>1
  <2> QED
    BY <2>1, <2>2, <2>3
<1>6. Good(Memory)
  BY DEF IInv
<1> HIDE DEF r, s, rest
<1>7. /\ Good(r) /\ r.used = Memory.used /\ r.dir = Memory.dir
      /\ \A p \in Pages : Lookup(r, p) = Lookup(Memory, p) /\ FrameOf(r, p) = FrameOf(Memory, p)
      /\ (\A p \in SegmentPages(s) : Lookup(Memory, p) # Zero) =>
           /\ r.fault = Memory.fault
           /\ s.load => \A w \in DOMAIN Image(s) : r.phys[FrameOf(Memory, w \div Words)][w % Words] = Image(s)[w]
      /\ \A f \in Frames, o \in Offsets :
           \/ r.phys[f][o] = Memory.phys[f][o]
           \/ /\ r.phys[f][o] # Junk
              /\ \E p \in SegmentPages(s) : FrameOf(Memory, p) = f
  BY <1>2, <1>6, FillEffect DEF r
<1>8. /\ Good(Memory)' /\ phys' = r.phys /\ used' = used /\ dir' = dir
      /\ \A p \in Pages : Lookup(Memory', p) = Lookup(Memory, p) /\ FrameOf(Memory', p) = FrameOf(Memory, p)
  BY <1>1, <1>7, MemoryIs DEF Memory
<1>9. \A f \in Frames, o \in Offsets :
        \/ phys'[f][o] = phys[f][o]
        \/ /\ phys'[f][o] # Junk
           /\ \E p \in SegmentPages(s) : FrameOf(Memory, p) = f
  BY <1>7, <1>8 DEF Memory
<1>10. /\ Walked' = Walked /\ Segments' = Segments /\ PageFrames' = PageFrames
       /\ Tables' = Tables /\ Fits' = Fits /\ SeparatePages' = SeparatePages
  BY <1>1, SameFile
<1>11. Done' = Done + 1 /\ Len(Walked) = Done + Len(prog)
  BY <1>1, <1>2, <1>4, <1>5, <1>10 DEF Done
<1>12. Control'
  <2>1. pc' \in {"map", "user", "fault"} /\ (pc' = "user" => ~open')
    BY <1>1
  <2> QED
    BY <1>1, <1>2, <2>1, SameFile DEF Control
<1>13. Walk'
  <2>1. ASSUME pc' = "map"
        PROVE  /\ prog' \in Seq(Segment) /\ Len(prog') \in 1 .. Len(Walked)
               /\ \A j \in 1 .. Len(prog') : prog'[j] = Walked[Done' + j]
               /\ todo' \subseteq SegmentPages(prog'[1])
    <3>1. rest # <<>>
      BY <1>1, <2>1
    <3>2. Len(prog') \in 1 .. Len(Walked) /\ prog' = rest
      BY <1>1, <1>2, <1>5, <1>11, <3>1
    <3>3. \A j \in 1 .. Len(prog) : prog[j] = Walked[Done + j]
      BY <1>1 DEF IInv, Walk
    <3>4. \A j \in 1 .. Len(rest) : rest[j] = Walked[Done' + j]
      <4> SUFFICES ASSUME NEW j \in 1 .. Len(rest) PROVE rest[j] = Walked[Done' + j]
        OBVIOUS
      <4>1. j + 1 \in 1 .. Len(prog) /\ rest[j] = prog[j + 1] /\ Done' + j = Done + (j + 1)
        BY <1>2, <1>5, <1>11
      <4> QED
        BY <3>3, <4>1
    <3> QED
      BY <1>1, <1>5, <3>1, <3>2, <3>4
  <2>2. pc' # "fill" /\ (pc' = "user" => prog' = <<>>)
    BY <1>1
  <2> QED
    BY <1>10, <2>1, <2>2 DEF Walk
<1>14. CASE ~Fits
  <2>1. ~Running' /\ NoFault'
    BY <1>10, <1>14 DEF Running, NoFault
  <2>2. Counted' /\ AllMapped' /\ Clean' /\ Filled'
    BY <2>1 DEF Counted, AllMapped, Clean, Filled
  <2> QED
    BY <1>8, <1>12, <1>13, <2>1, <2>2 DEF IInv
<1>15. CASE Fits
  <2>0. Running
    BY <1>1, <1>15 DEF Running
  <2>1. \A p \in SegmentPages(s) : Lookup(Memory, p) # Zero
    BY <1>2, <1>3, <2>0 DEF IInv, AllMapped, Seen
  <2>2. /\ r.fault = FALSE
        /\ s.load => \A w \in DOMAIN Image(s) : phys'[FrameOf(Memory, w \div Words)][w % Words] = Image(s)[w]
    BY <1>7, <1>8, <2>1 DEF Memory
  <2>3. NoFault'
    BY <1>1, <2>2 DEF NoFault
  <2>4. Counted'
    <3>1. PICK n \in First .. TotalFrames :
            used = 0 .. n - 1 /\ n <= First + Cardinality(Taken) + Cardinality(NewTables)
      BY <2>0 DEF IInv, Counted
    <3>2. NewTables' = NewTables /\ NewTables \subseteq Tables
      BY <1>8, <2>0 DEF NewTables, IInv, Counted
    <3>3. IsFiniteSet(PageFrames) /\ Cardinality(Taken) \in Nat /\ Cardinality(NewTables) \in Nat
      BY <1>2, Finite
    <3>4. Taken' \in SUBSET PageFrames /\ Taken \in SUBSET Taken'
      <4>1. \A q \in PageFrames : q[1] \in Nat
        BY DEF PageFrames
      <4>2. \A q \in PageFrames : Seen(q[1], q[2]) => Seen(q[1], q[2])'
        BY <1>2, <1>11, <4>1 DEF Seen
      <4> QED
        BY <1>10, <4>2 DEF Taken
    <3>5. IsFiniteSet(Taken')
      BY <3>3, <3>4, FS_Subset
    <3>6. Cardinality(Taken) <= Cardinality(Taken') /\ Cardinality(Taken') \in Nat
      BY <3>4, <3>5, FS_Subset, FS_CardinalityType
    <3>7. n <= First + Cardinality(Taken') + Cardinality(NewTables')
      BY <3>1, <3>2, <3>3, <3>6, FirstFree, Sizes
    <3> QED
      BY <1>8, <1>10, <3>1, <3>2, <3>7 DEF Counted
  <2>5. AllMapped'
    <3> SUFFICES ASSUME NEW i \in 1 .. Len(Walked), NEW p \in SegmentPages(Walked[i]), Seen(i, p)'
                 PROVE  Lookup(Memory', p) # Zero
      BY <1>10 DEF AllMapped
    <3>1. p \in Pages
      BY <1>4, PagesAreLowOrHigh
    <3>2. CASE i <= Done + 1
      <4>1. Seen(i, p)
        BY <1>2, <1>3, <3>2 DEF Seen
      <4> QED
        BY <1>8, <2>0, <3>1, <4>1 DEF IInv, AllMapped
    <3>3. CASE i > Done + 1
      <4>1. i = Done + 2 /\ p \notin todo'
        BY <1>2, <1>11, <3>3 DEF Seen
      <4>2. rest # <<>> /\ rest[1] = prog[2] /\ 2 \in 1 .. Len(prog)
        BY <1>2, <1>4, <1>5, <1>11, <4>1
      <4>3. prog[2] = Walked[Done + 2]
        BY <1>1, <4>2 DEF IInv, Walk
      <4>4. todo' = SegmentPages(Walked[i])
        BY <1>1, <1>5, <4>1, <4>2, <4>3
      <4> QED
        BY <4>1, <4>4
    <3> QED
      BY <1>2, <3>2, <3>3
  <2>6. Clean'
    <3> SUFFICES ASSUME NEW p \in HighPages, Lookup(Memory', p) # Zero, NEW o \in Offsets
                 PROVE  phys'[FrameOf(Memory', p)][o] # Junk
      BY DEF Clean
    <3>1. p \in Pages
      BY PagesAreLowOrHigh
    <3>2. Lookup(Memory, p) # Zero /\ FrameOf(Memory', p) = FrameOf(Memory, p)
      BY <1>8, <3>1
    <3>3. FrameOf(Memory, p) \in Frames
      BY <1>6, <3>1, <3>2, LookupIs DEF Good
    <3>4. phys[FrameOf(Memory, p)][o] # Junk
      BY <2>0, <3>2 DEF IInv, Clean
    <3> QED
      BY <1>9, <3>2, <3>3, <3>4
  <2>7. Filled'
    <3> SUFFICES ASSUME SeparatePages, Walked = Segments, NEW i \in 1 .. Done + 1, Segments[i].load
                 PROVE  InMemory(Segments[i])'
      BY <1>10, <1>11 DEF Filled
    <3> DEFINE z == Segments[i]
    <3>0. i \in 1 .. Len(Walked)
      BY <1>2, <1>4
    <3>1. Placed(z) /\ z.load
      BY <1>4, <3>0
    <3>2. \A w \in DOMAIN Image(z) : /\ w \in Nat /\ w \div Words \in SegmentPages(z)
                                     /\ w \div Words \in HighPages /\ w \div Words \in Pages
      BY <3>1, ImageIs, SegmentIn, PagesAreLowOrHigh DEF Placed
    <3>3. \A w \in DOMAIN Image(z) : FrameOf(Memory, w \div Words) # NoFrame
                                     /\ phys'[FrameOf(Memory, w \div Words)][w % Words] = Image(z)[w]
      <4>1. CASE i = Done + 1
        <5>1. z = s
          BY <1>2, <4>1
        <5>2. \A w \in DOMAIN Image(z) : FrameOf(Memory, w \div Words) \in Frames
          BY <1>6, <2>1, <3>2, <5>1, LookupIs DEF Good
        <5> QED
          BY <2>2, <3>1, <5>1, <5>2, Sizes
      <4>2. CASE i # Done + 1
        <5>1. InMemory(z)
          <6>1. i \in 1 .. Done
            BY <1>2, <4>2
          <6> QED
            BY <2>0, <3>1, <6>1 DEF IInv, Filled
        <5>2. SegmentPages(z) \cap SegmentPages(s) = {}
          BY <1>2, <1>4, <3>0, <4>2 DEF SeparatePages
        <5> SUFFICES ASSUME NEW w \in DOMAIN Image(z)
                     PROVE  FrameOf(Memory, w \div Words) # NoFrame
                            /\ phys'[FrameOf(Memory, w \div Words)][w % Words] = Image(z)[w]
          OBVIOUS
        <5> DEFINE f == FrameOf(Memory, w \div Words)
        <5>3. f # NoFrame /\ phys[f][w % Words] = Image(z)[w]
          BY <5>1 DEF InMemory
        <5>4. Lookup(Memory, w \div Words) # Zero /\ f \in Frames
          BY <1>6, <3>2, <5>3, LookupIs DEF Good
        <5>5. w % Words \in Offsets
          BY <3>2, Sizes, DivMod DEF Offsets
        <5>6. \A p \in SegmentPages(s) : FrameOf(Memory, p) # f
          <6> SUFFICES ASSUME NEW p \in SegmentPages(s), FrameOf(Memory, p) = f PROVE FALSE
            OBVIOUS
          <6>1. p = w \div Words
            BY <1>2, <1>6, <2>1, <3>2, <5>4 DEF Good, OwnFrames
          <6> QED
            BY <3>2, <5>2, <6>1
        <5> QED
          BY <1>9, <5>3, <5>4, <5>5, <5>6
      <4> QED
        BY <4>1, <4>2
    <3>4. \A w \in DOMAIN Image(z) : FrameOf(Memory', w \div Words) = FrameOf(Memory, w \div Words)
      BY <1>8, <3>2
    <3>5. z' = z
      BY <1>10
    <3> HIDE DEF z
    <3>6. InMemory(z)'
      BY <3>3, <3>4, <3>5 DEF InMemory
    <3> QED
      BY <3>6 DEF z
  <2> QED
    BY <1>8, <1>12, <1>13, <2>3, <2>4, <2>5, <2>6, <2>7 DEF IInv
<1> QED
  BY <1>14, <1>15
-----------------------------------------------------------------------------
LEMMA StutterKeeps == ASSUME IInv, UNCHANGED vars PROVE IInv'
<1>1. /\ Memory' = Memory /\ phys' = phys /\ used' = used /\ dir' = dir /\ pc' = pc /\ prog' = prog
      /\ todo' = todo /\ open' = open /\ file' = file
  BY DEF vars, paging, Memory
<1>2. /\ Walked' = Walked /\ Segments' = Segments /\ PageFrames' = PageFrames
      /\ Tables' = Tables /\ Fits' = Fits /\ SeparatePages' = SeparatePages
  BY <1>1, SameFile
<1>3. Done' = Done /\ \A i, p : Seen(i, p)' = Seen(i, p)
  BY <1>1, <1>2 DEF Done, Seen
<1>4. Taken' = Taken /\ NewTables' = NewTables /\ Running' = Running
  BY <1>1, <1>2, <1>3 DEF Taken, NewTables, Running
<1>5. Good(Memory)' /\ Control' /\ Walk'
  BY <1>1, <1>2, <1>3, SameFile DEF IInv, Control, Walk
<1>6. Counted'
  BY <1>1, <1>2, <1>4 DEF IInv, Counted
<1>7. AllMapped' /\ Clean'
  BY <1>1, <1>2, <1>3, <1>4 DEF IInv, AllMapped, Clean
<1>8. Filled'
  BY <1>1, <1>2, <1>3, <1>4 DEF IInv, Filled, InMemory
<1>9. NoFault'
  BY <1>1, <1>2 DEF IInv, NoFault
<1> QED
  BY <1>5, <1>6, <1>7, <1>8, <1>9 DEF IInv

LEMMA NoOverwrite == ASSUME IInv, Overwrite PROVE FALSE
<1>1. pc = "fill" /\ InPlace(prog[1]) # {}
  <2>1. pc = "fill" /\ InPlace(Head(prog)) # {}
    BY DEF Overwrite
  <2> QED
    BY <2>1, AtHeader
<1>2. SegmentPages(prog[1]) \subseteq HighPages
  BY <1>1, AtHeader
<1>3. \A p \in HighPages : ~(p < IdentityPages)
  BY Sizes DEF HighPages
<1> QED
  BY <1>1, <1>2, <1>3 DEF InPlace

(* A program with a segment in the identity map, from where it is found on.*)
Elsewhere == ~Behind /\ pc \in {"map", "fill", "user", "fault", "lost"}

LEMMA NextIInv == IInv /\ [Next]_vars => IInv' \/ Elsewhere'
<1> SUFFICES ASSUME IInv, [Next]_vars PROVE IInv' \/ Elsewhere'
  OBVIOUS
<1>1. CASE \E f \in Programs \cup OtherFiles \cup Missing : exec_elf(f)
  BY <1>1, ExecKeeps
<1>2. CASE fat32_file_lookup
  BY <1>2, LookupKeeps
<1>3. CASE CheckHeader
  <2>1. CASE pc' = "map" => Behind
    BY <1>3, <2>1, CheckKeeps
  <2>2. CASE pc' = "map" /\ ~Behind
    <3>1. file' = file
      BY <1>3 DEF CheckHeader
    <3> QED
      BY <2>2, <3>1, SameFile DEF Elsewhere
  <2> QED
    BY <2>1, <2>2
<1>4. CASE MapNext
  BY <1>4, MapKeeps
<1>5. CASE Mapped
  BY <1>5, MappedKeeps
<1>6. CASE Overwrite
  BY <1>6, NoOverwrite
<1>7. CASE Fill
  BY <1>7, FillKeeps
<1>8. CASE Stopped \/ UNCHANGED vars
  BY <1>8, StutterKeeps DEF Stopped
<1> QED
  BY <1>1, <1>2, <1>3, <1>4, <1>5, <1>6, <1>7, <1>8 DEF Next

LEMMA NextElsewhere == Elsewhere /\ [Next]_vars => Elsewhere'
<1> SUFFICES ASSUME Elsewhere, [Next]_vars PROVE Elsewhere'
  OBVIOUS
<1>1. pc \in {"map", "fill", "user", "fault", "lost"} /\ ~Behind
  BY DEF Elsewhere
<1>2. file' = file /\ pc' \in {"map", "fill", "user", "fault", "lost"}
  <2>1. CASE MapNext \/ Mapped \/ Overwrite \/ Fill
    BY <2>1 DEF MapNext, Mapped, Overwrite, Fill
  <2>2. CASE Stopped \/ UNCHANGED vars
    BY <1>1, <2>2 DEF Stopped, vars
  <2>3. ~fat32_file_lookup /\ ~CheckHeader /\ \A f : ~exec_elf(f)
    BY <1>1 DEF fat32_file_lookup, CheckHeader, exec_elf
  <2> QED
    BY <2>1, <2>2, <2>3 DEF Next
<1> QED
  BY <1>1, <1>2, SameFile DEF Elsewhere

(* Every step of exec_elf, from paging_init to the last vfs_read, keeps    *)
(* page tables, frame bitmap and the loop over the headers in order, for   *)
(* every program that lies behind the identity map.                        *)
THEOREM Invariance == Spec => [](IInv \/ Elsewhere)
<1>1. Init => IInv \/ Elsewhere
  BY InitIInv
<1>2. (IInv \/ Elsewhere) /\ [Next]_vars => (IInv \/ Elsewhere)'
  BY NextIInv, NextElsewhere
<1> QED
  BY <1>1, <1>2, PTL DEF Spec

(* With one, two or four headers every header is read, although the size   *)
(* of a header is taken from the wrong field.                              *)
LEMMA AllRead ==
  ASSUME IsProgram, Behind, Len(file) \in {1, 2, 4}
  PROVE  Walked = Segments
<1> DEFINE n == Len(file)
           c == PhSize \div 4
<1>1. PhSize \in Nat /\ ShSize \in Nat /\ PhSize > 0 /\ PhSize <= ShSize /\ PhSize % 4 = 0
  BY LoaderAssumption
<1>2. c \in Nat /\ PhSize = 4 * c /\ c > 0
  BY <1>1
<1> HIDE DEF c
<1>3. PlacesRead(file) = 1 .. n
  <2> SUFFICES ASSUME NEW k \in 1 .. n
               PROVE  \E i \in 0 .. ShSize - 1 : i * n = (k - 1) * PhSize
    BY DEF PlacesRead
  <2>1. CASE k = 1
    <3>1. 0 \in 0 .. ShSize - 1 /\ 0 * n = (k - 1) * PhSize
      BY <1>1, <2>1
    <3> QED
      BY <3>1
  <2>2. CASE n = 2 /\ k = 2
    <3>1. 2 * c \in 0 .. ShSize - 1 /\ (2 * c) * n = (k - 1) * PhSize
      BY <1>1, <1>2, <2>2
    <3> QED
      BY <3>1
  <2>3. CASE n = 4 /\ k \in {2, 3, 4}
    <3>1. (k - 1) * c \in 0 .. ShSize - 1 /\ ((k - 1) * c) * n = (k - 1) * PhSize
      BY <1>1, <1>2, <2>3
    <3> QED
      BY <3>1
  <2>4. k = 1 \/ (n = 2 /\ k = 2) \/ (n = 4 /\ k \in {2, 3, 4})
    <3>1. CASE n = 1
      BY <3>1
    <3>2. CASE n = 2
      BY <3>2
    <3>3. CASE n = 4
      BY <3>3
    <3> QED
      BY <3>1, <3>2, <3>3
  <2> QED
    BY <2>1, <2>2, <2>3, <2>4
<1>4. file \in Seq(Segment) /\ n \in Nat
  BY LoaderAssumption DEF Segment, IsProgram
<1>5. \A k \in 1 .. n : [file[k] EXCEPT !.load = @ /\ k \in PlacesRead(file)] = file[k]
  <2> SUFFICES ASSUME NEW k \in 1 .. n
               PROVE  [file[k] EXCEPT !.load = @ /\ k \in PlacesRead(file)] = file[k]
    OBVIOUS
  <2>1. file[k] \in Segment
    BY <1>4
  <2>2. (file[k].load /\ k \in PlacesRead(file)) = file[k].load
    BY <1>3, <2>1 DEF Segment
  <2> QED
    BY <2>1, <2>2 DEF Segment
<1>6. HeadersRead(file) = file
  <2>1. HeadersRead(file) = [k \in 1 .. n |-> file[k]]
    BY <1>5 DEF HeadersRead
  <2> QED
    BY <1>4, <2>1
<1> QED
  BY <1>6, ProgramIs DEF Walked

(* A program behind the identity map, for whose pages and tables there are *)
(* frames, is started, sees nothing of what was in its frames before and,  *)
(* if its segments lie on pages of their own and it has one, two or four   *)
(* headers, is in memory as its headers describe it.                       *)
THEOREM ProgramsAreLoaded == Spec => []LoadsWhatFits
<1>1. IInv \/ Elsewhere => LoadsWhatFits
  <2> SUFFICES ASSUME IInv, Behind, Fits
               PROVE  /\ pc \notin {"fault", "lost"}
                      /\ pc = "user" => \A p \in UserPages, o \in Offsets : phys[FrameOf(Memory, p)][o] # Junk
                      /\ pc = "user" /\ SeparatePages /\ Len(file) \in {1, 2, 4} => AllInMemory
    BY DEF LoadsWhatFits, Elsewhere
  <2>1. pc \notin {"fault", "lost"}
    BY DEF IInv, NoFault, Control
  <2>2. ASSUME pc = "user", NEW p \in UserPages, NEW o \in Offsets
        PROVE  phys[FrameOf(Memory, p)][o] # Junk
    <3>1. Running
      BY <2>2 DEF Running
    <3>2. Shape(Memory) /\ IdentityMap(Memory)
      BY DEF IInv, Good
    <3>3. p \in HighPages /\ Lookup(Memory, p) # Zero
      <4>1. p \in Pages /\ Lookup(Memory, p) # Zero /\ Lookup(Memory, p).user
        BY DEF UserPages
      <4>2. p \in 0 .. IdentityPages - 1 => Lookup(Memory, p).user = FALSE
        <5> SUFFICES ASSUME p \in 0 .. IdentityPages - 1 PROVE Lookup(Memory, p).user = FALSE
          OBVIOUS
        <5>1. Lookup(Memory, p) = Entry(p, FALSE) /\ p \in Frames
          BY <3>2, LowLookup
        <5> QED
          BY <5>1, EntryType
      <4> QED
        BY <4>1, <4>2, PagesAreLowOrHigh
    <3> QED
      BY <3>1, <3>3 DEF IInv, Clean
  <2>3. ASSUME pc = "user", SeparatePages, Len(file) \in {1, 2, 4}
        PROVE  AllInMemory
    <3>1. Running
      BY <2>3 DEF Running
    <3>2. IsProgram
      BY <2>3 DEF IInv, Control
    <3>3. Walked = Segments
      BY <2>3, <3>2, AllRead
    <3>4. Done = Len(Walked) /\ DOMAIN Segments = 1 .. Len(Walked)
      <4>1. prog = <<>> /\ Len(Walked) \in Nat /\ DOMAIN Segments = 1 .. Len(Walked)
        BY <2>3, <3>2, ProgramIs DEF IInv, Walk
      <4> QED
        BY <4>1 DEF Done
    <3> QED
      BY <2>3, <3>1, <3>3, <3>4 DEF IInv, Filled, AllInMemory
  <2> QED
    BY <2>1, <2>2, <2>3
<1> QED
  BY <1>1, Invariance, PTL
-----------------------------------------------------------------------------
(* A program may also ask for pages of the identity map.  What remains     *)
(* then: a page is translated as in the identity map, or it is a program's *)
(* and has a frame of its own.                                             *)
Kept(m, p) == p < IdentityPages /\ Lookup(m, p) = Entry(p, FALSE)

StaticDirs(m) == \A d \in Dirs : d < StaticTables => m.dir[d] = StaticTable(d)

OwnPages(m) ==
  /\ \A p \in Pages : Lookup(m, p) # Zero =>
       \/ Kept(m, p)
       \/ /\ Lookup(m, p).user = TRUE
          /\ FrameOf(m, p) \in m.used \ ReservedFrames
          /\ ~IsTable(m, FrameOf(m, p))
  /\ \A p, q \in Pages :
       /\ Lookup(m, p) # Zero /\ ~Kept(m, p)
       /\ Lookup(m, q) # Zero /\ ~Kept(m, q) /\ FrameOf(m, p) = FrameOf(m, q)
       => p = q

Sane(m) == Shape(m) /\ StaticDirs(m) /\ OwnTables(m) /\ OwnPages(m) /\ Unwritten(m)

(* A frame that no page of a program and no table has.                     *)
Unclaimed(m, f) == /\ f \in m.used \ ReservedFrames /\ f \in Frames /\ ~IsTable(m, f)
                   /\ \A p \in Pages : Lookup(m, p) # Zero /\ ~Kept(m, p) => FrameOf(m, p) # f

LEMMA KeptIs ==
  ASSUME NEW m, NEW p \in Pages, Kept(m, p)
  PROVE  /\ p \in 0 .. IdentityPages - 1 /\ p \in Frames /\ FrameOf(m, p) = p
         /\ Lookup(m, p) # Zero /\ Lookup(m, p).user = FALSE
<1>1. p \in 0 .. IdentityPages - 1 /\ p \in Frames
  BY Sizes, LowPages DEF Kept, Pages
<1>2. Entry(p, FALSE) # Zero /\ Entry(p, FALSE).frame = p /\ Entry(p, FALSE).user = FALSE
  BY <1>1, EntryType
<1> QED
  BY <1>1, <1>2 DEF Kept, FrameOf

LEMMA SaneTables ==
  ASSUME NEW m, Sane(m), NEW d \in Dirs, m.dir[d] # NoFrame
  PROVE  m.dir[d] \in m.used /\ m.dir[d] \in Frames
<1>1. m.dir[d] \in Frames
  BY DEF Sane, Shape
<1>2. CASE d >= StaticTables
  BY <1>1, <1>2 DEF Sane, OwnTables
<1>3. CASE d < StaticTables
  <2>1. m.dir[d] = 1 + d
    BY <1>3 DEF Sane, StaticDirs, StaticTable
  <2>2. PICK n \in First .. TotalFrames : m.used = 0 .. n - 1
    BY DEF Sane, Shape
  <2> QED
    BY <1>1, <1>3, <2>1, <2>2, FirstFree, Sizes DEF Dirs
<1> QED
  BY <1>1, <1>2, <1>3, Sizes DEF Dirs

(* Memory with the same tables is as sane, when nothing free was written.  *)
LEMMA SameTablesSane ==
  ASSUME NEW m, NEW r, Sane(m), Shape(r), r.dir = m.dir, m.used \subseteq r.used,
         \A d \in Dirs : m.dir[d] # NoFrame => r.phys[m.dir[d]] = m.phys[m.dir[d]],
         Unwritten(r)
  PROVE  /\ Sane(r)
         /\ \A p \in Pages : /\ Lookup(r, p) = Lookup(m, p) /\ FrameOf(r, p) = FrameOf(m, p)
                             /\ Kept(r, p) <=> Kept(m, p)
<1>1. \A p \in Pages : Lookup(r, p) = Lookup(m, p) /\ FrameOf(r, p) = FrameOf(m, p)
  BY SameLookup DEF Sane
<1>2. \A p \in Pages : Kept(r, p) <=> Kept(m, p)
  BY <1>1 DEF Kept
<1>3. OwnTables(r) /\ StaticDirs(r)
  BY DEF Sane, OwnTables, StaticDirs
<1>4. OwnPages(r)
  <2>1. \A p \in Pages : Lookup(r, p) # Zero =>
          \/ Kept(r, p)
          \/ /\ Lookup(r, p).user = TRUE
             /\ FrameOf(r, p) \in r.used \ ReservedFrames
             /\ ~IsTable(r, FrameOf(r, p))
    BY <1>1, <1>2 DEF Sane, OwnPages, IsTable
  <2>2. \A p, q \in Pages :
          /\ Lookup(r, p) # Zero /\ ~Kept(r, p)
          /\ Lookup(r, q) # Zero /\ ~Kept(r, q) /\ FrameOf(r, p) = FrameOf(r, q)
          => p = q
    BY <1>1, <1>2 DEF Sane, OwnPages
  <2> QED
    BY <2>1, <2>2 DEF OwnPages
<1> QED
  BY <1>1, <1>2, <1>3, <1>4 DEF Sane

(* Stores that hit no table, each a word of its own, or that fault.        *)
Aside(m, D, val, r) ==
  /\ Sane(r) /\ r.dir = m.dir /\ r.used = m.used
  /\ \A p \in Pages : /\ Lookup(r, p) = Lookup(m, p) /\ FrameOf(r, p) = FrameOf(m, p)
                      /\ Kept(r, p) <=> Kept(m, p)
  /\ \A f \in Frames, o \in Offsets :
       r.phys[f][o] = m.phys[f][o] \/ \E w \in D : r.phys[f][o] = val[w]

LEMMA StoresAside ==
  ASSUME NEW m, Sane(m), NEW D \in SUBSET Nat, NEW val \in [D -> Contents],
         \A w \in D : w \div Words \in Pages,
         \A w \in D : FrameOf(m, w \div Words) # NoFrame =>
           FrameOf(m, w \div Words) \in m.used /\ ~IsTable(m, FrameOf(m, w \div Words)),
         \A w, v \in D : /\ FrameOf(m, w \div Words) = FrameOf(m, v \div Words)
                         /\ FrameOf(m, w \div Words) # NoFrame
                         => w \div Words = v \div Words
  PROVE  Aside(m, D, val, Stores(m, val))
<1> DEFINE r == Stores(m, val)
<1>0. Shape(m) /\ Words \in Nat \ {0} /\ DOMAIN val = D
  BY Sizes DEF Sane
<1>1. CASE \E w \in D : FrameOf(m, w \div Words) = NoFrame
  <2>1. r = [m EXCEPT !.fault = TRUE]
    BY <1>0, <1>1 DEF Stores
  <2> HIDE DEF r
  <2>2. r.phys = m.phys /\ r.used = m.used /\ r.dir = m.dir /\ r.fault = TRUE /\ Shape(r)
    BY <1>0, <2>1 DEF Shape
  <2>3. Unwritten(r)
    BY <2>2 DEF Sane, Unwritten
  <2>4. /\ Sane(r)
        /\ \A p \in Pages : /\ Lookup(r, p) = Lookup(m, p) /\ FrameOf(r, p) = FrameOf(m, p)
                            /\ Kept(r, p) <=> Kept(m, p)
    BY <2>2, <2>3, SameTablesSane
  <2> QED
    BY <2>2, <2>4 DEF Aside, r
<1>2. CASE \A w \in D : FrameOf(m, w \div Words) # NoFrame
  <2>1. Apart(m, D)
    <3>1. ASSUME NEW w \in D, NEW v \in D, FrameOf(m, w \div Words) = FrameOf(m, v \div Words),
                 w % Words = v % Words
          PROVE  w = v
      <4>1. w \div Words = v \div Words
        BY <1>2, <3>1
      <4>2. /\ w = Words * (w \div Words) + (w % Words)
            /\ v = Words * (v \div Words) + (v % Words)
        <5>1. w \in Nat /\ v \in Nat
          OBVIOUS
        <5> QED
          BY <1>0, <5>1, DivMod
      <4> QED
        BY <3>1, <4>1, <4>2
    <3> QED
      BY <3>1 DEF Apart
  <2>2. Stored(m, D, val, r)
    BY <1>0, <2>1, StoresEffect
  <2> HIDE DEF r
  <2>3. Shape(r) /\ r.used = m.used /\ r.dir = m.dir
    BY <2>2 DEF Stored
  <2>4. \A h \in Frames : (\A w \in D : FrameOf(m, w \div Words) # h) => r.phys[h] = m.phys[h]
    <3> SUFFICES ASSUME NEW h \in Frames, \A w \in D : FrameOf(m, w \div Words) # h
                 PROVE  r.phys[h] = m.phys[h]
      OBVIOUS
    <3>1. \A o \in Offsets : r.phys[h][o] = m.phys[h][o]
      BY <2>2 DEF Stored
    <3>2. r.phys[h] \in [Offsets -> Contents] /\ m.phys[h] \in [Offsets -> Contents]
      BY <1>0, <2>3 DEF Shape
    <3> QED
      BY <3>1, <3>2
  <2>5. \A w \in D : FrameOf(m, w \div Words) \in m.used /\ ~IsTable(m, FrameOf(m, w \div Words))
    BY <1>2
  <2>6. \A d \in Dirs : m.dir[d] # NoFrame => r.phys[m.dir[d]] = m.phys[m.dir[d]]
    <3> SUFFICES ASSUME NEW d \in Dirs, m.dir[d] # NoFrame PROVE r.phys[m.dir[d]] = m.phys[m.dir[d]]
      OBVIOUS
    <3>1. m.dir[d] \in Frames /\ IsTable(m, m.dir[d])
      BY <1>0 DEF Shape, IsTable
    <3> QED
      BY <2>4, <2>5, <3>1
  <2>7. Unwritten(r)
    BY <2>3, <2>4, <2>5 DEF Sane, Unwritten
  <2>8. /\ Sane(r)
        /\ \A p \in Pages : /\ Lookup(r, p) = Lookup(m, p) /\ FrameOf(r, p) = FrameOf(m, p)
                            /\ Kept(r, p) <=> Kept(m, p)
    BY <2>3, <2>6, <2>7, SameTablesSane
  <2>9. \A f \in Frames, o \in Offsets :
          r.phys[f][o] = m.phys[f][o] \/ \E w \in D : r.phys[f][o] = val[w]
    BY <2>2 DEF Stored
  <2> QED
    BY <2>3, <2>8, <2>9 DEF Aside, r
<1> QED
  BY <1>1, <1>2

(* What allocating, clearing and installing keep.                          *)
SameMaps(m, r) ==
  \A p \in Pages : /\ Lookup(r, p) = Lookup(m, p) /\ FrameOf(r, p) = FrameOf(m, p)
                   /\ Kept(r, p) <=> Kept(m, p)

LEMMA SaneAllocated ==
  ASSUME NEW m, Sane(m), FreeFrames(m) # {}
  PROVE  LET n == Min(FreeFrames(m))
             r == Allocate(m, n)
         IN /\ Sane(r) /\ Unclaimed(r, n) /\ r.dir = m.dir /\ SameMaps(m, r)
            /\ \A o \in Offsets : r.phys[n][o] = Junk
            /\ \A f : Unclaimed(m, f) => Unclaimed(r, f) /\ f # n
<1>1. PICK n \in First .. TotalFrames : m.used = 0 .. n - 1
  BY DEF Sane, Shape
<1> DEFINE r == Allocate(m, n)
<1>2. n < TotalFrames /\ Min(FreeFrames(m)) = n
  <2>1. n # TotalFrames /\ (n < TotalFrames => Min(FreeFrames(m)) = n)
    BY <1>1, NextFrame
  <2> QED
    BY <1>1, <2>1, FirstFree, Sizes
<1>0. First \in Nat /\ TotalFrames \in Nat /\ n \in Frames /\ n \notin m.used /\ n \notin ReservedFrames
  BY <1>1, <1>2, Sizes, FirstFree DEF Frames
<1>3. Shape(m)
  BY DEF Sane
<1>4. m.used \cup {n} = 0 .. (n + 1) - 1 /\ n + 1 \in First .. TotalFrames
  BY <1>0, <1>1, <1>2
<1>5. r = [m EXCEPT !.used = 0 .. (n + 1) - 1]
  BY <1>4 DEF Allocate
<1>6. r.phys = m.phys /\ r.dir = m.dir /\ r.used = 0 .. (n + 1) - 1
  BY <1>3, <1>5 DEF Shape
<1>7. Shape(r)
  <2>1. 0 .. (n + 1) - 1 \in SUBSET Nat
    BY <1>0
  <2>2. r \in [phys : [Frames -> [Offsets -> Contents]], used : SUBSET Nat,
               dir : [Dirs -> Frames \cup {NoFrame}], fault : BOOLEAN]
    BY <1>3, <1>5, <2>1 DEF Shape
  <2> QED
    BY <1>4, <1>6, <2>2 DEF Shape
<1> HIDE DEF r
<1>8. m.used \subseteq r.used /\ n \in r.used
  BY <1>0, <1>1, <1>6
<1>9. Unwritten(r)
  BY <1>6, <1>8 DEF Sane, Unwritten
<1>10. Sane(r) /\ SameMaps(m, r)
  BY <1>6, <1>7, <1>8, <1>9, SameTablesSane DEF SameMaps
<1>11. \A o \in Offsets : r.phys[n][o] = Junk
  BY <1>0, <1>6 DEF Sane, Unwritten
<1>12. ~IsTable(m, n)
  <2> SUFFICES ASSUME NEW d \in Dirs, m.dir[d] = n PROVE FALSE
    BY DEF IsTable
  <2>1. n # NoFrame
    BY <1>0, Sizes
  <2> QED
    BY <1>0, <2>1, SaneTables
<1>13. \A p \in Pages : Lookup(m, p) # Zero /\ ~Kept(m, p) => FrameOf(m, p) # n
  BY <1>0 DEF Sane, OwnPages
<1>14. Unclaimed(r, n)
  BY <1>0, <1>6, <1>8, <1>10, <1>12, <1>13 DEF Unclaimed, IsTable, SameMaps
<1>15. \A f : Unclaimed(m, f) => Unclaimed(r, f) /\ f # n
  <2> SUFFICES ASSUME NEW f, Unclaimed(m, f) PROVE Unclaimed(r, f) /\ f # n
    OBVIOUS
  <2>1. f # n
    BY <1>0 DEF Unclaimed
  <2>2. Unclaimed(r, f)
    BY <1>6, <1>8, <1>10 DEF Unclaimed, IsTable, SameMaps
  <2> QED
    BY <2>1, <2>2
<1> QED
  BY <1>2, <1>6, <1>10, <1>11, <1>14, <1>15 DEF r

LEMMA SaneCleared ==
  ASSUME NEW m, Sane(m), NEW f, Unclaimed(m, f)
  PROVE  LET r == ClearPage(m, f)
         IN /\ Sane(r) /\ r.dir = m.dir /\ r.used = m.used /\ SameMaps(m, r)
            /\ \A o \in Offsets : r.phys[f][o] \in {Zero, m.phys[f][o]}
            /\ \A g : Unclaimed(m, g) => Unclaimed(r, g)
<1> DEFINE D == f * Words .. f * Words + Words - 1
           val == [w \in D |-> Zero]
           r == ClearPage(m, f)
           g == FrameOf(m, f)
<1>0. Shape(m) /\ Words \in Nat \ {0} /\ f \in Frames /\ f \in Nat /\ f \in Pages
  BY Sizes, FramesArePages DEF Sane, Unclaimed, Frames
<1>1. \A w \in D : w \in Nat /\ w \div Words = f
  <2> SUFFICES ASSUME NEW w \in D PROVE w \in Nat /\ w \div Words = f
    OBVIOUS
  <2>1. f * Words \in Nat
    BY <1>0
  <2>2. w - f * Words \in Offsets /\ w = f * Words + (w - f * Words)
    BY <1>0, <2>1 DEF Offsets
  <2> QED
    BY <1>0, <2>2, WordPlace
<1>2. r = Stores(m, val) /\ val \in [D -> Contents] /\ D \in SUBSET Nat /\ \A w \in D : val[w] = Zero
  BY <1>1 DEF ClearPage, Contents
<1> HIDE DEF D, val, r
<1>3. g # NoFrame => g \in m.used /\ ~IsTable(m, g)
  <2> SUFFICES ASSUME g # NoFrame PROVE g \in m.used /\ ~IsTable(m, g)
    OBVIOUS
  <2>1. Lookup(m, f) # Zero
    BY <1>0, LookupIs
  <2>2. CASE Kept(m, f)
    BY <1>0, <2>2, KeptIs DEF Unclaimed
  <2>3. CASE ~Kept(m, f)
    BY <1>0, <2>1, <2>3 DEF Sane, OwnPages
  <2> QED
    BY <2>2, <2>3
<1>4. Aside(m, D, val, r)
  <2>1. \A w \in D : w \div Words \in Pages
    BY <1>0, <1>1
  <2>2. \A w \in D : FrameOf(m, w \div Words) # NoFrame =>
          FrameOf(m, w \div Words) \in m.used /\ ~IsTable(m, FrameOf(m, w \div Words))
    BY <1>1, <1>3
  <2>3. \A w, v \in D : w \div Words = v \div Words
    BY <1>1
  <2> QED
    BY <1>2, <2>1, <2>2, <2>3, StoresAside
<1>5. Sane(r) /\ r.dir = m.dir /\ r.used = m.used /\ SameMaps(m, r)
  BY <1>4 DEF Aside, SameMaps
<1>6. \A o \in Offsets : r.phys[f][o] \in {Zero, m.phys[f][o]}
  BY <1>0, <1>2, <1>4 DEF Aside
<1>7. \A h : Unclaimed(m, h) => Unclaimed(r, h)
  BY <1>5 DEF Unclaimed, IsTable, SameMaps
<1> QED
  BY <1>5, <1>6, <1>7 DEF r

(* An entry of a table, through the translation in force: it reaches the   *)
(* table, and one page is translated anew, or it reaches no table.         *)
LEMMA SaneEntered ==
  ASSUME NEW m, Sane(m), NEW f, Unclaimed(m, f), NEW page \in Pages,
         m.dir[page \div Words] # NoFrame
  PROVE  LET r == SetEntry(m, m.dir[page \div Words], page, f)
         IN Sane(r) /\ \A p \in Pages \ {page} : Lookup(r, p) = Lookup(m, p)
<1> DEFINE t == m.dir[page \div Words]
           o == page % Words
           a == t * Words + o
           D == {a}
           val == [w \in D |-> Entry(f, TRUE)]
           r == SetEntry(m, t, page, f)
           g == FrameOf(m, t)
<1>0. Shape(m) /\ f \in Frames
  BY DEF Sane, Unclaimed
<1>1. page \div Words \in Dirs /\ o \in Offsets
  BY PagePlace
<1>2. t \in Frames /\ t \in m.used /\ t \in Nat /\ t \in Pages /\ IsTable(m, t)
  BY <1>1, SaneTables, FramesArePages DEF IsTable, Frames
<1>3. a \in Nat /\ a \div Words = t /\ a % Words = o
  BY <1>1, <1>2, WordPlace
<1>4. Entry(f, TRUE) \in Entries /\ Entry(f, TRUE) \in Contents /\ Entry(f, TRUE) # Zero
      /\ Entry(f, TRUE).frame = f /\ Entry(f, TRUE).user = TRUE
  BY <1>0, EntryType
<1>5. r = Stores(m, val)
  BY DEF SetEntry
<1>6. val \in [D -> Contents] /\ D \in SUBSET Nat
  BY <1>3, <1>4
<1>7. val[a] = Entry(f, TRUE)
  OBVIOUS
<1> HIDE DEF o, a, val, r
<1>8. CASE ~Kept(m, t)
  <2>1. g # NoFrame => g \in m.used /\ ~IsTable(m, g)
    <3> SUFFICES ASSUME g # NoFrame PROVE g \in m.used /\ ~IsTable(m, g)
      OBVIOUS
    <3>1. Lookup(m, t) # Zero
      BY <1>0, <1>2, LookupIs
    <3> QED
      BY <1>2, <1>8, <3>1 DEF Sane, OwnPages
  <2>2. Aside(m, D, val, r)
    <3>1. \A w \in D : w \div Words = t
      BY <1>3
    <3> QED
      BY <1>2, <1>5, <1>6, <2>1, <3>1, StoresAside
  <2> QED
    BY <2>2 DEF Aside, r
<1>9. CASE Kept(m, t)
  <2>1. g = t /\ t # NoFrame
    BY <1>2, <1>9, KeptIs, Sizes
  <2>2. Stored(m, D, val, r)
    <3>1. Apart(m, D)
      BY <1>2, <1>3 DEF Apart
    <3> QED
      BY <1>0, <1>5, <1>6, <3>1, StoresEffect
  <2>3. Shape(r) /\ r.dir = m.dir /\ r.used = m.used
    BY <2>2 DEF Stored
  <2>4. \A h \in Frames : h # t => r.phys[h] = m.phys[h]
    <3> SUFFICES ASSUME NEW h \in Frames, h # t PROVE r.phys[h] = m.phys[h]
      OBVIOUS
    <3>1. \A q \in Offsets : r.phys[h][q] = m.phys[h][q]
      BY <1>3, <2>1, <2>2 DEF Stored
    <3>2. r.phys[h] \in [Offsets -> Contents] /\ m.phys[h] \in [Offsets -> Contents]
      BY <1>0, <2>3 DEF Shape
    <3> QED
      BY <3>1, <3>2
  <2>5. \A w \in D : FrameOf(m, w \div Words) = t /\ w % Words = o /\ val[w] = Entry(f, TRUE)
    BY <1>3, <1>7, <2>1
  <2>6. r.phys[t][o] = Entry(f, TRUE)
    <3>1. a \in D
      BY DEF D
    <3> QED
      BY <2>1, <2>2, <2>5, <3>1 DEF Stored
  <2>7. \A q \in Offsets : q # o => r.phys[t][q] = m.phys[t][q]
    BY <1>2, <2>2, <2>5 DEF Stored
  <2>8. Lookup(r, page) = Entry(f, TRUE) /\ FrameOf(r, page) = f
    <3>1. r.dir[page \div Words] = t /\ r.phys[t][page % Words] = Entry(f, TRUE)
      BY <2>3, <2>6 DEF o
    <3>2. r.dir[page \div Words] # NoFrame
          /\ r.phys[r.dir[page \div Words]][page % Words] = Entry(f, TRUE)
      BY <2>1, <3>1
    <3>3. Lookup(r, page) = Entry(f, TRUE)
      <4> DEFINE w == r.phys[r.dir[page \div Words]][page % Words]
      <4>1. Lookup(r, page) = IF w \in Entries THEN w ELSE Zero
        BY <2>3, <3>2, LookupIs
      <4> QED
        BY <1>4, <3>2, <4>1
    <3> QED
      BY <1>4, <3>3 DEF FrameOf
  <2>9. \A p \in Pages \ {page} : Lookup(r, p) = Lookup(m, p) /\ FrameOf(r, p) = FrameOf(m, p)
    <3> SUFFICES ASSUME NEW p \in Pages, p # page PROVE Lookup(r, p) = Lookup(m, p)
      BY DEF FrameOf
    <3> DEFINE s == m.dir[p \div Words]
    <3>1. p \div Words \in Dirs /\ p % Words \in Offsets /\ p = (p \div Words) * Words + (p % Words)
      BY PagePlace
    <3>2. page = (page \div Words) * Words + o
      BY PagePlace DEF o
    <3>3. s \in Frames \cup {NoFrame}
      BY <1>0, <3>1 DEF Shape
    <3>4. s = t => p % Words # o
      BY <1>1, <2>1, <3>1, <3>2 DEF Sane, OwnTables
    <3>5. s # NoFrame => r.phys[s][p % Words] = m.phys[s][p % Words]
      BY <2>4, <2>7, <3>1, <3>3, <3>4
    <3> QED
      BY <2>3, <3>5 DEF Lookup
  <2>10. ~Kept(r, page) /\ \A p \in Pages \ {page} : Kept(r, p) <=> Kept(m, p)
    <3>1. ~Kept(r, page)
      <4> SUFFICES ASSUME Kept(r, page) PROVE FALSE
        OBVIOUS
      <4>1. Lookup(r, page).user = FALSE
        BY KeptIs
      <4> QED
        BY <1>4, <2>8, <4>1
    <3> QED
      BY <2>9, <3>1 DEF Kept
  <2>11. StaticDirs(r) /\ OwnTables(r)
    BY <2>3 DEF Sane, StaticDirs, OwnTables
  <2>12. OwnPages(r)
    <3>1. \A p \in Pages : Lookup(r, p) # Zero =>
            \/ Kept(r, p)
            \/ /\ Lookup(r, p).user = TRUE
               /\ FrameOf(r, p) \in r.used \ ReservedFrames
               /\ ~IsTable(r, FrameOf(r, p))
      <4> SUFFICES ASSUME NEW p \in Pages, Lookup(r, p) # Zero, ~Kept(r, p)
                   PROVE  /\ Lookup(r, p).user = TRUE
                          /\ FrameOf(r, p) \in m.used \ ReservedFrames
                          /\ ~IsTable(m, FrameOf(r, p))
        BY <2>3 DEF IsTable
      <4>1. CASE p = page
        BY <1>4, <2>8, <4>1 DEF Unclaimed
      <4>2. CASE p # page
        BY <2>9, <2>10, <4>2 DEF Sane, OwnPages
      <4> QED
        BY <4>1, <4>2
    <3>2. \A p, q \in Pages :
            /\ Lookup(r, p) # Zero /\ ~Kept(r, p)
            /\ Lookup(r, q) # Zero /\ ~Kept(r, q) /\ FrameOf(r, p) = FrameOf(r, q)
            => p = q
      BY <2>8, <2>9, <2>10 DEF Sane, OwnPages, Unclaimed
    <3> QED
      BY <3>1, <3>2 DEF OwnPages
  <2>13. Unwritten(r)
    BY <1>2, <2>3, <2>4 DEF Sane, Unwritten
  <2> QED
    BY <2>3, <2>9, <2>11, <2>12, <2>13 DEF Sane, r
<1> QED
  BY <1>8, <1>9

LEMMA SaneInstalled ==
  ASSUME NEW m, Sane(m), NEW n, Unclaimed(m, n), NEW d \in Dirs, m.dir[d] = NoFrame,
         \A o \in Offsets : m.phys[n][o] \in {Zero, Junk}
  PROVE  LET r == [m EXCEPT !.dir[d] = n]
         IN /\ Sane(r) /\ r.dir[d] = n
            /\ \A p \in Pages : Lookup(r, p) = Lookup(m, p)
            /\ \A f : Unclaimed(m, f) /\ f # n => Unclaimed(r, f)
<1> DEFINE r == [m EXCEPT !.dir[d] = n]
<1>0. Shape(m) /\ n \in Frames /\ n # NoFrame /\ n \in m.used \ ReservedFrames
  BY Sizes DEF Sane, Unclaimed
<1>1. /\ r.dir = [m.dir EXCEPT ![d] = n]
      /\ r.used = m.used /\ r.phys = m.phys /\ Shape(r)
  BY <1>0 DEF Shape
<1> HIDE DEF r
<1>2. r.dir[d] = n /\ \A e \in Dirs : e # d => r.dir[e] = m.dir[e]
  BY <1>0, <1>1 DEF Shape
<1>3. ~(d < StaticTables) /\ d >= StaticTables
  <2>1. d < StaticTables => m.dir[d] = StaticTable(d) /\ StaticTable(d) # NoFrame
    BY StaticFrame DEF Sane, StaticDirs
  <2> QED
    BY <2>1, Sizes DEF Dirs
<1>4. \A p \in Pages : Lookup(r, p) = Lookup(m, p) /\ FrameOf(r, p) = FrameOf(m, p)
  <2> SUFFICES ASSUME NEW p \in Pages PROVE Lookup(r, p) = Lookup(m, p)
    BY DEF FrameOf
  <2>1. p \div Words \in Dirs /\ p % Words \in Offsets
    BY PagePlace
  <2>2. CASE p \div Words # d
    BY <1>1, <1>2, <2>1, <2>2 DEF Lookup
  <2>3. CASE p \div Words = d
    <3>1. Lookup(m, p) = Zero
      BY <1>0, <2>3, LookupIs
    <3>2. r.phys[n][p % Words] \notin Entries
      BY <1>1, <2>1, Sizes
    <3>3. Lookup(r, p) = Zero
      BY <1>0, <1>1, <1>2, <2>3, <3>2, LookupIs
    <3> QED
      BY <3>1, <3>3
  <2> QED
    BY <2>2, <2>3
<1>5. \A p \in Pages : Kept(r, p) <=> Kept(m, p)
  BY <1>4 DEF Kept
<1>6. StaticDirs(r)
  BY <1>2, <1>3 DEF Sane, StaticDirs
<1>7. OwnTables(r)
  <2>1. \A e \in Dirs : e # d => r.dir[e] # n
    BY <1>2 DEF Unclaimed, IsTable
  <2>2. \A e \in Dirs : e >= StaticTables /\ r.dir[e] # NoFrame => r.dir[e] \in r.used \ ReservedFrames
    BY <1>0, <1>1, <1>2 DEF Sane, OwnTables
  <2>3. \A e, b \in Dirs : r.dir[e] = r.dir[b] /\ r.dir[e] # NoFrame => e = b
    BY <1>2, <2>1 DEF Sane, OwnTables
  <2> QED
    BY <2>2, <2>3 DEF OwnTables
<1>8. \A f : IsTable(r, f) => f = n \/ IsTable(m, f)
  BY <1>2 DEF IsTable
<1>9. OwnPages(r)
  <2>1. \A p \in Pages : Lookup(r, p) # Zero =>
          \/ Kept(r, p)
          \/ /\ Lookup(r, p).user = TRUE
             /\ FrameOf(r, p) \in r.used \ ReservedFrames
             /\ ~IsTable(r, FrameOf(r, p))
    BY <1>1, <1>4, <1>5, <1>8 DEF Sane, OwnPages, Unclaimed
  <2>2. \A p, q \in Pages :
          /\ Lookup(r, p) # Zero /\ ~Kept(r, p)
          /\ Lookup(r, q) # Zero /\ ~Kept(r, q) /\ FrameOf(r, p) = FrameOf(r, q)
          => p = q
    BY <1>4, <1>5 DEF Sane, OwnPages
  <2> QED
    BY <2>1, <2>2 DEF OwnPages
<1>10. Sane(r)
  BY <1>1, <1>6, <1>7, <1>9 DEF Sane, Unwritten
<1>11. \A f : Unclaimed(m, f) /\ f # n => Unclaimed(r, f)
  BY <1>1, <1>4, <1>5, <1>8 DEF Unclaimed
<1> QED
  BY <1>2, <1>4, <1>10, <1>11 DEF r

(* Mapping a page anew changes the translation of no other page, wherever  *)
(* the page lies and whatever frames are left.                             *)
LEMMA SanePageMapped ==
  ASSUME NEW m, Sane(m), NEW page \in Pages
  PROVE  LET r == MapUserPage(m, page)
         IN Sane(r) /\ \A p \in Pages \ {page} : Lookup(r, p) = Lookup(m, p)
<1> DEFINE r == MapUserPage(m, page)
           d == page \div Words
           n == Min(FreeFrames(m))
           m1 == Allocate(m, n)
           m2 == ClearPage(m1, n)
<1>0. d \in Dirs
  BY PagePlace
<1>1. CASE FreeFrames(m) = {}
  BY <1>1 DEF MapUserPage
<1>2. CASE FreeFrames(m) # {}
  <2>1. r = map_page(m2, n, page)
    BY <1>2 DEF MapUserPage
  <2>2. Sane(m1) /\ Unclaimed(m1, n) /\ SameMaps(m, m1)
    BY <1>2, SaneAllocated
  <2> HIDE DEF n, m1
  <2>3. Sane(m2) /\ Unclaimed(m2, n) /\ SameMaps(m1, m2)
    BY <2>2, SaneCleared
  <2> HIDE DEF m2, r
  <2>4. \A p \in Pages : Lookup(m2, p) = Lookup(m, p)
    BY <2>2, <2>3 DEF SameMaps
  <2>5. CASE m2.dir[d] # NoFrame
    <3>1. r = SetEntry(m2, m2.dir[d], page, n)
      BY <2>1, <2>5 DEF map_page
    <3> QED
      BY <2>3, <2>4, <2>5, <3>1, SaneEntered DEF r
  <2>6. CASE m2.dir[d] = NoFrame /\ FreeFrames(m2) = {}
    <3>1. r = m2
      BY <2>1, <2>6 DEF map_page
    <3> QED
      BY <2>3, <2>4, <3>1 DEF r
  <2>7. CASE m2.dir[d] = NoFrame /\ FreeFrames(m2) # {}
    <3> DEFINE k == Min(FreeFrames(m2))
               m3 == Allocate(m2, k)
               m4 == ClearPage(m3, k)
               m5 == [m4 EXCEPT !.dir[d] = k]
    <3>1. r = SetEntry(m5, k, page, n)
      BY <2>1, <2>7 DEF map_page
    <3>2. /\ Sane(m3) /\ Unclaimed(m3, k) /\ m3.dir = m2.dir /\ SameMaps(m2, m3)
          /\ \A o \in Offsets : m3.phys[k][o] = Junk
          /\ Unclaimed(m3, n) /\ n # k
      BY <2>3, <2>7, SaneAllocated
    <3> HIDE DEF k, m3
    <3>3. /\ Sane(m4) /\ Unclaimed(m4, k) /\ m4.dir = m3.dir /\ SameMaps(m3, m4)
          /\ \A o \in Offsets : m4.phys[k][o] \in {Zero, m3.phys[k][o]}
          /\ Unclaimed(m4, n)
      BY <3>2, SaneCleared
    <3> HIDE DEF m4
    <3>4. /\ Sane(m5) /\ m5.dir[d] = k /\ Unclaimed(m5, n)
          /\ \A p \in Pages : Lookup(m5, p) = Lookup(m4, p)
      <4>1. m4.dir[d] = NoFrame /\ \A o \in Offsets : m4.phys[k][o] \in {Zero, Junk}
        BY <2>7, <3>2, <3>3
      <4> QED
        BY <1>0, <3>2, <3>3, <4>1, SaneInstalled
    <3> HIDE DEF m5
    <3>5. k # NoFrame
      BY <3>2, Sizes DEF Unclaimed
    <3>6. Sane(r) /\ \A p \in Pages \ {page} : Lookup(r, p) = Lookup(m5, p)
      BY <3>1, <3>4, <3>5, SaneEntered
    <3>7. \A p \in Pages : Lookup(m5, p) = Lookup(m, p)
      BY <2>4, <3>2, <3>3, <3>4 DEF SameMaps
    <3> QED
      BY <3>6, <3>7 DEF r
  <2> QED
    BY <2>5, <2>6, <2>7
<1> QED
  BY <1>1, <1>2

(* Nor does filling a segment, when none of its pages is still the         *)
(* kernel's.                                                               *)
LEMMA SaneFilled ==
  ASSUME NEW m, Sane(m), NEW s, Inside(s), s.load,
         \A p \in SegmentPages(s) : ~Kept(m, p)
  PROVE  LET r == Stores(m, Image(s))
         IN Sane(r) /\ r.used = m.used /\ \A p \in Pages : Lookup(r, p) = Lookup(m, p)
<1> DEFINE D == DOMAIN Image(s)
           val == Image(s)
           r == Stores(m, val)
<1>0. Shape(m)
  BY DEF Sane
<1>1. /\ D \in SUBSET Nat /\ val \in [D -> Contents]
      /\ \A w \in D : w \div Words \in Pages /\ ~Kept(m, w \div Words)
  BY ImageIs, SegmentIn
<1> HIDE DEF D, val, r
<1>2. \A w \in D : FrameOf(m, w \div Words) # NoFrame => Lookup(m, w \div Words) # Zero
  BY <1>0, <1>1, LookupIs
<1>3. \A w \in D : FrameOf(m, w \div Words) # NoFrame =>
        FrameOf(m, w \div Words) \in m.used /\ ~IsTable(m, FrameOf(m, w \div Words))
  BY <1>1, <1>2 DEF Sane, OwnPages
<1>4. \A w, v \in D : /\ FrameOf(m, w \div Words) = FrameOf(m, v \div Words)
                      /\ FrameOf(m, w \div Words) # NoFrame
                      => w \div Words = v \div Words
  BY <1>1, <1>2 DEF Sane, OwnPages
<1>5. Aside(m, D, val, r)
  BY <1>1, <1>3, <1>4, StoresAside DEF r
<1> QED
  BY <1>5 DEF Aside, r, val

LEMMA GoodIsSane ==
  ASSUME NEW m, Good(m)
  PROVE  Sane(m) /\ \A p \in 0 .. IdentityPages - 1 : Kept(m, p)
<1>0. Shape(m) /\ IdentityMap(m) /\ OwnTables(m) /\ Unwritten(m)
  BY DEF Good
<1>1. \A p \in 0 .. IdentityPages - 1 : Kept(m, p)
  <2>1. \A p \in 0 .. IdentityPages - 1 : p < IdentityPages
    BY Sizes
  <2>2. \A p \in 0 .. IdentityPages - 1 : Lookup(m, p) = Entry(p, FALSE)
    BY <1>0, LowLookup
  <2> QED
    BY <2>1, <2>2 DEF Kept
<1>2. \A p \in Pages : Kept(m, p) \/ p \in HighPages
  BY <1>1, PagesAreLowOrHigh
<1>3. StaticDirs(m)
  BY <1>0 DEF IdentityMap, StaticDirs
<1>4. OwnPages(m)
  BY <1>2 DEF Good, OwnFrames, OwnPages
<1> QED
  BY <1>0, <1>1, <1>3, <1>4 DEF Sane

LEMMA MemorySane ==
  ASSUME NEW r, Sane(r), SetMemory(r)
  PROVE  Sane(Memory') /\ \A p \in Pages : Lookup(Memory', p) = Lookup(r, p)
<1>0. Memory' = [phys |-> r.phys, used |-> r.used, dir |-> r.dir, fault |-> FALSE]
  BY DEF SetMemory, Memory
<1>1. Memory'.phys = r.phys /\ Memory'.used = r.used /\ Memory'.dir = r.dir
  BY <1>0
<1>2. Shape(Memory') /\ Unwritten(Memory')
  BY <1>0, <1>1 DEF Sane, Shape, Unwritten
<1> QED
  BY <1>1, <1>2, SameTablesSane

(* What holds of programs anywhere, until the kernel's own memory is gone. *)
SafeMaps ==
  /\ Sane(Memory)
  /\ \A p \in 0 .. IdentityPages - 1 : p \in Asked \/ Kept(Memory, p)

SafeWalk ==
  /\ IsProgram /\ prog \in Seq(Segment) /\ prog # <<>>
  /\ \A j \in 1 .. Len(prog) : Inside(prog[j]) /\ SegmentPages(prog[j]) \subseteq Asked
  /\ todo \subseteq SegmentPages(prog[1])

Safe ==
  pc # "lost" =>
    /\ SafeMaps
    /\ pc \in {"shell", "user"} => ~open
    /\ pc \in {"shell", "lookup", "header"} =>
         used = ReservedFrames /\ \A p \in 0 .. IdentityPages - 1 : Kept(Memory, p)
    /\ pc = "lookup" => file \in Programs \cup OtherFiles \cup Missing
    /\ pc = "header" => file \in (Programs \cup OtherFiles) \ Missing
    /\ pc \in {"map", "fill"} => SafeWalk

LEMMA SameAsked == ASSUME file' = file PROVE Asked' = Asked
  BY SameFile DEF Asked

LEMMA InitSafe == Init => Safe
<1> SUFFICES ASSUME Init PROVE Safe
  OBVIOUS
<1>1. Sane(Memory) /\ \A p \in 0 .. IdentityPages - 1 : Kept(Memory, p)
  BY InitGood, GoodIsSane
<1>2. pc = "shell" /\ ~open /\ used = ReservedFrames
  BY DEF Init, paging_init
<1> QED
  BY <1>1, <1>2 DEF Safe, SafeMaps

LEMMA ExecSafe ==
  ASSUME Safe, NEW f \in Programs \cup OtherFiles \cup Missing, exec_elf(f)
  PROVE  Safe'
<1>1. Memory' = Memory /\ used' = used /\ pc = "shell" /\ pc' = "lookup" /\ file' = f
  BY DEF exec_elf, paging, Memory
<1>2. Sane(Memory) /\ used = ReservedFrames /\ \A p \in 0 .. IdentityPages - 1 : Kept(Memory, p)
  BY <1>1 DEF Safe, SafeMaps
<1>3. Sane(Memory') /\ used' = ReservedFrames /\ \A p \in 0 .. IdentityPages - 1 : Kept(Memory', p)
  BY <1>1, <1>2
<1> QED
  BY <1>1, <1>3 DEF Safe, SafeMaps

LEMMA LookupSafe == ASSUME Safe, fat32_file_lookup PROVE Safe'
<1>1. Memory' = Memory /\ used' = used /\ pc = "lookup" /\ file' = file
  BY DEF fat32_file_lookup, paging, Memory
<1>2. (pc' = "shell" /\ ~open') \/ (pc' = "header" /\ file \notin Missing)
  BY DEF fat32_file_lookup
<1>3. /\ Sane(Memory) /\ used = ReservedFrames /\ \A p \in 0 .. IdentityPages - 1 : Kept(Memory, p)
      /\ file \in Programs \cup OtherFiles \cup Missing
  BY <1>1 DEF Safe, SafeMaps
<1>4. Sane(Memory') /\ used' = ReservedFrames /\ \A p \in 0 .. IdentityPages - 1 : Kept(Memory', p)
  BY <1>1, <1>3
<1> QED
  BY <1>1, <1>2, <1>3, <1>4 DEF Safe, SafeMaps

(* The headers as they are read ask for no other pages.                    *)
LEMMA WalkAsked ==
  ASSUME IsProgram
  PROVE  /\ Walked \in Seq(Segment) /\ Walked # <<>> /\ Len(Walked) \in Nat /\ Len(Walked) >= 1
         /\ \A i \in 1 .. Len(Walked) : Inside(Walked[i]) /\ SegmentPages(Walked[i]) \subseteq Asked
<1>1. Segments = Append(file, Stack) /\ file \in Programs
  BY DEF Segments, IsProgram
<1>2. /\ Walked \in Seq(Segment) /\ Len(Walked) = Len(file) + 1 /\ Len(file) \in Nat
      /\ \A i \in 1 .. Len(Walked) :
           Inside(Walked[i]) /\ SegmentPages(Walked[i]) \subseteq SegmentPages(Segments[i])
  BY <1>1, WalkedIs
<1>3. file \in Seq(Segment) /\ Stack \in Segment
  BY <1>1, LoaderAssumption, StackPlaced DEF Segment, Placed, Inside
<1>4. DOMAIN Segments = 1 .. Len(Walked)
  BY <1>1, <1>2, <1>3
<1>5. \A i \in 1 .. Len(Walked) : SegmentPages(Segments[i]) \subseteq Asked
  BY <1>4 DEF Asked
<1>6. Walked # <<>> /\ Len(Walked) \in Nat /\ Len(Walked) >= 1
  BY <1>2
<1> QED
  BY <1>2, <1>5, <1>6

LEMMA CheckSafe == ASSUME Safe, CheckHeader PROVE Safe'
<1>1. Memory' = Memory /\ used' = used /\ pc = "header" /\ file' = file
  BY DEF CheckHeader, paging, Memory
<1>2. /\ Sane(Memory) /\ used = ReservedFrames /\ \A p \in 0 .. IdentityPages - 1 : Kept(Memory, p)
      /\ file \in (Programs \cup OtherFiles) \ Missing
  BY <1>1 DEF Safe, SafeMaps
<1>3. Sane(Memory') /\ used' = ReservedFrames /\ \A p \in 0 .. IdentityPages - 1 : Kept(Memory', p)
  BY <1>1, <1>2
<1>4. CASE pc' = "shell" /\ ~open'
  BY <1>3, <1>4 DEF Safe, SafeMaps
<1>5. CASE /\ file \notin OtherFiles /\ pc' = "map" /\ prog' = Walked /\ todo' = SegmentPages(Walked[1])
  <2>1. IsProgram
    BY <1>2, <1>5 DEF IsProgram
  <2>2. IsProgram' /\ Asked' = Asked
    BY <1>1, <2>1, SameFile, SameAsked
  <2>3. SafeWalk'
    BY <1>5, <2>1, <2>2, WalkAsked DEF SafeWalk
  <2>4. SafeMaps'
    BY <1>3 DEF SafeMaps
  <2> QED
    BY <1>5, <2>3, <2>4 DEF Safe
<1>6. \/ pc' = "shell" /\ ~open'
      \/ /\ file \notin OtherFiles /\ pc' = "map" /\ prog' = Walked /\ todo' = SegmentPages(Walked[1])
  BY DEF CheckHeader, BadHeader, Walked
<1> QED
  BY <1>4, <1>5, <1>6

LEMMA MapSafe == ASSUME Safe, MapNext PROVE Safe'
<1> DEFINE page == Min(todo)
           r == MapUserPage(Memory, page)
<1>1. /\ pc = "map" /\ todo # {} /\ SetMemory(r) /\ todo' = todo \ {page}
      /\ pc' \in {"map", "fault", "lost"} /\ prog' = prog /\ file' = file
  BY DEF MapNext
<1>2. SafeMaps /\ SafeWalk
  BY <1>1 DEF Safe
<1>3. page \in todo /\ page \in Pages /\ page \in Asked
  <2>1. /\ todo \subseteq SegmentPages(prog[1]) /\ Inside(prog[1]) /\ SegmentPages(prog[1]) \subseteq Asked
    BY <1>2 DEF SafeWalk
  <2>2. todo \subseteq Pages
    BY <2>1, SegmentIn
  <2>3. todo \in SUBSET Nat
    BY <2>2, Sizes DEF Pages
  <2>4. page \in todo
    BY <1>1, <2>3, MinNat
  <2> QED
    BY <2>1, <2>2, <2>4
<1> HIDE DEF page
<1>4. Sane(r) /\ \A p \in Pages \ {page} : Lookup(r, p) = Lookup(Memory, p)
  BY <1>2, <1>3, SanePageMapped DEF SafeMaps
<1> HIDE DEF r
<1>5. Sane(Memory') /\ \A p \in Pages : Lookup(Memory', p) = Lookup(r, p)
  BY <1>1, <1>4, MemorySane
<1>6. Asked' = Asked /\ IsProgram' = IsProgram
  BY <1>1, SameAsked, SameFile
<1>7. SafeMaps'
  <2> SUFFICES ASSUME NEW p \in 0 .. IdentityPages - 1, p \notin Asked PROVE Kept(Memory', p)
    BY <1>5, <1>6 DEF SafeMaps
  <2>1. p \in Pages \ {page} /\ Kept(Memory, p)
    BY <1>2, <1>3, LowPages DEF SafeMaps
  <2> QED
    BY <1>4, <1>5, <2>1 DEF Kept
<1>8. SafeWalk'
  BY <1>1, <1>2, <1>6 DEF SafeWalk
<1> QED
  BY <1>1, <1>7, <1>8 DEF Safe

LEMMA MappedSafe == ASSUME Safe, Mapped PROVE Safe'
<1>1. /\ Memory' = Memory /\ pc = "map" /\ pc' = "fill" /\ prog' = prog /\ todo' = todo /\ file' = file
  BY DEF Mapped, paging, Memory
<1>2. SafeMaps /\ SafeWalk
  BY <1>1 DEF Safe
<1>3. Asked' = Asked /\ IsProgram' = IsProgram
  BY <1>1, SameAsked, SameFile
<1>4. SafeMaps' /\ SafeWalk'
  BY <1>1, <1>2, <1>3 DEF SafeMaps, SafeWalk
<1> QED
  BY <1>1, <1>4 DEF Safe

LEMMA FillSafe == ASSUME Safe, Fill PROVE Safe'
<1> DEFINE s == Head(prog)
           rest == Tail(prog)
           r == IF s.load THEN Stores(Memory, Image(s)) ELSE Memory
<1>1. /\ pc = "fill" /\ InPlace(s) = {} /\ SetMemory(r) /\ prog' = rest /\ file' = file
      /\ todo' = (IF rest = <<>> THEN {} ELSE SegmentPages(Head(rest)))
      /\ pc' = (IF r.fault THEN "fault" ELSE IF rest = <<>> THEN "user" ELSE "map")
      /\ open' = (rest # <<>> \/ r.fault)
  BY DEF Fill
<1>2. SafeMaps /\ SafeWalk
  BY <1>1 DEF Safe
<1>3. /\ prog \in Seq(Segment) /\ prog # <<>> /\ s = prog[1] /\ Inside(s) /\ Len(prog) \in Nat /\ Len(prog) >= 1
  BY <1>2 DEF SafeWalk
<1>4. /\ rest \in Seq(Segment)
      /\ \A j \in 1 .. Len(rest) : Inside(rest[j]) /\ SegmentPages(rest[j]) \subseteq Asked
      /\ rest # <<>> => Head(rest) = rest[1]
  <2>1. rest \in Seq(Segment) /\ Len(rest) = Len(prog) - 1 /\ \A j \in 1 .. Len(rest) : rest[j] = prog[j + 1]
    BY <1>3
  <2>2. \A j \in 1 .. Len(rest) : j + 1 \in 1 .. Len(prog)
    BY <1>3, <2>1
  <2> HIDE DEF rest
  <2>3. \A j \in 1 .. Len(rest) : Inside(rest[j]) /\ SegmentPages(rest[j]) \subseteq Asked
    BY <1>2, <2>1, <2>2 DEF SafeWalk
  <2> QED
    BY <2>1, <2>3
<1> HIDE DEF s, rest, r
<1>5. Sane(r) /\ \A p \in Pages : Lookup(r, p) = Lookup(Memory, p)
  <2>1. CASE s.load
    <3>1. \A p \in SegmentPages(s) : ~Kept(Memory, p)
      BY <1>1 DEF InPlace, Kept
    <3>2. r = Stores(Memory, Image(s))
      BY <2>1 DEF r
    <3> QED
      BY <1>2, <1>3, <2>1, <3>1, <3>2, SaneFilled DEF SafeMaps
  <2>2. CASE ~s.load
    BY <1>2, <2>2 DEF r, SafeMaps
  <2> QED
    BY <2>1, <2>2
<1>6. Sane(Memory') /\ \A p \in Pages : Lookup(Memory', p) = Lookup(r, p)
  BY <1>1, <1>5, MemorySane
<1>7. Asked' = Asked /\ IsProgram' = IsProgram
  BY <1>1, SameAsked, SameFile
<1>8. SafeMaps'
  <2> SUFFICES ASSUME NEW p \in 0 .. IdentityPages - 1, p \notin Asked PROVE Kept(Memory', p)
    BY <1>6, <1>7 DEF SafeMaps
  <2>1. p \in Pages /\ Kept(Memory, p)
    BY <1>2, LowPages DEF SafeMaps
  <2> QED
    BY <1>5, <1>6, <2>1 DEF Kept
<1>9. CASE r.fault
  BY <1>1, <1>8, <1>9 DEF Safe
<1>10. CASE ~r.fault /\ rest = <<>>
  BY <1>1, <1>8, <1>10 DEF Safe
<1>11. CASE ~r.fault /\ rest # <<>>
  <2>1. SafeWalk'
    BY <1>1, <1>2, <1>4, <1>7, <1>11 DEF SafeWalk
  <2> QED
    BY <1>1, <1>8, <1>11, <2>1 DEF Safe
<1> QED
  BY <1>9, <1>10, <1>11

LEMMA StutterSafe == ASSUME Safe, UNCHANGED vars PROVE Safe'
<1>1. /\ Memory' = Memory /\ used' = used /\ pc' = pc /\ prog' = prog
      /\ todo' = todo /\ open' = open /\ file' = file
  BY DEF vars, paging, Memory
<1>2. Asked' = Asked /\ IsProgram' = IsProgram
  BY <1>1, SameAsked, SameFile
<1>3. SafeMaps => SafeMaps'
  BY <1>1, <1>2 DEF SafeMaps
<1>4. SafeWalk => SafeWalk'
  BY <1>1, <1>2 DEF SafeWalk
<1> QED
  BY <1>1, <1>3, <1>4 DEF Safe

LEMMA NextSafe == Safe /\ [Next]_vars => Safe'
<1> SUFFICES ASSUME Safe, [Next]_vars PROVE Safe'
  OBVIOUS
<1>1. CASE \E f \in Programs \cup OtherFiles \cup Missing : exec_elf(f)
  BY <1>1, ExecSafe
<1>2. CASE fat32_file_lookup
  BY <1>2, LookupSafe
<1>3. CASE CheckHeader
  BY <1>3, CheckSafe
<1>4. CASE MapNext
  BY <1>4, MapSafe
<1>5. CASE Mapped
  BY <1>5, MappedSafe
<1>6. CASE Overwrite
  BY <1>6 DEF Overwrite, Safe
<1>7. CASE Fill
  BY <1>7, FillSafe
<1>8. CASE Stopped \/ UNCHANGED vars
  BY <1>8, StutterSafe DEF Stopped
<1> QED
  BY <1>1, <1>2, <1>3, <1>4, <1>5, <1>6, <1>7, <1>8 DEF Next

(* Wherever a program lies, every step leaves page tables and frame bitmap *)
(* in order, until a program takes the kernel's own memory away.           *)
THEOREM Safety == Spec => []Safe
<1>1. Init => Safe
  BY InitSafe
<1>2. Safe /\ [Next]_vars => Safe'
  BY NextSafe
<1> QED
  BY <1>1, <1>2, PTL DEF Spec

LEMMA SaneIsPrivate == ASSUME Sane(Memory) PROVE UserFramesPrivate
<1> DEFINE frames == {FrameOf(Memory, p) : p \in UserPages}
           F == [p \in UserPages |-> FrameOf(Memory, p)]
<1>0. Shape(Memory)
  BY DEF Sane
<1>1. \A p \in UserPages : p \in Pages /\ Lookup(Memory, p) # Zero /\ ~Kept(Memory, p)
  <2> SUFFICES ASSUME NEW p \in UserPages, Kept(Memory, p) PROVE FALSE
    BY DEF UserPages
  <2>1. Lookup(Memory, p).user = FALSE
    BY KeptIs DEF UserPages
  <2> QED
    BY <2>1 DEF UserPages
<1>2. \A p \in UserPages : /\ FrameOf(Memory, p) \in used \ ReservedFrames
                           /\ ~IsTable(Memory, FrameOf(Memory, p))
                           /\ FrameOf(Memory, p) \in Frames
  <2>1. \A p \in UserPages : FrameOf(Memory, p) \in Frames
    BY <1>0, <1>1, LookupIs
  <2> QED
    BY <1>1, <2>1 DEF Sane, OwnPages, Memory
<1>3. \A f : f \in TableFrames => IsTable(Memory, f)
  <2>1. DOMAIN dir = Dirs
    BY <1>0 DEF Shape, Memory
  <2> QED
    BY <2>1 DEF TableFrames, IsTable, Memory
<1>4. frames \subseteq used \ TableFrames
  BY <1>2, <1>3
<1>5. \A f \in frames : f * Words >= KernelEnd
  <2> SUFFICES ASSUME NEW p \in UserPages PROVE FrameOf(Memory, p) * Words >= KernelEnd
    OBVIOUS
  <2>1. FrameOf(Memory, p) \in Nat /\ FrameOf(Memory, p) >= First
    BY <1>2, FirstFree, Sizes DEF Frames
  <2> QED
    BY <2>1, FirstFree
<1>6. Cardinality(frames) = Cardinality(UserPages)
  <2>1. IsFiniteSet(UserPages)
    <3>1. IsFiniteSet(Pages)
      BY Sizes, FS_Interval DEF Pages
    <3>2. UserPages \in SUBSET Pages
      BY DEF UserPages
    <3> QED
      BY <3>1, <3>2, FS_Subset
  <2>2. F \in [UserPages -> frames] /\ \A f \in frames : \E p \in UserPages : F[p] = f
    OBVIOUS
  <2>3. F \in Surjection(UserPages, frames)
    BY <2>2 DEF Surjection
  <2>4. \A p, q \in UserPages : F[p] = F[q] => p = q
    BY <1>1 DEF Sane, OwnPages
  <2>5. F \in Injection(UserPages, frames)
    BY <2>2, <2>4 DEF Injection, IsInjective
  <2> HIDE DEF F, frames
  <2> QED
    BY <2>1, <2>3, <2>5, FS_Surjection
<1> QED
  BY <1>4, <1>5, <1>6 DEF UserFramesPrivate

(* No page that a program can touch is backed by a frame of the kernel, of *)
(* its heap or of a page table, or by another page's frame: of any         *)
(* programs, wherever they lie and whether or not there is memory for them.*)
THEOREM FramesArePrivate == Spec => []UserFramesPrivate
<1>1. Safe => UserFramesPrivate
  <2> SUFFICES ASSUME Safe, pc # "lost" PROVE UserFramesPrivate
    BY DEF UserFramesPrivate
  <2> QED
    BY SaneIsPrivate DEF Safe, SafeMaps
<1> QED
  BY <1>1, Safety, PTL

(* exec_elf changes no page of the identity map that the program's headers *)
(* do not ask for, wherever the program lies.                              *)
THEOREM KernelIsMapped == Spec => []KernelStaysMapped
<1>1. Safe => KernelStaysMapped
  BY DEF Safe, SafeMaps, Kept, KernelStaysMapped
<1> QED
  BY <1>1, Safety, PTL

(* exec_elf leaves no node open when it returns or starts the program, and *)
(* takes no frame for a file that it refuses.                              *)
THEOREM NothingIsLeft == Spec => []NothingLeftOpen
<1>1. Safe => NothingLeftOpen
  BY DEF Safe, NothingLeftOpen
<1> QED
  BY <1>1, Safety, PTL
=============================================================================
