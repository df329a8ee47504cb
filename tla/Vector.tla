------------------------------- MODULE Vector -------------------------------
(***************************************************************************)
(* The growable array of src/kernel/libc/vector.c, which holds the shell's *)
(* table of commands.  Sizes are counted in elements.  kmalloc may answer  *)
(* NULL at any call, and otherwise gives a fresh block with as many slots  *)
(* as were asked for (Heap.tla shows that it gives at least that).  A      *)
(* caller pushes on a vector that it has initialised: capacity 0 doubles   *)
(* to 0, and the element would be stored in an empty block.                *)
(***************************************************************************)
EXTENDS Integers, Sequences, FiniteSets, FiniteSetsExt

CONSTANTS Elements,      \* what is pushed
          Junk,          \* what a fresh block holds
          Capacities,    \* initial_capacity arguments
          MaxItems       \* bound on the size of the vector

ASSUME VectorAssumption ==
  Junk \notin Elements /\ Capacities \subseteq Nat /\ MaxItems \in Nat

VARIABLES data,      \* NoData, or the block that vec->data points to
          size,      \* vec->size
          capacity,  \* vec->capacity
          held,      \* the vector's blocks on the heap: name -> slots
          overrun,   \* an element was stored outside its block
          items,     \* the list the caller has in mind
          alive       \* initialised and not freed since

vectorVars == <<data, size, capacity, held, overrun, items, alive>>

NoData == 0

(* A fresh block of n slots, named b, on heap h.                           *)
Fresh(h, b, n) == [x \in DOMAIN h \cup {b} |-> IF x = b THEN [i \in 1 .. n |-> Junk] ELSE h[x]]

Free(h, b) == [x \in DOMAIN h \ {b} |-> h[x]]

(* The names of blocks are recycled, as addresses are.                     *)
NewName == Min((1 .. Cardinality(DOMAIN held) + 1) \ DOMAIN held)

VectorInit == /\ data = NoData /\ size = 0 /\ capacity = 0
              /\ held = [b \in {} |-> <<>>]
              /\ overrun = FALSE /\ items = <<>> /\ alive = FALSE

vector_init(n) ==
  LET asked == IF n = 0 THEN 4 ELSE n
  IN /\ ~alive
     /\ size' = 0 /\ items' = <<>>
     /\ \/ /\ data' = NewName /\ held' = Fresh(held, NewName, asked)
           /\ capacity' = asked /\ alive' = TRUE
        \/ /\ data' = NoData /\ capacity' = 0           \* out of memory
           /\ UNCHANGED <<held, alive>>
     /\ UNCHANGED overrun

vector_free ==
  /\ data # NoData
  /\ data' = NoData /\ size' = 0 /\ capacity' = 0
  /\ held' = Free(held, data)
  /\ items' = <<>> /\ alive' = FALSE
  /\ UNCHANGED overrun

Copy(from, to, n) == [i \in DOMAIN to |-> IF i <= n THEN from[i] ELSE to[i]]

ResizeNoCopy(h, b, n) ==   \* mutant: the old elements are not copied
  IF data # NoData /\ size > 0 THEN Free(Fresh(h, b, n), data) ELSE Fresh(h, b, n)

ResizeNoFree(h, b, n) ==   \* mutant: the old block is not freed
  LET grown == Fresh(h, b, n)
  IN IF data # NoData /\ size > 0
     THEN [grown EXCEPT ![b] = Copy(h[data], @, Min({size, n}))]
     ELSE grown

(* vector_resize, once kmalloc has given block b of n slots.               *)
Resized(h, b, n) ==
  LET grown == Fresh(h, b, n)
  IN IF data # NoData /\ size > 0
     THEN Free([grown EXCEPT ![b] = Copy(h[data], @, Min({size, n}))], data)
     ELSE grown

(* memcpy(target, element): slot size + 1 of block b.                      *)
Store(h, b, e) ==
  /\ held' = IF size + 1 \in DOMAIN h[b] THEN [h EXCEPT ![b][size + 1] = e] ELSE h
  /\ overrun' = (overrun \/ size + 1 \notin DOMAIN h[b])
  /\ size' = size + 1 /\ items' = Append(items, e)

IsFull == size >= capacity

vector_push_back(e) ==
  /\ alive
  /\ size < MaxItems
  /\ \/ /\ ~IsFull
        /\ Store(held, data, e)
        /\ UNCHANGED <<data, capacity>>
     \/ /\ IsFull
        /\ data' = NewName /\ capacity' = capacity * 2
        /\ Store(Resized(held, NewName, capacity * 2), NewName, e)
     \/ IsFull /\ UNCHANGED <<data, size, capacity, held, overrun, items>>  \* out of memory
  /\ UNCHANGED alive

vector_pop_back ==
  /\ size # 0
  /\ size' = size - 1 /\ items' = SubSeq(items, 1, Len(items) - 1)
  /\ UNCHANGED <<data, capacity, held, overrun, alive>>

vector_clear ==
  /\ size' = 0 /\ items' = <<>>
  /\ UNCHANGED <<data, capacity, held, overrun, alive>>

(* What vector_get returns at an index counted from 0.                     *)
vector_get(i) == IF i >= size THEN NoData ELSE held[data][i + 1]

VectorNext == \/ \E n \in Capacities : vector_init(n)
              \/ \E e \in Elements : vector_push_back(e)
              \/ vector_pop_back
              \/ vector_clear
              \/ vector_free

VectorSpec == VectorInit /\ [][VectorNext]_vectorVars
-----------------------------------------------------------------------------
(* Nothing is ever stored outside the vector's block, and vector_get       *)
(* returns the elements in the order they were pushed, however often the   *)
(* vector grew, shrank, failed to grow, was freed and initialised again.   *)
KeepsItems == /\ ~overrun /\ size = Len(items)
              /\ \A i \in 0 .. size - 1 : vector_get(i) = items[i + 1]

(* The vector owns one block while it lives and none after: no resize      *)
(* leaks the old block or frees it twice.                                  *)
OneBlock == DOMAIN held = IF data = NoData THEN {} ELSE {data}
=============================================================================
