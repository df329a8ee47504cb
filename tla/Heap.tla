-------------------------------- MODULE Heap --------------------------------
(***************************************************************************)
(* The kernel heap of src/kernel/memory/memory.c: a first-fit allocator    *)
(* over one list of blocks.  The list that starts at free_list_head and    *)
(* follows the next pointers is the sequence blocks; a block is its        *)
(* header's address (relative to the heap start), its size field and its   *)
(* free flag.  A caller's pointer is the header address plus BlockSize.    *)
(* The kernel has one thread and takes no interrupts, so each call of the  *)
(* allocator is one step.                                                  *)
(***************************************************************************)
EXTENDS Integers, Sequences, SequencesExt

CONSTANTS HeapSize,    \* bytes given to kheap_init (4 MB in kernel_main)
          BlockSize,   \* sizeof(MemoryBlock), 12 on i386
          Alignment,   \* ALIGNMENT, 8
          SizeMod,     \* 2^32, the range of size_t
          Requests     \* the sizes callers ask for

(* The sizes callers pass stay clear of the top of size_t, where ALIGN     *)
(* wraps to 0 (the largest request in the kernel is below 2^17).           *)
ASSUME HeapAssumption ==
  /\ BlockSize \in Nat \ {0}
  /\ Alignment \in Nat \ {0}
  /\ HeapSize \in Nat /\ HeapSize >= BlockSize
  /\ SizeMod \in Nat /\ HeapSize < SizeMod
  /\ Requests \subseteq Nat
  /\ \A n \in Requests : n + 3 * Alignment + BlockSize < SizeMod

VARIABLES blocks,  \* the block list, in list order
          live     \* pointers callers hold -> the size they last asked for

vars == <<blocks, live>>

Block == [addr : Nat, size : Nat, free : BOOLEAN]

NULL == 0  \* no caller's pointer: those are at least BlockSize

-----------------------------------------------------------------------------
ALIGNDown(n) == n - (n % Alignment)   \* mutant: rounds down

(* Round up to a multiple of Alignment, in size_t arithmetic.              *)
ALIGN(n) == LET m == (n + Alignment - 1) % SizeMod IN m - (m % Alignment)

Ptr(b) == b.addr + BlockSize

IndexOf(bs, p) == CHOOSE i \in DOMAIN bs : Ptr(bs[i]) = p

Fits(b, need) == b.free /\ b.size >= need

NoneFits(bs, need) == \A i \in DOMAIN bs : ~Fits(bs[i], need)

(* The walk of kmalloc stops at block i.                                   *)
FirstFit(bs, need, i) == /\ Fits(bs[i], need)
                         /\ \A j \in 1 .. i - 1 : ~Fits(bs[j], need)

SplitNoHeader(bs, i, need) ==   \* mutant: new_block placed without the header
  LET b == bs[i]
  IN InsertAt([bs EXCEPT ![i].size = need], i + 1,
              [addr |-> b.addr + need,
               size |-> b.size - need, free |-> TRUE])

(* Cut block i after need bytes; the rest becomes a free block.            *)
Split(bs, i, need) ==
  LET b == bs[i]
  IN InsertAt([bs EXCEPT ![i].size = need], i + 1,
              [addr |-> b.addr + BlockSize + need,
               size |-> b.size - need - BlockSize, free |-> TRUE])

(* Block i absorbs its successor.                                          *)
Absorb(bs, i) ==
  RemoveAt([bs EXCEPT ![i].size = @ + BlockSize + bs[i + 1].size], i + 1)

AbsorbIfFree(bs, i) ==
  IF i + 1 \in DOMAIN bs /\ bs[i + 1].free THEN Absorb(bs, i) ELSE bs

HasRoomAlways(size, need) == TRUE   \* mutant: splits without looking

(* A split must leave room for a header and Alignment bytes.               *)
HasRoomToSplit(size, need) == size >= need + BlockSize + Alignment

(* kmalloc takes block i for need bytes.                                   *)
Take(bs, i, need) ==
  LET cut == IF HasRoomToSplit(bs[i].size, need) THEN Split(bs, i, need) ELSE bs
  IN [cut EXCEPT ![i].free = FALSE]

PutBackNextOnly(bs, p) ==   \* mutant: no coalescing with the previous block
  LET i == IndexOf(bs, p) IN AbsorbIfFree([bs EXCEPT ![i].free = TRUE], i)

PutBackPrevOnly(bs, p) ==   \* mutant: no coalescing with the next block
  LET i    == IndexOf(bs, p)
      freed == [bs EXCEPT ![i].free = TRUE]
  IN IF i > 1 /\ freed[i - 1].free THEN Absorb(freed, i - 1) ELSE freed

(* kfree: mark the block free, coalesce with the next, then the previous.  *)
PutBack(bs, p) ==
  LET i    == IndexOf(bs, p)
      next == AbsorbIfFree([bs EXCEPT ![i].free = TRUE], i)
  IN IF i > 1 /\ next[i - 1].free THEN Absorb(next, i - 1) ELSE next

CanGrowIntoUsed(bs, i, need) ==   \* mutant: does not look at next->free
  /\ i + 1 \in DOMAIN bs
  /\ bs[i].size + BlockSize + bs[i + 1].size >= need

(* krealloc may extend block i over its free successor.                    *)
CanGrow(bs, i, need) == /\ i + 1 \in DOMAIN bs /\ bs[i + 1].free
                        /\ bs[i].size + BlockSize + bs[i + 1].size >= need

(* Extend block i; what is left over becomes a free block again, merged    *)
(* with a free block that follows it.                                      *)
GrowInPlace(bs, i, need) ==
  LET all == Absorb(bs, i)
  IN IF HasRoomToSplit(all[i].size, need)
     THEN AbsorbIfFree(Split(all, i, need), i + 1)
     ELSE all

-----------------------------------------------------------------------------
Grant(h, p, n) == [q \in DOMAIN h \cup {p} |-> IF q = p THEN n ELSE h[q]]

Revoke(h, p) == [q \in DOMAIN h \ {p} |-> h[q]]

(* kheap_init *)
Init == /\ blocks = <<[addr |-> 0, size |-> HeapSize - BlockSize, free |-> TRUE]>>
        /\ live = [p \in {} |-> 0]

kmalloc(n) ==
  \/ \E i \in DOMAIN blocks :
       /\ FirstFit(blocks, ALIGN(n), i)
       /\ blocks' = Take(blocks, i, ALIGN(n))
       /\ live' = Grant(live, Ptr(blocks[i]), n)
  \/ /\ NoneFits(blocks, ALIGN(n))      \* returns NULL
     /\ UNCHANGED vars

kfree(p) ==
  \/ /\ p = NULL
     /\ UNCHANGED vars
  \/ /\ p # NULL
     /\ blocks' = PutBack(blocks, p)
     /\ live' = Revoke(live, p)

(* The tail of krealloc: a new block, a copy, and the old block freed.     *)
Relocate(p, n) ==
  LET need == ALIGN(ALIGN(n))           \* kmalloc aligns the aligned size
  IN \/ \E i \in DOMAIN blocks :
          /\ FirstFit(blocks, need, i)
          /\ blocks' = PutBack(Take(blocks, i, need), p)
          /\ live' = Grant(Revoke(live, p), Ptr(blocks[i]), n)
     \/ /\ NoneFits(blocks, need)       \* NULL: the old pointer stays valid
        /\ UNCHANGED vars

krealloc(p, n) ==
  \/ p = NULL /\ kmalloc(n)
  \/ p # NULL /\ n = 0 /\ kfree(p)
  \/ /\ p # NULL /\ n # 0
     /\ LET i == IndexOf(blocks, p)
        IN \/ /\ blocks[i].size >= ALIGN(n)
              /\ live' = Grant(live, p, n)
              /\ UNCHANGED blocks
           \/ /\ blocks[i].size < ALIGN(n)
              /\ CanGrow(blocks, i, ALIGN(n))
              /\ blocks' = GrowInPlace(blocks, i, ALIGN(n))
              /\ live' = Grant(live, p, n)
           \/ /\ blocks[i].size < ALIGN(n)
              /\ ~CanGrow(blocks, i, ALIGN(n))
              /\ Relocate(p, n)

(* Callers free and resize only pointers they hold.                        *)
Next == \/ \E n \in Requests : kmalloc(n)
        \/ \E p \in DOMAIN live \cup {NULL} : kfree(p)
        \/ \E p \in DOMAIN live \cup {NULL}, n \in Requests : krealloc(p, n)

Spec == Init /\ [][Next]_vars
-----------------------------------------------------------------------------
End(b) == b.addr + BlockSize + b.size

Used(bs) == {i \in DOMAIN bs : ~bs[i].free}

(* The reservations the block list encodes.                                *)
Held == [p \in {Ptr(blocks[i]) : i \in Used(blocks)} |->
           blocks[IndexOf(blocks, p)].size]

Promise == INSTANCE Allocator
             WITH ArenaSize <- HeapSize, HeaderSize <- BlockSize, held <- Held

(* The list holds blocks, and callers hold pointers to sizes they asked    *)
(* for; in particular no size field computed by a split ever underflows.   *)
TypeOK == /\ blocks \in Seq(Block)
          /\ live = [p \in DOMAIN live |-> live[p]]
          /\ \A p \in DOMAIN live : p \in Nat /\ live[p] \in Nat

(* A list of blocks covers the heap, from its first byte to its last.      *)
Tiles(bs) == /\ Len(bs) > 0
             /\ bs[1].addr = 0
             /\ \A i \in 1 .. Len(bs) - 1 : bs[i + 1].addr = End(bs[i])
             /\ End(bs[Len(bs)]) = HeapSize

NoTwoFree(bs) == \A i \in 1 .. Len(bs) - 1 : ~(bs[i].free /\ bs[i + 1].free)

(* However calls are ordered, the blocks cover the heap from its first to  *)
(* its last byte in list order, with no hole and no overlap: the address   *)
(* a split computes and the sizes a merge adds up always agree.            *)
Tiled == Tiles(blocks)

(* kfree merges with both neighbours and krealloc with the block after its *)
(* remainder, so two free blocks are never adjacent and free space is      *)
(* never fragmented into pieces that could be one block.                   *)
Coalesced == NoTwoFree(blocks)

(* The used blocks are exactly the pointers callers hold (nothing is lost, *)
(* nothing is handed out twice), and each has at least the bytes its       *)
(* caller last asked for, whether by kmalloc or by krealloc.               *)
LiveBacked == /\ DOMAIN live = {Ptr(blocks[i]) : i \in Used(blocks)}
              /\ \A i \in Used(blocks) : blocks[i].size >= live[Ptr(blocks[i])]

(* kmalloc answers "Out of memory" only when the heap really has no gap    *)
(* between reservations that could hold the request and its header.        *)
NullMeansFull ==
  \A n \in Requests :
    NoneFits(blocks, ALIGN(n)) =>
      \A p \in BlockSize .. HeapSize - ALIGN(n) : ~Promise!Vacant(Held, p, ALIGN(n))

(* Every call of the allocator is a step of the Allocator specification:   *)
(* reservations never overlap, a grown block takes only vacant bytes, and  *)
(* krealloc's copy never overlaps its source nor overruns its destination. *)
KeepsPromise == Promise!Spec
=============================================================================
