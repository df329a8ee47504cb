------------------------------- MODULE Paging -------------------------------
(***************************************************************************)
(* Physical frames and page tables, src/kernel/paging/paging.c.  A page    *)
(* holds Words words, and a page table is a page whose words are entries.  *)
(* Page tables live in physical memory, and the kernel reaches them, as    *)
(* everything else, through the translation that is in force: a frame is   *)
(* written at the virtual address equal to its physical one, which is      *)
(* right below IdentityPages only.  map_page ends with invlpg, so no stale *)
(* translation is ever used.                                               *)
(***************************************************************************)
EXTENDS Integers, FiniteSets, FiniteSetsExt

CONSTANTS Words,         \* words of a page, entries of a table
          StaticTables,  \* first_page_tables
          TotalFrames,   \* TOTAL_FRAMES
          VirtualPages,  \* pages of the address space
          KernelEnd,     \* kernel_end_paddr, in words
          Zero, Junk,    \* a cleared word, one that was never written
          NoFrame

IdentityPages == StaticTables * Words

(* The kernel's own tables are the frames from 1 on.                       *)
StaticTable(i) == 1 + i

ASSUME PagingAssumption ==
  /\ Words \in Nat \ {0} /\ StaticTables \in Nat \ {0}
  /\ TotalFrames \in Nat /\ VirtualPages \in Nat /\ VirtualPages % Words = 0
  /\ KernelEnd \in Nat /\ KernelEnd > (StaticTables + 1) * Words
  /\ KernelEnd <= IdentityPages * Words
  /\ IdentityPages <= TotalFrames /\ TotalFrames <= VirtualPages
  /\ NoFrame \notin 0 .. TotalFrames - 1
  /\ {Zero, Junk} \cap [frame : 0 .. VirtualPages - 1, user : BOOLEAN] = {}

VARIABLES phys,  \* frame -> its words
          used,  \* frame_bitmap: the frames whose bit is set
          dir    \* page_directory: index -> frame of the table, or NoFrame

paging == <<phys, used, dir>>

Frames == 0 .. TotalFrames - 1
Offsets == 0 .. Words - 1
Pages == 0 .. VirtualPages - 1
Entry(f, user) == [frame |-> f, user |-> user]

ReservedFramesNone == {}   \* mutant: nothing is marked

ReservedFramesDown == 0 .. KernelEnd \div Words - 1   \* mutant: rounded down

(* The frames of kernel and heap that paging_init marks.                   *)
ReservedFrames == 0 .. (KernelEnd + Words - 1) \div Words - 1

paging_init ==
  /\ used = ReservedFrames
  /\ dir = [d \in 0 .. VirtualPages \div Words - 1 |->
              IF d < StaticTables THEN StaticTable(d) ELSE NoFrame]
  /\ phys = [f \in Frames |-> [o \in Offsets |->
               IF f \in {StaticTable(i) : i \in 0 .. StaticTables - 1}
               THEN Entry((f - 1) * Words + o, FALSE) ELSE Junk]]
-----------------------------------------------------------------------------
(* The operations below work on a record m of the three variables and a    *)
(* flag: fault says that a page fault, for which there is no handler, has  *)
(* stopped the machine.                                                    *)

Memory == [phys |-> phys, used |-> used, dir |-> dir, fault |-> FALSE]

SetMemory(m) == phys' = m.phys /\ used' = m.used /\ dir' = m.dir

IsEntry(w) == w \notin {Zero, Junk} /\ "frame" \in DOMAIN w

(* The processor's translation of a page: an entry, or Zero.               *)
Lookup(m, page) ==
  LET t == m.dir[page \div Words]
      w == m.phys[t][page % Words]
  IN IF t = NoFrame THEN Zero ELSE IF IsEntry(w) THEN w ELSE Zero

FrameOf(m, page) == LET w == Lookup(m, page) IN IF w = Zero THEN NoFrame ELSE w.frame

(* The kernel stores val[w] at every virtual word address w of val.        *)
Stores(m, val) ==
  LET to == [w \in DOMAIN val |-> FrameOf(m, w \div Words)]
      at(f, o) == {w \in DOMAIN val : to[w] = f /\ w % Words = o}
      new(f) == [o \in Offsets |-> IF at(f, o) = {} THEN m.phys[f][o] ELSE val[Max(at(f, o))]]
  IN IF \E w \in DOMAIN val : to[w] = NoFrame
     THEN [m EXCEPT !.fault = TRUE]
     ELSE [m EXCEPT !.phys = [f \in Frames |->
             IF \E w \in DOMAIN val : to[w] = f THEN new(f) ELSE @[f]]]

(* memset of a page-sized range to 0.                                      *)
ClearPage(m, page) == Stores(m, [w \in page * Words .. page * Words + Words - 1 |-> Zero])

(* alloc_frame takes the first frame whose bit is clear.                   *)
Allocate(m, f) == [m EXCEPT !.used = @ \cup {f}]

FreeFrames(m) == Frames \ m.used

(* page_table[pt_idx] = ..., through the table's physical address.         *)
SetEntry(m, t, page, f) == Stores(m, [w \in {t * Words + (page % Words)} |-> Entry(f, TRUE)])

map_page(m, f, page) ==
  LET t == m.dir[page \div Words]
      new == Min(FreeFrames(m))
      cleared == ClearPage(Allocate(m, new), new)
  IN IF t # NoFrame THEN SetEntry(m, t, page, f)
     ELSE IF FreeFrames(m) = {} THEN m
     ELSE SetEntry([cleared EXCEPT !.dir[page \div Words] = new], new, page, f)

(* One turn of the loop of paging_map_user_memory; without a frame it goes *)
(* on with the next page.                                                  *)
MapUserPage(m, page) ==
  LET f == Min(FreeFrames(m))
  IN IF FreeFrames(m) = {} THEN m ELSE map_page(ClearPage(Allocate(m, f), f), f, page)

PagesInside(address, size) ==   \* mutant: no trailing partial page
  IF size = 0 THEN {} ELSE address \div Words .. (address + size) \div Words - 1

(* The pages that the loop visits for a block of size words.               *)
PagesOf(address, size) ==
  IF size = 0 THEN {} ELSE address \div Words .. (address + size + Words - 1) \div Words - 1
-----------------------------------------------------------------------------
UserPages == {p \in Pages : Lookup(Memory, p) # Zero /\ Lookup(Memory, p).user}

TableFrames == {dir[d] : d \in DOMAIN dir} \ {NoFrame}
=============================================================================
