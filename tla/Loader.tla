------------------------------- MODULE Loader -------------------------------
(***************************************************************************)
(* exec_elf of src/kernel/process/process.c on top of Paging.tla.  The     *)
(* shell calls it for a name that is no command; a program never comes     *)
(* back (there is no system call).  The stack is mapped and cleared like a *)
(* segment without file contents, after the last one.                      *)
(***************************************************************************)
EXTENDS Paging, Sequences

CONSTANTS Programs,   \* the executables: sequences of program headers
          OtherFiles, \* files that are no ELF file or not executable
          Missing,    \* names without a file
          StackPages, \* pages of the user stack, at the top of memory
          PhSize,     \* sizes of a program and of a section header in the
          ShSize      \* file: 32 and 40 bytes

(* p_vaddr is not checked: a program may lie anywhere below the stack, even *)
(* where the kernel is.                                                    *)
ASSUME LoaderAssumption ==
  /\ StackPages \in 1 .. VirtualPages - IdentityPages
  /\ PhSize \in Nat \ {0} /\ PhSize % 4 = 0 /\ ShSize \in Nat /\ PhSize <= ShSize
  /\ Programs \subseteq Seq([load : BOOLEAN, vaddr : Nat, memsz : Nat, filesz : Nat])
  /\ \A prog \in Programs : \A i \in DOMAIN prog :
       LET s == prog[i]
       IN s.load => /\ s.filesz <= s.memsz
                    /\ s.vaddr + s.memsz <= (VirtualPages - StackPages) * Words
  /\ Junk # Zero /\ Junk \notin [from : Nat, word : Nat]

VARIABLES pc,      \* "shell", "lookup", "header", "map", "fill", "user", "fault" or
                   \* "lost": the kernel's own memory is gone, the model ends
          prog,    \* the headers still to do, the stack last
          todo,    \* pages of the first one not yet mapped
          open,    \* a VFS node is allocated
          file     \* the file given to exec_elf last

vars == <<paging, pc, prog, todo, open, file>>

Stack == [load |-> TRUE, vaddr |-> (VirtualPages - StackPages) * Words,
          memsz |-> StackPages * Words, filesz |-> 0]

SegmentPages(s) == IF s.load THEN PagesOf(s.vaddr, s.memsz) ELSE {}

Init == /\ paging_init
        /\ pc = "shell" /\ prog = <<>> /\ todo = {} /\ open = FALSE /\ file = <<>>

(* vfs_open allocates a node; without memory for it nothing changes.       *)
exec_elf(f) ==
  /\ pc = "shell"
  /\ pc' = "lookup" /\ open' = TRUE /\ file' = f
  /\ UNCHANGED <<paging, prog, todo>>

(* The rest of vfs_open: fat32_file_lookup, and kfree when it fails.       *)
fat32_file_lookup ==
  /\ pc = "lookup"
  /\ \/ file \in Missing /\ pc' = "shell" /\ open' = FALSE
     \/ file \notin Missing /\ pc' = "header" /\ UNCHANGED open
  /\ UNCHANGED <<paging, prog, todo, file>>

BadHeaderLeft ==   \* mutant: the node is not closed
  pc' = "shell" /\ UNCHANGED <<prog, todo, open>>

(* Errors -2 and -3.                                                       *)
BadHeader == pc' = "shell" /\ open' = FALSE /\ UNCHANGED <<prog, todo>>

(* elf_header_t has four bytes for e_ehsize, where the file has two.  So   *)
(* what it calls e_phentsize is the number of headers in the file, and     *)
(* what it calls e_phnum the size of a section header.  Of the places in   *)
(* the table that are read, those inside of a header are taken to show no  *)
(* PT_LOAD, as in apps/sojeb/sojeb.elf; a header at none of them is as one *)
(* that loads nothing.                                                     *)
PlacesRead(headers) ==
  {k \in 1 .. Len(headers) : \E i \in 0 .. ShSize - 1 : i * Len(headers) = (k - 1) * PhSize}

HeadersRead(headers) ==
  [k \in 1 .. Len(headers) |-> [headers[k] EXCEPT !.load = @ /\ k \in PlacesRead(headers)]]

CheckHeader ==
  /\ pc = "header"
  /\ \/ file \in OtherFiles /\ BadHeader
     \/ /\ file \notin OtherFiles
        /\ pc' = "map" /\ prog' = Append(HeadersRead(file), Stack) /\ todo' = SegmentPages(prog'[1])
        /\ UNCHANGED open
  /\ UNCHANGED <<paging, file>>

(* paging_map_user_memory, one page at a time.  A page of the kernel that  *)
(* the program asks for is taken from the kernel.                          *)
MapNext ==
  LET page == Min(todo)
      m == MapUserPage(Memory, page)
  IN /\ pc = "map" /\ todo # {}
     /\ SetMemory(m)
     /\ todo' = todo \ {page}
     /\ pc' = IF m.fault THEN "fault"
              ELSE IF page \in ReservedFrames /\ FreeFrames(Memory) # {} THEN "lost" ELSE "map"
     /\ UNCHANGED <<prog, open, file>>

Mapped == /\ pc = "map" /\ todo = {}
          /\ pc' = "fill"
          /\ UNCHANGED <<paging, prog, todo, open, file>>

(* Word k of the file contents of header s.                                *)
FileWord(s, k) == [from |-> s.vaddr, word |-> k]

(* What memset and then vfs_read leave at the addresses of a segment.      *)
Image(s) == [w \in s.vaddr .. s.vaddr + s.memsz - 1 |->
               IF w < s.vaddr + s.filesz THEN FileWord(s, w - s.vaddr) ELSE Zero]

(* Pages of a segment that are still the kernel's: for want of a frame     *)
(* they were left as they are in the identity map, and the segment is      *)
(* cleared and read over the kernel, a page table or another page.         *)
InPlace(s) == {p \in SegmentPages(s) : p < IdentityPages /\ Lookup(Memory, p) = Entry(p, FALSE)}

Overwrite == /\ pc = "fill" /\ InPlace(Head(prog)) # {}
             /\ pc' = "lost"
             /\ UNCHANGED <<paging, prog, todo, open, file>>

(* The segment is cleared and read; then the next header, the stack or     *)
(* vfs_close and enter_user_mode.                                          *)
Fill ==
  LET s == Head(prog)
      m == IF s.load THEN Stores(Memory, Image(s)) ELSE Memory
      rest == Tail(prog)
  IN /\ pc = "fill" /\ InPlace(s) = {}
     /\ SetMemory(m)
     /\ prog' = rest
     /\ todo' = IF rest = <<>> THEN {} ELSE SegmentPages(Head(rest))
     /\ pc' = IF m.fault THEN "fault" ELSE IF rest = <<>> THEN "user" ELSE "map"
     /\ open' = (rest # <<>> \/ m.fault)
     /\ UNCHANGED file

Stopped == pc \in {"user", "fault", "lost"} /\ UNCHANGED vars

Next == \/ \E f \in Programs \cup OtherFiles \cup Missing : exec_elf(f)
        \/ fat32_file_lookup \/ CheckHeader \/ MapNext \/ Mapped \/ Overwrite \/ Fill \/ Stopped

Spec == Init /\ [][Next]_vars
-----------------------------------------------------------------------------
(* What the executable asks for: its headers, and the stack.               *)
Segments == IF file \in OtherFiles \cup Missing THEN <<>> ELSE Append(file, Stack)

Asked == UNION {SegmentPages(Segments[i]) : i \in DOMAIN Segments}

(* Every segment lies behind the kernel's identity map, as in the program  *)
(* that apps/ holds.  Nothing in exec_elf asks for it.                     *)
Behind == \A i \in DOMAIN Segments : Segments[i].load => Segments[i].vaddr >= IdentityPages * Words

(* Every page of every segment takes a frame, and every table.             *)
PageFrames == {ip \in (1 .. Len(Segments)) \X Pages : ip[2] \in SegmentPages(Segments[ip[1]])}

Tables == {ip[2] \div Words : ip \in PageFrames}

(* The program finds a frame below IdentityPages for each of them.         *)
Fits == Cardinality(PageFrames) + Cardinality(Tables) <= IdentityPages - Cardinality(ReservedFrames)

SeparatePages == \A i, j \in DOMAIN Segments :
                   i # j => SegmentPages(Segments[i]) \cap SegmentPages(Segments[j]) = {}

InMemory(s) == \A w \in DOMAIN Image(s) :
                 LET f == FrameOf(Memory, w \div Words)
                 IN f # NoFrame /\ phys[f][w % Words] = Image(s)[w]

AllInMemory == \A i \in DOMAIN Segments : Segments[i].load => InMemory(Segments[i])

(* No page a program can touch is backed by a frame that holds a byte of   *)
(* the kernel, of its heap or of a page table, or that backs another page, *)
(* and every such frame is marked in use.                                  *)
UserFramesPrivate ==
  LET frames == {FrameOf(Memory, p) : p \in UserPages}
  IN pc # "lost" => /\ frames \subseteq used \ TableFrames
                    /\ \A f \in frames : f * Words >= KernelEnd
                    /\ Cardinality(frames) = Cardinality(UserPages)

(* exec_elf changes no page of the identity map that the program's headers *)
(* do not ask for: kernel, heap and devices stay where they are, and only  *)
(* a program that lies on them itself takes them away.                     *)
KernelStaysMapped ==
  pc # "lost" => \A p \in 0 .. IdentityPages - 1 : p \in Asked \/ Lookup(Memory, p) = Entry(p, FALSE)

(* A program behind the identity map that fits is started, and never sees  *)
(* what was in its frames before.  If its segments lie on pages of their   *)
(* own and its headers are one, two or four (the counts with which every   *)
(* header is read), every segment is as its header describes it (contents, *)
(* then zeros, the stack cleared), whatever was mapped after it was read.  *)
LoadsWhatFits ==
  Behind /\ Fits =>
    /\ pc \notin {"fault", "lost"}
    /\ pc = "user" => \A p \in UserPages, o \in Offsets : phys[FrameOf(Memory, p)][o] # Junk
    /\ pc = "user" /\ SeparatePages /\ Len(file) \in {1, 2, 4} => AllInMemory

(* The node is closed and, after an error, no frame is taken.              *)
NothingLeftOpen == /\ pc \in {"shell", "user"} => ~open
                   /\ pc = "shell" => used = ReservedFrames
=============================================================================
