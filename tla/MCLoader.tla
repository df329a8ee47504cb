------------------------------ MODULE MCLoader ------------------------------
(* Loader.tla with pages of two words and programs of one to four headers. *)
EXTENDS Loader

Start == IdentityPages * Words

Headers(sizes) ==
  {[load |-> TRUE, vaddr |-> Start + at, memsz |-> n, filesz |-> k] :
     at \in {0, 1, 2, 3, 5}, n \in sizes, k \in {0, 1, 3}}

Wellformed(sizes) == {s \in Headers(sizes) : s.filesz <= s.memsz /\ s.vaddr + s.memsz <= (VirtualPages - StackPages) * Words}
  \cup {[load |-> FALSE, vaddr |-> Start, memsz |-> 1, filesz |-> 1]}

(* Segments come in the order of their addresses and do not overlap.       *)
OneOrTwo(sizes) ==
  LET W == Wellformed(sizes)
  IN {<<s>> : s \in W} \cup
     {p \in {<<s, t>> : s, t \in W} : p[1].load /\ p[2].load => p[1].vaddr + p[1].memsz <= p[2].vaddr}

(* What a linker makes: code, data, and headers that load nothing.         *)
CodeAndData(others) ==
  <<[load |-> TRUE, vaddr |-> Start, memsz |-> 2, filesz |-> 2],
    [load |-> TRUE, vaddr |-> Start + 2, memsz |-> 2, filesz |-> 1]>>
  \o [i \in 1 .. others |-> [load |-> FALSE, vaddr |-> 0, memsz |-> 0, filesz |-> 0]]

(* Programs that lie where the kernel is or in the free part of the        *)
(* identity map: the page before kernel and heap end, the frames that are  *)
(* handed out first, the last pages; alone or with a segment behind.       *)
Low == {[load |-> TRUE, vaddr |-> at, memsz |-> n, filesz |-> 1] :
          at \in {2, 18, 20, 22, 24, 29, 31}, n \in {1, 3, 5, 9}}

LowPrograms == {<<s>> : s \in Low}
  \cup {<<s, [load |-> TRUE, vaddr |-> at, memsz |-> 4, filesz |-> 2]>> : s \in Low, at \in {Start, Start + 3}}
  \cup {<<s, t>> : s, t \in Low}

MCPrograms == OneOrTwo(0 .. 5) \cup {CodeAndData(1), CodeAndData(2)} \cup LowPrograms
=============================================================================
