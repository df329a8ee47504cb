# A verification project for sojebos

sojebos is a small 32-bit kernel for the PC: it boots with GRUB, reads a FAT32
disk through the ATA ports, talks IPv4 through an RTL8139 card and gives the
user a shell. It has **one thread, no interrupts and no scheduler**: every
command of the shell runs to its end (the loop at `src/src/kernel/shell/shell.c:20`).
What runs beside it are devices, other hosts, the user and the power supply.
What is hard about it is therefore

* long sequences of legal calls on state that lives for ever: the heap, the
  directory tree, the ARP cache, the screen, the line buffer;
* power losses between two of the sector writes a file command consists of, and
  between a write and the emptying of the drive's cache;
* a card and a drive that change shared state (receive ring, status registers)
  between two instructions of their drivers, which poll without a limit;
* a network that loses, repeats and delays frames;
* running out of something in the middle of an operation: heap, clusters,
  directory slots, page frames, cache slots, ring space;
* arithmetic at the edges: cluster, sector and page boundaries, the root that is
  stored as 0, carries, sums in 32 bits.

The modules here model these parts from the C source, TLC checks them on small
instances, and TLAPS proves their safety for every value of their constants: of the
heap, the file system, paging and the program loader, the disk and network drivers,
the network stack, the console, the shell, the containers and the conversions. What is
left to TLC alone is named at the end.

## Inventory

| Component | Source (below `src/src`) | State | Operations | Uses | What makes it correct |
|---|---|---|---|---|---|
| kernel heap | `kernel/memory/memory.c` | one list of blocks (size, free, next) inside the arena | `kheap_init`, `kmalloc`, `krealloc`, `kfree` | | blocks tile the arena; reservations are disjoint and large enough; free space is merged; NULL only when full |
| FAT32 driver | `kernel/fs/fat32.c` | FAT and data area on the disk, `current_dir_cluster` | write, mkdir, rm, rmdir, cd, ls, cat, pwd, df, read | disk, heap | chains disjoint, ended and acyclic; no cluster lost; files read back; directories hide nothing; also after a power loss |
| 8.3 names | `format_filename`, `print_name` in `fat32.c` | none | convert both ways | | what `ls` prints finds the file again |
| VFS | `kernel/fs/vfs.c` | one mount | wrappers, `vfs_open`, `vfs_read`, `vfs_close` | FAT32, heap | a read returns what was written and nothing behind it |
| disk, ATA | `kernel/fs/disk.c`, `ata.c` | the medium | read and write a sector, flush | ports | a returned write is on the medium |
| vector | `kernel/libc/vector.c` | block, size, capacity | init, push, pop, get, clear, free | heap | elements kept across resizes, one block owned |
| hash table | `kernel/libc/hashtable.c` | buckets of chained entries | create, insert, lookup, remove | heap | chains equal the caller's map; lookup returns what was inserted (it does not: run `hash_lookup`) |
| strings | `kernel/libc/string.c`, `math.c` | none | `atoi`, `itoa`, `parse_ip`, byte loops | | text and number denote the same |
| paging | `kernel/paging/paging.c` | frame bitmap, page tables | allocate a frame, map user memory | | no frame used twice; a mapped range is mapped completely |
| loader | `kernel/process/*` | the user half of the address space | `exec_elf` | VFS, paging, heap | every segment is in memory when the program starts; errors leave nothing open |
| network stack | `kernel/net/*`, `apps/ping.c` | ARP cache, own address | ARP, IPv4, ICMP echo | RTL8139, heap | replies go to who asked; the cache holds the last address seen |
| RTL8139 | `kernel/drivers/net/rtl8139.c`, `kernel/drivers/pci.c` | receive ring offset, transmit descriptor | send, poll | ports, the card | frames are taken in order, once, in the end; sends return, and not before the frame is out |
| console, keyboard | `kernel/drivers/console.c` | video memory, cursor, shift flag, line buffer | print, clear, edit a line | ports | the screen is the end of everything printed; the user sees the line the program gets |
| shell | `kernel/shell/shell.c`, `apps/*.c` | vector of commands | register, split, dispatch | all of them | the first command of that name runs with its arguments |
| demo programs | `apps/calc.c`, `hello.c`, `clear.c`, `test.c` | none | a calculator, printing | console, vector | the value of the line is printed |
| boot, GDT, TSS | `entry.S`, `kernel/gdt/*` | processor tables | set-up | | run once |

The interactions are plain calls downwards: shell → VFS → FAT32 → disk → ATA → drive,
shell → loader → paging and VFS, ping → ICMP → IPv4 → ARP → Ethernet → RTL8139 → card,
rtl8139_poll → Ethernet → the protocols, and everything that needs memory → heap. `PROJECT.json` lists the same
components with what is modelled of each, and the hazards of the code, each at
its line, with the properties that watch it.

## Plan

1. *(done)* `Allocator` (what a heap promises), `Heap` (the code) and the proof
   that it is sound for all sizes and implements `Allocator`, in `MemoryProofs`.
2. *(done)* `Fat32` with power losses, `FatNames` for its two name conversions.
3. *(done)* `Vector` and `HashTable`, on an allocator that may fail at any call,
   which is what `Heap` shows it to be.
4. *(done)* `Paging` and `Loader`: frames, page tables and the user half of the
   address space, composed, with frames running out half-way.
5. *(done)* `NetStack` over a network that loses, repeats and reorders
   frames, `Checksum`, and `Rtl8139` with its card as an implementation of
   `FrameQueue`.
6. *(done)* `Console`, `Shell`, `Numerals` and `Conversions`: line editing against a
   reference page, the split into arguments, dispatch by the command table, numbers
   and text.
7. *(done)* `Ata`: driver and drive side by side, with the drive's write cache, as
   the ground under the durable sector writes of `Fat32`.
8. *(done)* Proofs for every value of the constants: `LoaderProofs` (paging and
   loader), `Rtl8139Proofs` (safety, and that the ring is a queue), `AtaProofs`,
   `NetStackProofs` (with the checksum), `ConsoleProofs` (with the shell's lines, the
   numerals and the 8.3 names), `MemoryProofs` (heap, vector and hash table), on the lemmas of
   `Arithmetic`.
9. *(done)* `Fat32Proofs`: one owner for each cluster, no leak, no hidden entry,
   files that read back and paths that lead back, for every disk and any number of
   power losses, from an invariant about what the entries say of the FAT.

Every module takes its sizes as CONSTANTS with a named assumption; no module
that has theorems uses a RECURSIVE operator (walks along the FAT are recursive
functions bounded by the number of clusters), nor the bit operations of the
`Bitwise` module, which only `Conversions` needs.

## Modules and how they correspond to the code

**`Allocator.tla`** is the abstract specification of the heap: a function from
pointers to usable bytes, changed by reserving vacant bytes, releasing,
growing over vacant bytes, and moving to a disjoint, large enough place.

**`Heap.tla`** is `memory.c`. The list from `free_list_head` is the sequence
`blocks`, in list order; an address is an offset from the heap's start. `Take`,
`PutBack`, `GrowInPlace` are the bodies of `kmalloc`, `kfree` and the in-place
branch of `krealloc`, `Relocate` is its tail. Each call is one action: there is
nobody to interleave with. `live` is not in the code: it records what callers
hold and what they last asked for. Callers pass only pointers they hold, or
NULL. `ALIGN` keeps its wrap-around; `HeapAssumption` says that callers stay
clear of it.

**`Fat32.tla`** is `fat32.c`, the FAT32 wrappers of `vfs.c` and the file
commands of `apps/coreutils.c`. The unit of data is a *cell* of 32 bytes: a
directory entry or as much file text, so that old text read as entries, a hazard
of reused clusters, can be expressed. `op` is the running command with its
program counter and locals; **each `disk_write` is one step**, and the reads
between two writes belong to the later one, since nothing else can run between
them. Commands that only read (`ls`, `cat`, `read_file`, `vfs_read`, `pwd`, `df`)
are operators on the state, evaluated in every state by the invariants.
A power loss may come between any two steps (`Crash`): it forgets `op` and
`cwd`, and nothing of the disk, because `ata_write_sector` issues a cache flush
and waits for it before it returns; `Ata.tla` says for which drives this is so. A
sector is written entirely or not at all.

Four variables record what the user may rely on and are read by no action of
the code: `written` (what was recorded where), `torn` (entries whose removal a
power loss interrupted: their chain is partly free), `lost` (clusters reserved
by a command that gave up or was interrupted), and `poisoned`, which becomes true
when something is allocated while a torn entry remains. From then on two entries
may legitimately claim one cluster: the driver has no `fsck`. The safety
properties are stated up to that point; `Acyclic` and `CommandsReturn` hold
beyond it.

The user's side: names of files and directories are disjoint sets, and `rm` and
`rmdir` are not given `.` or `..` (Known divergences says what they do with them).
The driver itself would allow `rm` of a directory, which frees its first chain and
leaves what it held reserved.

**`FatNames.tla`** is the pair `format_filename` and `print_name`, character by
character, over every name that can be typed up to a bound.

**`Vector.tla`** and **`HashTable.tla`** are `vector.c` and `hashtable.c`. Every
`kmalloc` may fail. `Vector` keeps the blocks it owns as part of the state, so
that a leak, a double free or a store behind a block shows; `items` is the list
the caller has in mind, as `map` is for the hash table. The DJB2 hash is an
arbitrary function of the key. An entry whose key `strdup` could not copy has the key
NULL, and `strcmp`, which does not test for it, reads the text at address 0: `TextAt`
takes it for the text `AtZero`, so that insert and remove find such an entry when they
are asked for that text. `hash_table_lookup` is the whole function with its guard
`!table || key`, which turns every text away (run `hash_lookup`); `ChainsHoldMap`, which
is about what insert and remove build, therefore speaks of the entries themselves and
not of a lookup.

**`Ata.tla`** is `ata.c` with the drive. The driver's steps are its port accesses
with the loops before them (`Select`, `SendCommand`, `Fetch`, `Offer`, `SendFlush`,
`WriteReturns`; `Wait` is a turn of a loop that goes on); the drive (external)
works between them, writes to its cache, empties it when it likes or when told
to. `takes`, which no step changes, says whether the drive takes a flush that is sent
while BSY is set, and executes it later, or ignores it; both kinds exist.

**`Paging.tla`** is `paging.c`. Page tables are frames of physical memory whose words
are entries, and the kernel's stores (`Stores`) go through the translation in
force, so that clearing a frame at "its" address is right only where the identity
map makes it so. `MapUserPage` is one turn of `paging_map_user_memory`.
**`Loader.tla`** composes it with `exec_elf`: `exec_elf` and `fat32_file_lookup` are
`vfs_open`, `CheckHeader` its checks, `MapNext` one page, `Fill` the `memset` and the
`vfs_read` of a segment; the stack is a last segment without contents.
`PlacesRead` and `HeadersRead` say which headers the loop meets, given that
`elf_header_t` is two bytes longer than the header in the file; a header it misses
is one that loads nothing. `Fits` says when a program has frames for all it needs: one
for each page of each segment, since a page that two segments share is mapped twice,
and one for each table, all below the end of the identity map.
`exec_elf` does not check `p_vaddr`, and programs may lie anywhere below the stack,
on the identity map too. `MapUserPage` then gives a page of the map (`Asked`) another frame.
Two things end the model, in the state "lost", because the kernel would go on without memory
it runs in: a page that holds the kernel, its heap or its static tables is given away
(`MapNext`), or, for want of a frame, a page of the identity map stays as it is and is cleared
and read over in place, whatever stands in that frame by then (`InPlace`, `Overwrite`).
`Behind` says of a program that it lies behind the identity map.

**`FrameQueue.tla`** is what reception promises: an unbounded queue, with `Progress`.
**`Rtl8139.tla`** is `rtl8139.c` beside the card (external), in bytes of the ring.
`rtl8139_poll` is three steps (`PollHeader`, `HandlePacket`, `PollAdvance`), since the
card receives between them; a handler that answers goes through `StartSend` and
`SendReturns`. Old bytes of the ring may look like any header (`HeaderAt`). `mem` is the
card's memory as the sequence of frames not yet given back; a frame that another is
written over becomes garbage (`Spoilt`).

**`NetStack.tla`** is `ethernet.c`, `arp.c`, `ipv4.c`, `icmp.c` and `ping.c`. Each frame is
handled in one step: no handler polls. A frame is a record of what the handlers
look at. `Emit`, `Left` and `Lose` are the network, `Host*` the other hosts
(external). `heard` is a reference: the card in the last ARP packet of a host.
**`Checksum.tla`** is `net_checksum`, byte by byte, with bytes of fewer values.

**`Console.tla`** is `console.c` without formatting: `paper`, `pos` and `top` are the
reference, a page that only grows. **`Shell.tla`** is `shell.c`: `input` is the buffer
with what earlier lines left in it, `ReadCommand` fills it, `Split` is one turn of the
tokenizer, `Run` the dispatch. **`Numerals.tla`** has `atoi`, `itoa`, `%d` of
`console_printf` and the calculator as operators, with ints of fewer values, and
**`Conversions.tla`** adds `parse_ip`. Where C leaves the result open (`num = -num` for
the smallest int), an operator gives the set of outcomes that builds of the code have.

`MC*.tla` give the constants their values. `MCLibrary` puts the seven sequential parts
(`Vector`, `HashTable`, `FatNames`, `Checksum`, `Conversions`, `Shell`, `Console`) under one model:
they share no state and never run at the same time, so `part` picks one at the start
and only its actions are enabled. Their initial and next-state predicates therefore
carry the part's name (`VectorInit`, `VectorNext`, ...).

## Runs

| Run | Module, cfg | What it shows |
|---|---|---|
| `heap` | MCHeap | any sequence of calls keeps blocks tiled, merged and backed, fails only when full, and implements `Allocator` |
| `fat32_crash` | MCFat32, MCFat32Crash | up to 4 commands and 2 power losses: chains disjoint, ended and acyclic, nothing leaks but what is in `lost`, files read back, directories hide nothing, every command returns |
| `fat32_commands` | MCFat32, MCFat32Commands | up to 6 commands without losses on one-sector clusters (as on the image of the Makefile), with nested directories, a full disk and full directories: files read back, `pwd` leads back |
| `loader` | MCLoader | frames private to the program, kernel mapped where the program does not lie on it, what lies behind it and fits is loaded and clean, nothing left open, also when frames run out |
| `rtl8139` | MCRtl8139 | the ring implements `FrameQueue`, with progress unless a send hangs; no frame refused while there is room; the card stays inside its block; a frame's buffer is kept until it is out |
| `net` | MCNetStack | replies answer requests; only pinged addresses are shown; the cache holds each host once, with the card heard last |
| `net_ping` | MCNetStack, MCNetStackPing | with fewer slots than hosts, and a host that moves: who keeps pinging gets an answer, unless the cache shuts the host out |
| `ata` | MCAta | reads give what was written last at that address, and calls return; with a drive that takes a flush while busy, a returned write survives a power loss |
| `library` | MCLibrary | vector: elements kept in bounds, one block, failed resizes included; hash table: chains equal the map in shared buckets with failed allocations; names: round trip, 8.3 names kept, dots reserved; checksum: sealed packets verify, the sum is that of RFC 1071; conversions: numbers, addresses and the calculator's lines read as they should; shell: arguments are the words of the line, its first word decides what runs; console: the screen is a window on what was printed, the user sees the line the program gets |
| `fat32_mkdir_spins` | MCFat32, MCFat32Mkdir | *violation*: mkdir finds "an empty slot in the parent directory" (`fat32.c:571`), but with the first cluster of the directory full the loop scans that cluster for ever |
| `rtl8139_wait` | MCRtl8139, MCRtl8139Wait | *violation*: "Wait for TOK (Transmit OK)" (`rtl8139.c:72`), but the loop waits for bit descriptor + 2; the second send never returns |
| `hash_lookup` | MCLibrary, MCLibraryLookup | *violation*: a lookup of the key just inserted "Returns 1" (`hashtable.c:7`), but its guard (line 76) turns every key away |

Deadlock is checked in every run but `rtl8139` and `rtl8139_wait`, in which the system
really may stop: that is what `rtl8139_wait` shows.

### Known divergences

Other places where the code does not do what the repository says of it, met while
modelling. No run is about them; the models leave them out or the properties except
them, as the last column says.

| Place | Statement of the repository | What happens | In the models |
|---|---|---|---|
| `fat32.c:684` | rmdir checks that the directory is empty | `..` below the root stores cluster 0, which counts as empty; `rmdir .` frees the cluster, but parent and current directory keep it, under "Directory deleted successfully." | `RmdirNames` has proper names only |
| `fat32.c:985` | "Bounds check to avoid hunting past file limits" | `offset + size` wraps in 32 bits and passes | `vfs_read` wraps at `SizeMod`, which no read of the runs reaches; `WhatIsWrittenIsRead` has the hypothesis that none does |
| `fat32.c:846` | "extract name (up to 8 chars)" | only the stem is printed: the path of a directory with an extension does not lead back to it | modelled; the directories of the runs have no extension, and `PwdIsRight` has the hypothesis that none has |
| `coreutils.c:28` | "File written successfully!" | printed also when disk or directory was full, or an older file of that name shadows the new one | modelled: `lost` accounts for the clusters, `written` says what is where |
| `coreutils.c:40` | "File deleted successfully!" | an older file of the same name remains | modelled: `rm` removes the first entry |
| `fat32.c:304` | "No free space/cluster found" | the last FAT sector has entries behind the last cluster, and they are taken | one FAT entry per cluster |
| `ata.c:55` | "Flush the cache to ensure the physical disk updates" | the flush is sent while the drive is busy and may be ignored | `DurableOnReturn` speaks of drives that take it |
| `paging.c:164` | "Copy segment payload from file into virtual memory" (`process.c:47`) | a page shared with the next segment gets a new, empty frame | modelled; `SeparatePages` in `LoadsWhatFits` |
| `paging.c:161` | "Clear out any junk data left behind in the physical frame" | frames above 16 MB are cleared at another page's address, or the store faults | modelled; `Fits` in `LoadsWhatFits` |
| `paging.c:155` | "we log or loop halt if allocation fails" | the loop goes on, and `exec_elf` faults | modelled; `Fits` |
| `elf.h:28` | "number of program headers" | `e_ehsize` is two bytes too long; of three headers only the first is read | modelled; the header counts in `LoadsWhatFits` |
| `rtl8139.c:9` | "Padding for wrap-around" | two bytes short for the longest frame (1518 bytes from offset 8188 end at 9710, and 9708 were asked for); the rounding of `kmalloc` to 9712 hides it | modelled; `StaysInBlock` is about the rounded block |
| `arp.c:31` | "save the sender's info in our cache" | not when the cache is full | modelled; `ShutOut` in `PingAnswered` |
| `ipv4.c:49` | "we check in software for safety" | no checksum is computed on reception | frames arrive undamaged |
| `icmp.c:28` | "Received reply from %x: icmp_seq=%d" | `console_printf` does not know `%x`, which takes no argument, so the address is printed as the sequence number | formats are not modelled |
| `ping.c:15` | "PINGing %s..." | `parse_ip` has cut the address at its first dot | texts are not modelled |
| `string.c:123` | "null-terminating the result" | not for a source of n characters or more | its only caller passes fewer |
| `vector.h:19` | "automatically resizes if full" | a capacity of 0, after a failed `vector_init` or a `vector_free`, doubles to 0 | `vector_push_back` needs `alive` |
| `hashtable.c:52` | "check if key already exists to update it" | an entry without a key, left by a failed `strdup`, reads as the text at address 0: inserting or removing that text updates or removes it | modelled; `ChainsHoldMap` excepts that one text (`AtZero`) |
| `process.c:39` | "Allocate physical pages and map them to ph.p_vaddr" | `p_vaddr` is not checked: a program that asks for pages below 16 MB takes them from the kernel's identity map | modelled up to "lost"; `KernelStaysMapped` excepts the pages asked for |

### Bounds, and why they are enough

* **Heap**: 96 bytes with the real header (12) and alignment (8), requests of 0,
  1, 9, 24 and 40 bytes: up to eight blocks, so that every pattern of free and
  used neighbours around a freed, split or grown block occurs, and the heap runs
  full. The state space is finite without further bounds. The theorems remove the
  bound altogether.
* **FAT32 with power losses**: 4 clusters of 2 sectors of 2 cells. A file of 5
  cells needs two clusters and ends inside a sector, one of 0 needs
  none; two files fill the disk; the root runs full. Two losses let a
  second one interrupt the repair of what the first left behind. Four commands
  are enough for write, remove (torn), remove again, write.
* **FAT32 without losses**: 5 clusters of one sector with 3 cells: one slot
  besides the dots in each directory, three levels of directories, and files of 0
  and of two clusters, over 6 commands.
* The disks they start from: freshly formatted; with a file under a long name
  that `mcopy` put there; with a root of two clusters whose first is full, which
  only a host can make, since the driver never grows a directory.
* **Names**: a stem of 3 and an extension of 2 characters, names of up to 7, so
  that every cut (stem too long, extension too long, several dots, a leading dot)
  happens; two letters, one in both cases.
* **Vector**: up to 5 elements from capacities 1, 2 and the default 4 (for 0).
  **Hash table**: four keys, three of which share a bucket, one of them the text at
  address 0, two values, at most one entry without a key.
* **ATA**: address registers of one bit, 16 sectors of which two are used whose
  addresses differ in the third register only, two values, one power loss,
  drives of both kinds.
* **Loader**: pages of 2 words, 8 static tables, 18 frames of which 16 are identity
  mapped, so that programs that fit, that need frames behind the identity map and
  that find none all occur; every pair of segments up to 5 words at five offsets,
  that is sharing a page, touching, or apart; what a linker makes of code and
  data with one or two headers that load nothing; and programs on the identity map: on
  the kernel, across the end of its heap, on the frames that are handed out first, on
  the last pages of the map and over its end, alone, in pairs or with a segment behind.
* **RTL8139**: a ring of 64 bytes (the real one's remainder modulo 8) and frames of 10 and
  22 bytes (`Mtu` + 18, as the longest on the wire), so that every offset, the
  wrap-around, the full ring and a frame that runs past the end, 2 bytes beyond what
  was asked of `kmalloc`, occur; at most three frames in the ring, which is all it
  holds.
* **Network**: two hosts and three cards, one move, two cache slots and two frames
  under way for safety; one slot, which two hosts compete for, and one frame under way
  for liveness. The full cache occurs in the second run only; that it keeps
  `CacheIsLastHeard` is `CacheRight`, for every number of hosts and slots. **Checksum**: packets of up to 7 bytes of 4 values of a byte of 16,
  so that carries carry again. **Console**: 2 columns, 3 rows, 5 rows of paper, lines
  of up to 3 characters, which wrap. **Shell**: a buffer of 7 and two arguments, so that
  lines fill it and words are left over. **Conversions**: every int of 8 bits, addresses
  of four 4-bit numbers.

`MaxCommands`, `MaxCrashes`, `MaxItems`, `MaxUnnamed`, `MaxTyped`, `MaxLosses`, `QueueBound`,
`WireBound`, `MoveBound`, `MaxRows` and `MaxBytes` are the only bounds that are
not in the code; each is a guard on the environment's side, never
on a step of a command that has begun (`MaxRows` ends the paper, on which nothing in
the code depends; `console_clear` starts a new one).

### Fairness

`Fat32!Spec` has weak fairness on `Step`, the next disk write of the running
command: the processor goes on executing the command it is in, and nothing
preempts it. There is no fairness on the user's commands nor on power losses.
Under it `CommandsReturn` holds (the losses are finitely many by
the bound; a loss ends the command anyway), and `EveryCommandReturns` fails only
through the loop of mkdir, which *does* take steps for ever.

`Ata!FairSpec` has weak fairness on the driver, whose loops run on, and on the drive,
which completes what it has begun. `Rtl8139!FairSpec` has it on each step of the
driver, which the shell and ping call again and again, and on the transmission of
what was handed to the card; none on the arrival of frames nor on the user's pings.
`InOrderEventually` asks for progress unless the kernel hangs in a send (`Hung`), and
`SendsReturn` fails because the bit waited for is never set, not because
anybody stops. `NetStack!FairSpec` needs strong fairness: of the frames of one kind
that are sent to or by a host again and again some arrive, and the user goes on
pinging; a network that may lose everything answers nobody. A frame for a card that
is gone does not stay under way for ever. The kernel itself has
no retry: the retry is the user's, as the comment at `ipv4.c:117` says.

The proof modules (`*Proofs.tla` and `Arithmetic.tla`, lemmas about minima, quotients,
remainders and rows of cells laid end to end) add no definition that a run depends on.

## What is proved

Each theorem holds for every value of the constants that satisfies the named
assumption of the module, and for behaviours of any length: bounds such as
`QueueBound`, `MaxLosses` or `MaxItems` are constants too. TLC evaluates the assumptions on every
run, and has checked each inductive invariant on the instance of the run before it
was proved (the chain of `Rtl8139Proofs` with the distances computed from the
addresses).

| Module | Theorem | Statement |
|---|---|---|
| `MemoryProofs` | `TypeCorrect` | `Spec => []TypeOK`: no size field ever goes below zero |
| | `HeapTiled` | `Spec => []Tiled` |
| | `HeapCoalesced` | `Spec => []Coalesced` |
| | `HeapBacked` | `Spec => []LiveBacked` |
| | `OutOfMemoryMeansFull` | `Spec => []NullMeansFull` |
| | `HeapKeepsPromise` | `Spec => KeepsPromise`: every call is a step of `Allocator` on the reservations the list encodes, or changes none |
| `Fat32Proofs` | `VolumeIsTyped`, `ChainsEnd` | `Spec => []TypeOK`, `Spec => []Acyclic` |
| | `NothingIsShared` | `Spec => []NoSharing` |
| | `NothingLeaks` | `Spec => []NoLeak` |
| | `NothingIsHidden` | `Spec => []NothingHidden` |
| | `WhatIsWrittenIsRead` | `NoWrap` implies `Spec => []ReadsBack` |
| | `PwdIsRight` | `NoExtensions` implies `Spec => []PwdLeadsBack` |
| `LoaderProofs` | `FramesArePrivate` | `Spec => []UserFramesPrivate` |
| | `KernelIsMapped` | `Spec => []KernelStaysMapped` |
| | `ProgramsAreLoaded` | `Spec => []LoadsWhatFits` |
| | `NothingIsLeft` | `Spec => []NothingLeftOpen` |
| `Rtl8139Proofs` | `RingIsQueue` | `Spec => InOrder`: card and driver implement `FrameQueue` (the safety half of `InOrderEventually`) |
| | `LossesMeanFull` | `Spec => []LossOnlyWhenFull` |
| | `RingStaysInBlock` | `Spec => []StaysInBlock` |
| | `SendHoldsBuffer` | `Spec => []BufferHeldUntilSent` |
| `AtaProofs` | `ReadsAreRight` | `Spec => []ReadsLastWritten` |
| | `WritesAreDurable` | `Spec => []DurableOnReturn` |
| `NetStackProofs` | `CacheRight` | `Spec => []CacheIsLastHeard` |
| | `AnswersRight` | `Spec => []AnswersMatchRequests` |
| | `SealedPacketsAreAccepted` | `PacketSpec => []ReceiverAccepts` |
| `ConsoleProofs` | `ScreenRight` | `ConsoleSpec => []ScreenIsWindow` |
| | `LineRight` | `ConsoleSpec => []SeesTheLine` |
| | `TypedCommandsRun` | `ShellSpec => []RunsWhatWasTyped` |
| | `IntsAreText`, `CalculatorIsRight` | `JobSpec => []IntIsText`, `JobSpec => []CalculatorRight` |
| | `WhatIsListedIsFound`, `DotNamesAreReserved` | `NamesSpec => []ListedNameFindsFile`, `NamesSpec => []DotsAreReserved` |
| `MemoryProofs` | `VectorKeepsItems`, `VectorOwnsOneBlock` | `VectorSpec => []KeepsItems`, `VectorSpec => []OneBlock` |
| | `ChainsAreRight` | `HashSpec => []ChainsHoldMap` |

### The heap

From `HeapAssumption`: the heap holds at least one header, sizes fit in `size_t`, and no
request comes within a header and three alignments of the top of `size_t`.
The argument has four layers.

1. *Sequences*: what `InsertAt` and `RemoveAt` do element by element; from it what
   a split, a merge and a changed flag do to the list.
2. *Layout*: `Layout(n, A, Z)` says of the two functions "where block i begins"
   and "where it ends" that they are chained, ascending and cover the heap.
   Chaining alone would be inductive, but that addresses ascend, so that blocks
   are distinct and a pointer names one block, and that every byte lies in some
   block, would need an induction over the list at each use. Carried as
   conjuncts, they are re-established by a cut and by a join (`CutLayout`,
   `JoinLayout`) with arithmetic only.
3. *Reservations*: `Reserved(bs, a, m)` says that a used block of m bytes begins
   at a. `TakeFacts`, `PutBackFacts` and `GrowFacts` say what each body of code does
   to the layout, to the reservations and to pairs of free neighbours.
4. *Calls*: the inductive invariant is
   `IInv == Well(blocks) /\ NoTwoFree(blocks) /\ Matches(blocks, live)`: a sound
   layout, no two free neighbours, and reservations that are exactly the callers'
   pointers. The parts need each other: a call is safe only because the pointer it
   is given is that of a used block (`Matches`), the list stays coalesced through
   `krealloc` because the block after its remainder is looked at, and
   "NULL means full" needs coalescing: a vacant stretch that avoids every used
   block then lies inside one free block (`VacantFits`), which first fit would
   have found.

The refinement comes last. `HeldOf(bs)` is the abstract state that a
block list encodes; `HeldWith` and `HeldWithout` turn what the third layer says of
reservations into the abstract allocator's changes, and `ReservedVacant` shows that
a block of a sound list avoids all the others. kmalloc is then `Reserve`, kfree
`Release`, the in-place branch of krealloc `Grow` and its tail `Move`; for the
last, the doubly aligned size covers the old block, so the copy fits.

### The file system

`Fat32Assumption` fixes the geometry (clusters numbered from 2, a sector of at least two
entries so that `.` and `..` share one) and says that the names of files, of
directories and the dot names differ. `ImagesAssumption` says of the disks that
`mkfs.vfat` and `mcopy` leave behind what a checker of FAT32 volumes asks for, and one thing
more, that a subdirectory made by the host has a single cluster: chains end and are
disjoint (`Sound`), every directory is entered in its parent and its `..` leads there,
directories hold no file text and nothing behind their first 0x00 (`Tidy`), one
subdirectory of a name and `..` second (`Neat`), and the files put there have their text
(`Filed`). TLC evaluates both for the three disks of the runs.

The invariant grows in layers, each of which needs the ones below.

1. `FatInv`: *what the FAT says*. There is a rank on clusters that descends along every
   link (`Linked`), so that chains end: `ChainUnfold` says that the bound in `Chains`
   cuts none short. A link is set only to a cluster that was free, or to the end
   (`Building` says where the running write is in its chain), so a rank always exists,
   after any power loss too: that is `Acyclic`.
2. `VolumeInv`: *what the entries say of the FAT*. There is a set D of directories for
   which the volume is `Sound`, but for the entries being removed or torn and for the
   clusters that the running command has reserved and not entered yet, or has taken out
   of its victim and not freed (`Doom`, `Flying`, together in `Good`). D is not computed by a
   walk down the tree but chosen: a step gives a D for the next state (`Carried`),
   with one directory more after mkdir's last write and one less after the first of
   rmdir. Lemmas say what the kinds of write do to a sound volume: a cluster is reserved, entered,
   freed, an entry is taken out, data are written. `Victim` remembers that what
   rmdir removes was empty; `Initialised`, that what mkdir will enter has its dots. It holds
   until `poisoned`, and a second interrupted removal, or its repetition, keeps it.
   `DirsRecursion` then shows that D is `Dirs`, the tree that a user can reach:
   whatever is in D has a parent of smaller rank. `NoSharing` and `NoLeak` follow.
3. `TidyInv`: *what directories hold*. Every directory in D is `Tidy`. A step leaves a
   directory alone, or writes an entry in its first free slot, in which the zeros
   behind it stay, or replaces one by 0xE5, or makes it (`DirStep`). A new directory
   is tidy because mkdir has written all of its sectors; the slot of a file is in the
   directory since no data is written outside of the running file's chain. `NothingHidden`
   follows: the two searches, which stop in different places, stop at the same entry.
4. `FilesInv`: *what files hold*. Every recorded file is where it was recorded, with its
   text, or is being removed; and the running write has stored its text up to the sector it is
   at. `ReadsBack` needs more than this: that the copies of
   `fat32_read_absolute`, sector after sector with the first one cut, put together what a
   single `SubSeq` gives. This is an induction over the sectors left, done with the
   least counterexample, since the induction theorems of the library cannot be used.
5. `PathInv`: *what names lead to*. Every directory in D is tidy and `Neat`: no two of its
   subdirectories have the same name, and its second cell is a `..` that does not lead to
   itself. mkdir keeps this because it looks for the name before it begins, nothing stands
   behind the 0x00 where the search ends (`Tidy`), and nothing is entered before its last
   write (`Unused`).

   `PwdLeadsBack` compares three ways through the tree. Along the second cells, which the
   climb of `fat32_pwd` follows: `Climbing` says what is on its stack. Along the entries,
   where each directory but the root has exactly one (`HomeOnce`), in the directory its `..`
   leads to (`Parents`); `OnlyHome` says that the search for a cluster number, there or in
   the root, where a stored 0 stands for the root itself, stops nowhere else. Along the names, which
   cd follows: `FoundByName`. So the names found on the way up lead down again (`PwdResolves`), if
   the climb ended below the root, which it does for exactly the directories within
   `PwdDepth` levels (`WithinRooted`, `RootedWithin`). If it did not, the first name is looked for
   in the root, where that cluster has no entry (`PwdAstray`).

The proof corrected three statements. `ReadsBack` said that every recorded file is in
the tree, or in a torn directory; `read_absolute` was modelled with one copy where the code
has one for each sector; and `ImagesAssumption` did not say that a host leaves
directories tidy. The hypothesis `NoWrap` of `WhatIsWrittenIsRead` is what `fat32.c:985`
takes for granted, `NoExtensions` of `PwdIsRight` what `fat32.c:846` does (Known divergences).

*Names* (in `ConsoleProofs`, with the other conversions). A formatted name is a stem and an extension, each padded with spaces (`Pad`), and
what `print_name` copies of it is formatted to the same fields, whose letters are upper case
already. The extension field must have two characters: with one, the name `..`
would have no room for its second dot.

### Paging and the loader

`PagingAssumption` and `LoaderAssumption` say that the kernel ends inside the identity
map and the identity map inside of physical memory, which is no larger than the
address space; that a program's segments lie below the stack, wherever else; that a program header has a multiple of 4
bytes and is no longer than a section header; and that junk, zero, page table
entries and file contents can be told apart.

There are two invariants, since a program that lies on the identity map breaks what the
stronger one says of it. For programs behind the map (`Behind`), which nothing in
`exec_elf` asks for, the invariant `IInv` has two parts; `Invariance` says that a
behaviour satisfies it unless its program is `Elsewhere`, and `ProgramsAreLoaded` rests on it. `Good(Memory)` is about memory alone: the used frames
are the first n (`Shape`), the static tables hold the identity map (`IdentityMap`), other
tables and the pages of a program have frames of their own taken after the
start (`OwnTables`, `OwnFrames`), and a frame that was never taken was never written
(`Unwritten`). The last is what makes a table that is not cleared, because its frame lies
behind the identity map, map nothing. With it every store of the kernel lands in the
frame it is meant for, or faults: the tables it goes through are never what it writes. The
other part is about the loop over the headers: what is left to do (`Control`, `Walk`), no
more frames used than pages seen and tables made (`Counted`), every page seen mapped
(`AllMapped`) and free of junk (`Clean`), and what was read still in place
(`Filled`). `Counted` is what makes `Fits` enough. An earlier `Fits`, which counted a page
shared by several segments once, held on the small instance only, where no page is
shared by three; the proof attempt showed it, and `Fits` now counts a frame for every
mapping.

For programs anywhere, `Safe` is what remains, and `Safety` proves it of every
behaviour, up to "lost". It gives `FramesArePrivate`, `KernelIsMapped` and
`NothingIsLeft`, which have no hypothesis about addresses. `Sane` says of
memory that the directory still names the kernel's own tables (`StaticDirs`), and that every
page that is translated has its entry of the identity map (`Kept`) or a frame of its own that
is no table (`OwnPages`). The kernel now writes through a map in which some pages are the
program's, and a new frame whose page was given away is not cleared: the zeros go to the
program's page. This spares the tables, since a store reaches either a frame that a program's
page has, or, through a page with its first entry, the frame just taken (`StoresAside`); any
other store in place is "lost". And it maps nothing by accident, since the frame that was
not cleared was never written (`Unwritten`), and junk is no entry.

### The receive ring and the send buffer

`Rtl8139Assumption`: the ring's size divides 65536 and is a multiple of 8, no frame is
longer than `Mtu` + 18 and each is shorter than the ring, and `Mtu` leaves the remainder 4
modulo 8, as 1500 does. The last is needed for `RingStaysInBlock` only: the padding is two
bytes short, and only the rounding of `kmalloc` to a multiple of 8 makes up for it.

The invariant `Chained` says that there are distances d[1] = 0 < d[2] < ... such that frame
i begins d[i] bytes behind the driver's offset, around the end of the ring, that
each distance is the one before plus the space of the frame between, and
that the card writes at the last of them, which is less than the ring's size. That the
distances ascend is carried along, as in the heap, since it would need an induction over
the frames at each use. It follows that a frame that fits touches no other
(`NoOverlap`), that the driver's next offset is the next frame's place (`NextPlace`,
`ChainShrinks`) and that CAPR, 16 less in 16 bits, gives back exactly that
(`PtrAfterIs`). `Looking` says that the frame the driver handles is the first, so that
handing it over is `HandOver` of the queue and giving it back a stutter. `Sending` says why
no send returns early: only the first descriptor's send can return at all, and
its bit is not set when it starts.

### The disk driver

`AtaAssumption` makes the registers wide enough for the addresses. Driver and drive take
turns: what the drive does follows from where the driver is (`InStep`); the registers
hold the address of the call (`Addressed`, from `RegistersHoldAddress`: quotients and remainders
put together again); what the drive would answer is what was written (`Agree`), except for
the sector being written; and on a drive that takes a flush while busy, only that sector
is cached (`Drained`).

### The network stack

`NetStackAssumption` keeps hosts, our address, the broadcast address and the empty slot
apart. Entries of the ARP cache are never removed, so the used slots come first (`Packed`),
and the loop that stops at the first slot that is unused or the sender's never makes a second
entry (`Once`); with that, entries are `Fresh`. For the echo protocol, every frame under way
was justified when it was sent (`FrameOK`), by sets that only grow, so that
repetition, loss and delay cannot matter.

For the checksum, folding carries (`Fold`) keeps the sum modulo 2^16 - 1 and ends below 2^16, so
it has a closed form (`Residue`), which is 0 only for the sum 0. The sum of a sealed packet is that
of the packet plus its complement: the words before and behind the checksum field are
added up separately.

### The console

`ConsoleAssumption`: the line buffer fits on the screen below a prompt, and printable cells,
newline and backspace differ. `Ahead`, nothing is printed at or behind the cursor, is what the two
properties lack to be inductive: the row that a scroll brings in is blank, and so is what a
backspace in the first column leaves alone. The rest is arithmetic about rows
(`NextLineFacts`, `NextLineOnPaper`) for every width.

### The shell and the numerals

For the shell, `Scanned` says where the tokenizer is in the line: the arguments so far are the first words
of what was typed, each ended by the 0 put over the space behind it, and the rest of the line is
untouched, with what earlier lines left only behind the 0 that ends it.

Digits are defined from below by `itoa` and from above by `atoi`. The numeral of n has the
quotients n, n / 10, ... as its values from the front (`Quotients`), so that
reading the digits one after the other gives n back; the smallest int has a
digit more than C can negate, and is the case that the definitions single out. What the calculator
reads is cut at the first operator behind the first character, and the numerals on both sides
have none but a sign in front.

### The containers

A living vector owns one block of `capacity` slots whose first `size` hold the items
(`VectorBlock`, `VectorItems`). In the hash table no bucket has a key twice (`Unique`), and the bucket
of a key has an entry for it exactly when it is bound, with the caller's value (`Agrees`);
entries without a key, left by a failed `strdup`, read as the text at address 0 and are
therefore in the way of that text only, which `Agrees` leaves out; that each key stands in
its own bucket (`AtHome`) makes the entry the only one in the table. What
changing, adding or unlinking an entry does to a bucket is stated for its key and for all the
others (`SameForOthers`).

## What is only model-checked

* The half of `TextIsNumber` about addresses: `parse_ip` shifts and masks with the
  `Bitwise` module, which no module with a theorem may reach. `IntIsText`, the other half, is
  proved.
* Liveness (`CommandsReturn`, `CallsReturn`, the progress in `InOrderEventually`,
  `PingAnswered`): fairness and ENABLED are outside what the prover handles.

## What is not modelled, and why

* Boot code, GDT and TSS: straight-line set-up that runs once. `enter_user_mode` and
  what a program does: nothing comes back, there is no system call.
* The PCI scan and the registers that `rtl8139_init` sets once, except buffer and wrap
  mode. What ports 0x37 and 0x3E answer when there is no card.
* A sector transfer that the drive reports as failed; the code does not look at the
  error bit, nor for DRQ before it reads. Faults of the card are left out likewise.
* `free_frame`, which nobody calls. What the kernel does once a program has taken
  memory that it uses itself: there the model of the loader ends ("lost"). The one program of
  the repository, `apps/sojeb/sojeb.elf`, is linked at 16 MB, behind the identity map; how
  is not in the repository (`linker.ld` is the kernel's). Segments that reach
  into the stack's pages or have more bytes in the file than in memory. Positions of the program header table that lie inside of a header are
  taken to show no PT_LOAD, as in `apps/sojeb/sojeb.elf`.
* Packets whose length fields disagree with the frame they came in, or that were
  damaged on the way.
* `strncpy`, formats other than `%d` (Known divergences).
* `strlower`, `strupper` and `math.c`, which have no state; `hello`, `clear` and
  `test`, which only print.
* The second copy of the FAT, which the driver neither reads nor writes.
* Texts of messages, columns, colours.
