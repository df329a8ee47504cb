------------------------------- MODULE Fat32 -------------------------------
(***************************************************************************)
(* The FAT32 driver of src/kernel/fs/fat32.c on a disk that keeps every    *)
(* sector written (Ata.tla says with which drives ata_write_sector flushes *)
(* before it returns), with power losses between any two sector writes.    *)
(*                                                                         *)
(* A cell is 32 bytes: one directory entry, or as much of a file.  A       *)
(* cluster is SectorsPerCluster sectors of EntriesPerSector cells, numbered *)
(* from 0.  Sizes and offsets are counted in cells.  A name is the pair    *)
(* <<stem, extension>> of what format_filename produces (FatNames.tla).    *)
(* Every command is a sequence of steps, one for each disk_write; the      *)
(* reads between two writes belong to the second.  The kernel runs one     *)
(* command at a time.                                                      *)
(***************************************************************************)
EXTENDS Integers, Sequences, FiniteSets, FiniteSetsExt, SequencesExt

CONSTANTS Clusters,           \* cluster numbers the FAT has entries for
          Root,               \* fs.root_cluster
          EntriesPerSector,   \* 512 / 32 in the code
          SectorsPerCluster,  \* fs.sectors_per_cluster
          Images,             \* disks mkfs.vfat and mcopy leave behind
          FileNames, Texts, Sizes,  \* what write and rm are called with
          DirNames,           \* what mkdir is called with
          RmdirNames,         \* what rmdir is called with (not "." nor "..")
          Paths,              \* what cd is called with
          PwdDepth,           \* the stack of fat32_pwd, 16 in the code
          MaxCommands,        \* bound on the commands that change something
          MaxCrashes,         \* bound on power losses
          Reads,              \* offsets and sizes vfs_read is called with
          SizeMod             \* 2^32, the range of uint32_t, in cells

FREE == 0
EOC == -1                     \* 0x0FFFFFFF

Dot == <<".", "">>
DotDot == <<"..", "">>
Names == FileNames \cup DirNames

ASSUME Fat32Assumption ==
  /\ Clusters \subseteq Nat \ {0, 1} /\ IsFiniteSet(Clusters) /\ Root \in Clusters
  /\ EntriesPerSector \in Nat \ {0, 1}      \* '.' and '..' share a sector
  /\ SectorsPerCluster \in Nat \ {0}
  /\ Sizes \subseteq Nat /\ PwdDepth \in Nat \ {0}
  /\ MaxCommands \in Nat /\ MaxCrashes \in Nat
  /\ Reads \subseteq Nat /\ SizeMod \in Nat \ {0}
  /\ FileNames \cap DirNames = {}           \* write and rm are for files
  /\ RmdirNames \subseteq Names /\ {Dot, DotDot} \cap Names = {}
  /\ \A p \in Paths : p.absolute \in BOOLEAN /\ p.parts \in Seq(Names \cup {Dot, DotDot})

VARIABLES fat,      \* the FAT: cluster -> FREE, EOC or the next cluster
          disk,     \* the data area: cluster -> its cells
          cwd,      \* current_dir_cluster
          op,       \* the running command: its program counter and locals
          commands, \* commands begun so far
          crashes,  \* power losses so far
          \* What the user may rely on; nothing in the code reads these.
          written,  \* where a file was recorded -> its text and size
          torn,     \* entries whose removal a power loss cut short
          lost,     \* clusters reserved by a command that did not complete
          poisoned  \* a cluster was allocated while torn entries remained

ghosts == <<written, torn, lost, poisoned>>
vars == <<fat, disk, cwd, op, commands, crashes, ghosts>>

CellsPerCluster == EntriesPerSector * SectorsPerCluster
CellIndex == 0 .. CellsPerCluster - 1
SectorIndex == 0 .. SectorsPerCluster - 1
SectorOf(k) == k \div EntriesPerSector

-----------------------------------------------------------------------------
(* Cells.  No reader looks past the first byte of an entry whose name      *)
(* begins with 0x00 (Zero) or 0xE5 (Gone), nor past the attribute of a     *)
(* long-name entry (Lfn).  A cell of file text read as an entry is in use, *)
(* under a name nobody asks for.                                           *)
Zero == [tag |-> "zero"]
Gone == [tag |-> "gone"]
Lfn == [tag |-> "lfn"]
Text(t, k) == [tag |-> "text", text |-> t, at |-> k]
Entry(n, a, c, z) == [tag |-> "entry", name |-> n, attr |-> a, first |-> c, size |-> z]

IsFree(x) == x.tag \in {"zero", "gone"}
Named(x, n) == x.tag = "entry" /\ x.name = n
IsDir(x) == x.tag = "entry" /\ x.attr = "dir"
IsDots(x) == x.tag = "entry" /\ x.name \in {Dot, DotDot}
Proper(x) == x.tag = "entry" /\ ~IsDots(x)

EntryCell(names, attr) ==
  [tag : {"entry"}, name : names, attr : {attr}, first : Clusters \cup {0}, size : Nat]

Cell == [tag : {"zero", "gone", "lfn"}] \cup [tag : {"text"}, text : Texts, at : Nat]
          \cup EntryCell(FileNames, "file") \cup EntryCell(DirNames \cup {Dot, DotDot}, "dir")

-----------------------------------------------------------------------------
(* Walks along the FAT.  Every loop of the driver follows                  *)
(* fat32_next_cluster while the cluster is valid; a chain longer than the  *)
(* FAT would be a loop that never ends.                                    *)
Valid(c) == c \in Clusters

Links == Clusters \cup {FREE, EOC}

(* The chain that begins at each cluster, in a FAT f.                      *)
Chains(f) ==
  LET from[n \in 0 .. Cardinality(Clusters)] ==
        IF n = 0 THEN [c \in Links |-> <<>>]
        ELSE [c \in Links |-> IF Valid(c) THEN <<c>> \o from[n - 1][f[c]] ELSE <<>>]
  IN from[Cardinality(Clusters)]

Chain(c) == Chains(fat)[c]

Own(f, c) == Range(Chains(f)[c])

ChainSet(c) == Own(fat, c)

(* The cells of a chain as <<cluster, cell>>, in the order they are read.  *)
Walk(chain) ==
  [k \in 1 .. Len(chain) * CellsPerCluster |->
     <<chain[1 + (k - 1) \div CellsPerCluster], (k - 1) % CellsPerCluster>>]

At(loc) == disk[loc[1]][loc[2]]

NoLoc == <<0, 0>>

(* The first cell of the walk that satisfies P, or NoLoc.                  *)
FirstWhere(w, P(_)) ==
  LET hits == {k \in DOMAIN w : P(k)} IN IF hits = {} THEN NoLoc ELSE w[Min(hits)]

(* fat32_find_file, and the search of delete_file and rmdir: a 0x00 entry  *)
(* ends the directory.                                                     *)
find_file(c, n) ==
  LET w == Walk(Chain(c))
      Hit(k) == Named(At(w[k]), n) /\ \A j \in 1 .. k - 1 : At(w[j]) # Zero
  IN FirstWhere(w, Hit)

(* The search of get_path_cluster: only directories match, and a 0x00      *)
(* entry ends its sector, not the directory.                               *)
find_dir(c, n) ==
  LET w == Walk(Chain(c))
      SameSector(j, k) == w[j][1] = w[k][1] /\ SectorOf(w[j][2]) = SectorOf(w[k][2])
      Hit(k) == /\ Named(At(w[k]), n) /\ IsDir(At(w[k]))
                /\ \A j \in 1 .. k - 1 : SameSector(j, k) => At(w[j]) # Zero
  IN FirstWhere(w, Hit)

free_slot(chain) == LET w    == Walk(chain)
                        Hit(k) == IsFree(At(w[k]))
                    IN FirstWhere(w, Hit)

RootAsStored(c) == c   \* mutant: a stored 0 is taken literally

RootIfZero(c) == IF c = 0 THEN Root ELSE c

NotFound == -2   \* 0xFFFFFFFF

(* fat32_get_path_cluster: resolve the components one by one.              *)
get_path_cluster(from, path) ==
  LET resolve[i \in 0 .. Len(path.parts)] ==
        IF i = 0 THEN IF path.absolute THEN Root ELSE from
        ELSE IF resolve[i - 1] = NotFound THEN NotFound
        ELSE LET loc == find_dir(resolve[i - 1], path.parts[i])
             IN IF loc = NoLoc THEN NotFound ELSE RootIfZero(At(loc).first)
  IN resolve[Len(path.parts)]

(* is_directory_empty: looks at every cell, past 0x00 entries too.         *)
is_directory_empty(c) ==
  \A cl \in ChainSet(c), k \in CellIndex :
    LET x == disk[cl][k] IN IsFree(x) \/ x = Lfn \/ IsDots(x)

FreeClusters == {c \in Clusters : fat[c] = FREE}

(* fat32_find_free_cluster: the lowest one; called when there is one.      *)
find_free_cluster == Min(FreeClusters)

fat32_show_usage == Cardinality(FreeClusters)

Needed(z) == (z + CellsPerCluster - 1) \div CellsPerCluster

-----------------------------------------------------------------------------
(* What a volume looks like, with FAT f, data d and directories D, while   *)
(* the removals of the entries X are unfinished and the clusters G are     *)
(* reserved by no entry.                                                   *)
CellAt(d, loc) == d[loc[1]][loc[2]]

IsDisk(d) == /\ DOMAIN d = Clusters
             /\ \A c \in Clusters : DOMAIN d[c] = CellIndex /\ \A k \in CellIndex : d[c][k] \in Cell

(* Following g within S comes to an end.                                   *)
Ranked(g, S) ==
  \E r \in [S -> 0 .. Cardinality(S) - 1] : \A c \in S : g[c] \in S => r[g[c]] < r[c]

Entries(f, d, D) == {loc \in (D \cup Own(f, Root)) \X CellIndex : Proper(CellAt(d, loc))}

(* A directory made by mkdir has one cluster; the root may have more.      *)
DirsSound(f, D, G) ==
  /\ Root \in D /\ D \subseteq Clusters /\ G \subseteq Clusters
  /\ \A c \in D \ {Root} : f[c] = EOC /\ c \notin Own(f, Root)
  /\ \A c \in D \cup Own(f, Root) : f[c] # FREE /\ c \notin G

EntrySound(f, D, G, e) ==
  /\ \A c \in Own(f, e.first) : f[c] # FREE /\ c \notin G \cup Own(f, Root)
  /\ Len(Chains(f)[e.first]) = IF e.attr = "file" THEN Needed(e.size) ELSE 1
  /\ e.attr = "dir" => e.first \in D \ {Root}

(* Every directory is entered in its parent, and its '..' leads there.     *)
TreeSound(f, d, D, X) ==
  \E up \in [D \ {Root} -> D] :
    /\ Ranked(up, D \ {Root})
    /\ \A c \in D \ {Root} :
         /\ \E loc \in Entries(f, d, D) \ X :
              IsDir(CellAt(d, loc)) /\ CellAt(d, loc).first = c /\ loc[1] \in Own(f, up[c])
         /\ \A k \in CellIndex : IsDots(d[c][k]) => RootIfZero(d[c][k].first) \in {c, up[c]}
    /\ \A c \in Own(f, Root), k \in CellIndex : ~IsDots(d[c][k])

(* Directories whose removal is unfinished; cd still enters them.          *)
TornDirs(d, X) == {CellAt(d, x).first : x \in {y \in X : IsDir(CellAt(d, y))}}

(* The first cluster of an unfinished removal is free.  A directory whose  *)
(* removal is unfinished can still be entered, and empty files written     *)
(* there.                                                                  *)
TornSound(f, d, D, loc) ==
  LET e == CellAt(d, loc)
      InTorn(x) == /\ Proper(x) => x.attr = "file" /\ x.first = 0
                   /\ IsDots(x) => \/ x.first = e.first
                                   \/ /\ RootIfZero(x.first) \in D
                                      /\ loc[1] \in Own(f, RootIfZero(x.first))
  IN /\ loc \in Entries(f, d, D)
     /\ Valid(e.first) /\ f[e.first] = FREE
     /\ e.attr = "dir" => \A k \in CellIndex : InTorn(d[e.first][k])

Sound(f, d, D, X, G) ==
  /\ DirsSound(f, D, G)
  /\ \A loc \in Entries(f, d, D) \ X : EntrySound(f, D, G, CellAt(d, loc))
  /\ \A a, b \in Entries(f, d, D) \ X :
       a # b => Own(f, CellAt(d, a).first) \cap Own(f, CellAt(d, b).first) = {}
  /\ TreeSound(f, d, D, X)
  /\ \A loc \in X : TornSound(f, d, D, loc)
  /\ \A c \in Clusters :
       f[c] # FREE <=> \/ c \in Own(f, Root) \cup G
                       \/ \E loc \in Entries(f, d, D) \ X : c \in Own(f, CellAt(d, loc).first)

(* A directory holds no file text, and nothing behind its first 0x00.      *)
Tidy(f, d, c) ==
  LET w == Walk(Chains(f)[c])
  IN \A k \in DOMAIN w :
       /\ CellAt(d, w[k]).tag # "text"
       /\ \A j \in 1 .. k - 1 : CellAt(d, w[j]) = Zero => CellAt(d, w[k]) = Zero

(* A directory has one subdirectory of a name, and below the root its      *)
(* second cell leads up.                                                   *)
Neat(f, d, c) ==
  /\ \A a, b \in Own(f, c) \X CellIndex :
       /\ IsDir(CellAt(d, a)) /\ IsDir(CellAt(d, b))
       /\ CellAt(d, a).name = CellAt(d, b).name
       => a = b
  /\ c # Root => Named(d[c][1], DotDot) /\ RootIfZero(d[c][1].first) # c

(* The chain at c begins with the z cells of text t.                       *)
Holds(f, d, c, t, z) ==
  LET w == Walk(Chains(f)[c])
  IN \A k \in 1 .. z : k \in DOMAIN w /\ CellAt(d, w[k]) = Text(t, k - 1)

(* The entry at loc is a file with text and size of r.                     *)
Filed(f, d, loc, r) ==
  LET e == CellAt(d, loc)
  IN e.tag = "entry" /\ e.attr = "file" /\ e.size = r.size /\ Holds(f, d, e.first, r.text, r.size)

(* mkfs.vfat and mcopy leave sound volumes behind.                         *)
ASSUME ImagesAssumption ==
  \A image \in Images :
    /\ image.fat \in [Clusters -> Links] /\ Ranked(image.fat, Clusters)
    /\ IsDisk(image.disk) /\ DOMAIN image.files \subseteq Clusters \X CellIndex
    /\ \E D \in SUBSET Clusters :
         /\ Sound(image.fat, image.disk, D, {}, {})
         /\ \A c \in D : Tidy(image.fat, image.disk, c) /\ Neat(image.fat, image.disk, c)
         /\ \A loc \in DOMAIN image.files : /\ loc \in Entries(image.fat, image.disk, D)
                                            /\ Filed(image.fat, image.disk, loc, image.files[loc])

-----------------------------------------------------------------------------
Idle == [pc |-> "idle"]

(* A disk made on the host, powered on: vfs_init, fat32_init.              *)
Init == \E image \in Images :
          /\ fat = image.fat /\ disk = image.disk /\ written = image.files
          /\ cwd = Root /\ op = Idle
          /\ commands = 0 /\ crashes = 0
          /\ torn = {} /\ lost = {} /\ poisoned = FALSE

(* The shell calls the driver; what the call changes besides op is said by *)
(* the caller of Begin.                                                    *)
Begin(o) == /\ op = Idle /\ commands < MaxCommands
            /\ op' = o
            /\ commands' = commands + 1
            /\ UNCHANGED crashes

Continue(o) == op' = o /\ UNCHANGED <<cwd, commands, crashes>>

disk_write(c, s, cells) ==
  disk' = [disk EXCEPT ![c] = [k \in CellIndex |-> IF SectorOf(k) = s THEN cells[k] ELSE @[k]]]

(* Write one entry: the sector is read, one entry replaced, written back.  *)
put_entry(loc, x) ==
  disk' = [disk EXCEPT ![loc[1]][loc[2]] = x]

set_next_cluster(c, v) == fat' = [fat EXCEPT ![c] = v]

Allocating == poisoned' = (poisoned \/ torn # {})

-----------------------------------------------------------------------------
(* fat32_write_file.  It never looks whether the name exists.              *)
(* The clusters the running command has marked in the FAT, and which no    *)
(* directory entry accounts for yet (or, for a removal, any more).         *)
InFlight ==
  CASE op.pc \in {"alloc", "mark", "data"} -> {c \in ChainSet(op.first) : fat[c] # FREE}
    [] op.pc \in {"init", "slot"}          -> {op.cur}
    [] op.pc = "free"                      -> {c \in ChainSet(op.cur) : fat[c] # FREE}
    [] OTHER                               -> {}

write_file(n, t, z) ==
  /\ Begin([pc |-> "alloc", name |-> n, text |-> t, size |-> z,
            i |-> 0, s |-> 0, first |-> 0, prev |-> 0, cur |-> 0])
  /\ UNCHANGED <<fat, disk, cwd, ghosts>>

(* Give up silently; the clusters reserved so far stay reserved.           *)
WriteFails == /\ Continue(Idle)
              /\ lost' = lost \cup InFlight
              /\ UNCHANGED <<fat, disk, written, torn, poisoned>>

WriteFirst ==
  /\ op.pc = "alloc" /\ op.i = 0 /\ op.i < Needed(op.size)
  /\ IF FreeClusters = {} THEN WriteFails
     ELSE LET c == find_free_cluster
          IN /\ set_next_cluster(c, EOC)
             /\ Continue([op EXCEPT !.pc = "data", !.first = c, !.cur = c, !.s = 0])
             /\ Allocating
             /\ UNCHANGED <<disk, written, torn, lost>>

WriteLinkSelf ==   \* mutant: prev_cluster is updated before the link is made
  /\ op.pc = "alloc" /\ op.i > 0 /\ op.i < Needed(op.size)
  /\ FreeClusters # {}
  /\ set_next_cluster(find_free_cluster, find_free_cluster)
  /\ Continue([op EXCEPT !.pc = "mark", !.cur = find_free_cluster])
  /\ Allocating
  /\ UNCHANGED <<disk, written, torn, lost>>

(* Later clusters are linked from their predecessor before they are marked. *)
WriteLink ==
  /\ op.pc = "alloc" /\ op.i > 0 /\ op.i < Needed(op.size)
  /\ IF FreeClusters = {} THEN WriteFails
     ELSE LET c == find_free_cluster
          IN /\ set_next_cluster(op.prev, c)
             /\ Continue([op EXCEPT !.pc = "mark", !.cur = c])
             /\ Allocating
             /\ UNCHANGED <<disk, written, torn, lost>>

WriteMarkForgotten ==   \* mutant: the last cluster is not marked
  /\ op.pc = "mark"
  /\ Continue([op EXCEPT !.pc = "data", !.s = 0])
  /\ UNCHANGED <<fat, disk, ghosts>>

WriteMark ==
  /\ op.pc = "mark"
  /\ set_next_cluster(op.cur, EOC)
  /\ Continue([op EXCEPT !.pc = "data", !.s = 0])
  /\ UNCHANGED <<disk, ghosts>>

(* The cells of one sector of the file, padded with zeros.                 *)
Chunk(offset, k) ==
  LET at == offset + (k % EntriesPerSector)
  IN IF at < op.size THEN Text(op.text, at) ELSE Zero

ChunkOffsetInCluster(i, s) == s * EntriesPerSector   \* mutant: forgets i

ChunkOffset(i, s) == (i * CellsPerCluster) + (s * EntriesPerSector)

WriteData ==
  /\ op.pc = "data"
  /\ disk_write(op.cur, op.s, [k \in CellIndex |-> Chunk(ChunkOffset(op.i, op.s), k)])
  /\ IF op.s + 1 \in SectorIndex /\ ChunkOffset(op.i, op.s + 1) < op.size
     THEN Continue([op EXCEPT !.s = @ + 1])
     ELSE Continue([op EXCEPT !.pc = "alloc", !.i = @ + 1, !.prev = op.cur])
  /\ UNCHANGED <<fat, ghosts>>

WriteEntry ==
  /\ op.pc = "alloc" /\ op.i = Needed(op.size)
  /\ LET loc == free_slot(Chain(cwd))
     IN IF loc = NoLoc THEN WriteFails
        ELSE /\ put_entry(loc, Entry(op.name, "file", op.first, op.size))
             /\ Continue(Idle)
             /\ written' = [l \in DOMAIN written \cup {loc} |->
                              IF l = loc THEN [text |-> op.text, size |-> op.size]
                              ELSE written[l]]
             /\ UNCHANGED <<fat, torn, lost, poisoned>>

-----------------------------------------------------------------------------
(* fat32_create_directory *)
create_directory(n) ==
  \/ /\ op = Idle
     /\ find_file(cwd, n) # NoLoc \/ FreeClusters = {}    \* refused
     /\ UNCHANGED vars
  \/ /\ find_file(cwd, n) = NoLoc /\ FreeClusters # {}
     /\ Begin([pc |-> "init", name |-> n, cur |-> find_free_cluster, s |-> 0])
     /\ set_next_cluster(find_free_cluster, EOC)
     /\ Allocating
     /\ UNCHANGED <<disk, cwd, written, torn, lost>>

DotsOfRoot(c, parent) ==   \* mutant: "assuming creation inside Root Directory"
  [k \in CellIndex |->
     CASE k = 0 -> Entry(Dot, "dir", c, 0)
       [] k = 1 -> Entry(DotDot, "dir", 0, 0)
       [] OTHER -> Zero]

Dots(c, parent) ==
  [k \in CellIndex |->
     CASE k = 0 -> Entry(Dot, "dir", c, 0)
       [] k = 1 -> Entry(DotDot, "dir", IF parent = Root THEN 0 ELSE parent, 0)
       [] OTHER -> Zero]

MkdirInitFirstSector ==   \* mutant: leaves the remaining sectors alone
  /\ op.pc = "init"
  /\ disk_write(op.cur, op.s, Dots(op.cur, cwd))
  /\ Continue([op EXCEPT !.pc = "slot"])
  /\ UNCHANGED <<fat, ghosts>>

(* init_directory_cluster: every sector of the new cluster is written.     *)
MkdirInit ==
  /\ op.pc = "init"
  /\ disk_write(op.cur, op.s, Dots(op.cur, cwd))
  /\ IF op.s + 1 \in SectorIndex THEN Continue([op EXCEPT !.s = @ + 1])
     ELSE Continue([op EXCEPT !.pc = "slot"])
  /\ UNCHANGED <<fat, ghosts>>

(* The slot is looked for in the first cluster of the directory only.      *)
MkdirEntry ==
  /\ op.pc = "slot"
  /\ free_slot(<<cwd>>) # NoLoc
  /\ put_entry(free_slot(<<cwd>>), Entry(op.name, "dir", op.cur, 0))
  /\ Continue(Idle)
  /\ UNCHANGED <<fat, ghosts>>

(* The loop does not move on to the next cluster: it scans the same one    *)
(* again.                                                                  *)
Spinning == op.pc = "slot" /\ free_slot(<<cwd>>) = NoLoc

MkdirSpin == Spinning /\ UNCHANGED vars

-----------------------------------------------------------------------------
(* The common tail of fat32_delete_file and fat32_rmdir: free the chain    *)
(* one FAT entry at a time, then mark the directory entry.                 *)
BeginRemoval(loc) == /\ Begin([pc |-> "free", loc |-> loc, cur |-> At(loc).first])
                     /\ UNCHANGED <<fat, disk, cwd, ghosts>>

delete_file(n) ==
  LET loc == find_file(cwd, n)
  IN \/ op = Idle /\ loc = NoLoc /\ UNCHANGED vars
     \/ loc # NoLoc /\ BeginRemoval(loc)

MayRmdir(loc) == /\ loc # NoLoc /\ IsDir(At(loc))
                 /\ is_directory_empty(At(loc).first)

rmdir(n) ==
  LET loc == find_file(cwd, n)
  IN \/ op = Idle /\ ~MayRmdir(loc) /\ UNCHANGED vars
     \/ MayRmdir(loc) /\ BeginRemoval(loc)

RemoveClusterFirst ==   \* mutant: reads the next cluster after clearing the entry
  /\ op.pc = "free" /\ Valid(op.cur)
  /\ set_next_cluster(op.cur, FREE)
  /\ Continue([op EXCEPT !.cur = FREE])
  /\ UNCHANGED <<disk, ghosts>>

RemoveClusterAgain ==   \* mutant: cluster_to_free is not advanced
  /\ op.pc = "free" /\ Valid(op.cur)
  /\ set_next_cluster(op.cur, FREE)
  /\ Continue(op)
  /\ UNCHANGED <<disk, ghosts>>

RemoveCluster ==
  /\ op.pc = "free" /\ Valid(op.cur)
  /\ set_next_cluster(op.cur, FREE)
  /\ Continue([op EXCEPT !.cur = fat[op.cur]])
  /\ UNCHANGED <<disk, ghosts>>

RemoveEntry ==
  /\ op.pc = "free" /\ ~Valid(op.cur)
  /\ put_entry(op.loc, Gone)
  /\ Continue(Idle)
  /\ written' = Restrict(written, DOMAIN written \ {op.loc})
  /\ torn' = torn \ {op.loc}
  /\ UNCHANGED <<fat, lost, poisoned>>

-----------------------------------------------------------------------------
(* fat32_cd *)
cd(path) ==
  LET c == get_path_cluster(cwd, path)
  IN \/ op = Idle /\ c = NotFound /\ UNCHANGED vars
     \/ /\ c # NotFound
        /\ Begin(Idle)
        /\ cwd' = c
        /\ UNCHANGED <<fat, disk, ghosts>>

(* ls, cat, pwd, df and vfs_read only read.                                *)
Look == op = Idle /\ UNCHANGED vars

(* Nothing of the victim has been freed: the removal has not begun.        *)
Untouched == op.cur = At(op.loc).first

(* Power is lost between two sector writes, and the machine boots again.   *)
Crash ==
  /\ crashes < MaxCrashes
  /\ crashes' = crashes + 1
  /\ op' = Idle /\ cwd' = Root
  /\ IF op.pc = "free"
     THEN IF Untouched THEN UNCHANGED ghosts
          ELSE /\ torn' = torn \cup {op.loc}
               /\ lost' = lost \cup InFlight
               /\ written' = Restrict(written, DOMAIN written \ {op.loc})
               /\ UNCHANGED poisoned
     ELSE lost' = lost \cup InFlight /\ UNCHANGED <<written, torn, poisoned>>
  /\ UNCHANGED <<fat, disk, commands>>

Command == \/ \E n \in FileNames, t \in Texts, z \in Sizes : write_file(n, t, z)
           \/ \E n \in FileNames : delete_file(n)
           \/ \E n \in DirNames : create_directory(n)
           \/ \E n \in RmdirNames : rmdir(n)
           \/ \E p \in Paths : cd(p)
           \/ Look

(* The next disk write of the running command.                             *)
Step == \/ WriteFirst \/ WriteLink \/ WriteMark \/ WriteData \/ WriteEntry
        \/ MkdirInit \/ MkdirEntry \/ MkdirSpin
        \/ RemoveCluster \/ RemoveEntry

Next == Command \/ Step \/ Crash

(* The processor keeps running the command; nobody must type another one,  *)
(* and nobody must pull the plug.                                          *)
Spec == Init /\ [][Next]_vars /\ WF_vars(Step)
-----------------------------------------------------------------------------
(* The readers.  fat32_ls: the entries it prints; a 0x00 entry ends the    *)
(* directory.                                                              *)
ls(c) ==
  LET w == Walk(Chain(c))
      Printed(k) == /\ At(w[k]) # Gone /\ At(w[k]) # Lfn
                    /\ \A j \in 1 .. k : At(w[j]) # Zero
  IN {w[k] : k \in {i \in DOMAIN w : Printed(i)}}

(* fat32_cat: sector after sector, until the size in the entry is reached. *)
cat(e) ==
  LET w == Walk(Chain(e.first))
  IN [k \in 1 .. Min({e.size, Len(w)}) |-> At(w[k])]

(* fat32_read_file copies whole sectors, at least one: the last one is     *)
(* followed by what pads it.                                               *)
read_file(e) ==
  LET w       == Walk(Chain(e.first))
      sectors == Max({1, (e.size + EntriesPerSector - 1) \div EntriesPerSector})
  IN [k \in 1 .. Min({sectors * EntriesPerSector, Len(w)}) |-> At(w[k])]

(* fat32_read_absolute: hop over whole clusters, then copy one chunk from  *)
(* each sector; only the first chunk starts inside its sector.             *)
read_absolute(start, offset, size) ==
  LET chain   == Chain(start)
      hops    == offset \div CellsPerCluster
      rest    == offset % CellsPerCluster
      w       == Walk(SubSeq(chain, hops + 1, Len(chain)))
      sectors == (Len(chain) - hops) * SectorsPerCluster
      from    == rest \div EntriesPerSector
      \* Copied from the last n sectors, when left cells are asked for.
      copy[n \in 0 .. sectors] ==
        [left \in 0 .. size |->
           LET s     == sectors - n
               skip  == IF s = from THEN rest % EntriesPerSector ELSE 0
               chunk == Min({EntriesPerSector - skip, left})
           IN IF n = 0 \/ left = 0 THEN <<>>
              ELSE [k \in 1 .. chunk |-> At(w[s * EntriesPerSector + skip + k])]
                     \o copy[n - 1][left - chunk]]
  IN IF hops >= Len(chain) THEN <<>> ELSE copy[sectors - from][size]

vfs_readUnclamped(e, offset, size) ==   \* mutant: no bounds check on the size
  IF offset >= e.size THEN <<>> ELSE read_absolute(e.first, offset, size)

(* fat32_vfs_read, through a node that vfs_open filled from entry e.  The  *)
(* sum is computed in uint32_t.                                            *)
vfs_read(e, offset, size) ==
  IF offset >= e.size THEN <<>>
  ELSE read_absolute(e.first, offset,
                     IF (offset + size) % SizeMod > e.size THEN e.size - offset ELSE size)

Corrupt == <<NotFound>>
Unknown == <<"???", "">>
Astray == <<"beyond the last cluster", "">>
Missing == <<"'..' missing", "">>

(* find_dirname_in_parent: prints the stem only.  Its loop takes the end   *)
(* of the chain for one more cluster, so it goes astray in a full          *)
(* directory that does not hold the child.                                 *)
find_dirname_in_parent(parent, child) ==
  LET w  == Walk(Chain(parent))
      Cluster(x) == IF x.first = 0 /\ parent = Root THEN Root ELSE x.first
      Hit(k) == /\ IsDir(At(w[k])) /\ Cluster(At(w[k])) = child
                /\ \A j \in 1 .. k - 1 : At(w[j]) # Zero
      loc == FirstWhere(w, Hit)
  IN IF loc # NoLoc THEN <<At(loc).name[1], "">>
     ELSE IF \E k \in DOMAIN w : At(w[k]) = Zero THEN Unknown ELSE Astray

(* fat32_pwd: the clusters from each one up to the root, n at most, then   *)
(* their names.                                                            *)
Climbs[n \in 0 .. PwdDepth] ==
  [c \in Clusters |->
     IF n = 0 \/ c = Root THEN <<>>
     ELSE LET up     == disk[c][1]
              parent == RootIfZero(up.first)
          IN IF ~Named(up, DotDot) THEN Corrupt
             ELSE IF parent = c THEN <<c>>
             ELSE LET rest == Climbs[n - 1][parent]
                  IN IF rest = Corrupt THEN Corrupt ELSE <<c>> \o rest]

pwd(c) ==
  LET stack == Climbs[PwdDepth][c]
      down  == <<Root>> \o Reverse(stack)
  IN IF stack = Corrupt THEN <<Missing>>
     ELSE [i \in 1 .. Len(stack) |-> find_dirname_in_parent(down[i], down[i + 1])]

-----------------------------------------------------------------------------
(* The tree a user can rely on: entries that are neither being removed nor *)
(* torn by a power loss, in the directories they lead to.                  *)
Slots(c) == ChainSet(c) \X CellIndex

Kept(c) == {loc \in Slots(c) : /\ Proper(At(loc))
                               /\ loc \notin torn
                               /\ ~(op.pc = "free" /\ op.loc = loc)}

DirsWithin[n \in 0 .. Cardinality(Clusters)] ==
  IF n = 0 THEN {Root}
  ELSE LET above == DirsWithin[n - 1]
       IN above \cup {At(loc).first : loc \in {l \in UNION {Kept(c) : c \in above} : IsDir(At(l))}}

Dirs == DirsWithin[Cardinality(Clusters)]

Tree == UNION {Kept(c) : c \in Dirs}

Owned(loc) == ChainSet(At(loc).first)

Held == UNION {Owned(loc) : loc \in Tree}

TypeOK ==
  /\ fat \in [Clusters -> Links]
  /\ IsDisk(disk)
  /\ cwd \in Clusters
  /\ op.pc \in {"idle", "alloc", "mark", "data", "init", "slot", "free"}
  /\ torn \cup DOMAIN written \subseteq Clusters \X CellIndex
  /\ lost \subseteq Clusters

(* No two files or directories share a cluster, none uses a free cluster   *)
(* or one that an interrupted command left behind, and every chain ends    *)
(* after exactly the clusters its size needs.  It holds across power       *)
(* losses in write_file and create_directory at any point, and across one  *)
(* in delete_file or rmdir until the next allocation; repeating the        *)
(* removal first makes the disk whole again.                               *)
NoSharing ==
  ~poisoned =>
    /\ \A a, b \in Tree : a # b => Owned(a) \cap Owned(b) = {}
    /\ \A loc \in Tree :
         LET e == At(loc)  chain == Chain(e.first)
         IN /\ \A c \in Owned(loc) : fat[c] # FREE
            /\ Owned(loc) \cap (ChainSet(Root) \cup InFlight \cup lost) = {}
            /\ Len(chain) = IF e.attr = "file" THEN Needed(e.size) ELSE 1
            /\ chain # <<>> => fat[Last(chain)] = EOC

(* Every reserved cluster is in the tree, in the hands of the running      *)
(* command, or among those given up by a write that found no space or no   *)
(* slot and by power losses: rm and rmdir give back everything, and df     *)
(* counts it.                                                              *)
NoLeak ==
  ~poisoned =>
    fat32_show_usage =
      Cardinality(Clusters \ (ChainSet(Root) \cup Held \cup InFlight \cup lost))

(* What was written is what is read, from wherever it was recorded, in the *)
(* tree or as an empty file in a torn directory, and for as long as it is  *)
(* not removed: by cat, by read_file (up to the padding) and by vfs_read   *)
(* at every offset and size.                                               *)
ReadsBack ==
  ~poisoned =>
    \A loc \in DOMAIN written :
      LET e == At(loc)
          content == [k \in 1 .. e.size |-> Text(written[loc].text, k - 1)]
      IN (op.pc = "free" /\ op.loc = loc) \/
         /\ loc \in Tree \/ (loc[1] \in TornDirs(disk, torn) /\ e.size = 0)
         /\ e.attr = "file" /\ e.size = written[loc].size
         /\ cat(e) = content
         /\ SubSeq(read_file(e), 1, e.size) = content
         /\ \A offset, size \in Reads :
              vfs_read(e, offset, size) = SubSeq(content, offset + 1, Min({offset + size, e.size}))

(* A directory holds entries only, never what a reused cluster held        *)
(* before, and nothing in use lies behind the 0x00 that ends it: ls, rm    *)
(* and the other searches miss nothing, and cd, which reads on after a     *)
(* 0x00, finds the same directories.                                       *)
NothingHidden ==
  ~poisoned =>
    \A c \in Dirs :
      /\ ls(c) = {loc \in Slots(c) : At(loc).tag \in {"entry", "text"}}
      /\ \A loc \in Slots(c) : At(loc).tag # "text"
      /\ \A n \in DirNames : find_dir(c, n) = find_file(c, n)

(* pwd prints a path that leads from the root back to the current          *)
(* directory, as long as that is in the tree.  Of a directory too deep for *)
(* its stack it never prints the path of another one: the path begins with *)
(* a component that it could not name.                                     *)
PwdLeadsBack ==
  ~poisoned /\ cwd \in Dirs =>
    IF \E n \in DOMAIN DirsWithin : n <= PwdDepth /\ cwd \in DirsWithin[n]
    THEN get_path_cluster(Root, [absolute |-> TRUE, parts |-> pwd(cwd)]) = cwd
    ELSE Head(pwd(cwd)) \in {Unknown, Astray}

(* No chain of the FAT ever runs into itself, not even after power losses  *)
(* that tore removals: every walk of the driver ends.                      *)
Acyclic == \A c \in Clusters : /\ Len(Chain(c)) = Cardinality(ChainSet(c))
                              /\ ~Valid(fat[Last(Chain(c))])

(* Every command returns, except a mkdir that finds the first cluster of   *)
(* its directory full.                                                     *)
CommandsReturn == []<>(op = Idle \/ Spinning)

-----------------------------------------------------------------------------
(* A statement of the repository that the code does not keep.              *)

(* mkdir finds a slot in the parent directory and returns                  *)
(* (create_directory, "find an empty slot in the parent directory").       *)
EveryCommandReturns == []<>(op = Idle)
=============================================================================
