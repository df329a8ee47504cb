------------------------------ MODULE MCFat32 ------------------------------
(* Fat32.tla on disks of a few clusters.                                   *)
EXTENDS Fat32

F == <<"f", "">>
D == <<"d", "">>
E == <<"e", "">>

MCFileNames == {F}
MCDirNames == {D, E}
MCTexts == {"x", "y"}

(* Down, up, to the side and from the root.                                *)
Path(a, p) == [absolute |-> a, parts |-> p]
MCPaths == {Path(TRUE, <<>>), Path(FALSE, <<D>>), Path(FALSE, <<DotDot>>),
            Path(FALSE, <<DotDot, E>>), Path(TRUE, <<D, D>>)}

Blank == [k \in CellIndex |-> Zero]

(* mkfs.vfat: an empty root of one cluster.                                *)
Formatted ==
  [fat |-> [c \in Clusters |-> IF c = Root THEN EOC ELSE FREE],
   disk |-> [c \in Clusters |-> Blank],
   files |-> [l \in {} |-> 0]]

(* mcopy: a file f under a long name, two clusters long.                   *)
Loaded ==
  LET a == Root + 1  b == Root + 2  z == CellsPerCluster + 1
  IN [fat |-> [Formatted.fat EXCEPT ![a] = b, ![b] = EOC],
      disk |-> [Formatted.disk EXCEPT
                  ![Root][0] = Lfn,
                  ![Root][1] = Entry(F, "file", a, z),
                  ![a] = [k \in CellIndex |-> Text("x", k)],
                  ![b] = [k \in CellIndex |-> IF k = 0 THEN Text("x", CellsPerCluster) ELSE Zero]],
      files |-> [l \in {<<Root, 1>>} |-> [text |-> "x", size |-> z]]]

(* A root that mcopy has grown to two clusters: an empty file f whose long *)
(* name fills the first.                                                   *)
Grown ==
  LET a == Root + 1  last == CellsPerCluster - 1
  IN [fat |-> [Formatted.fat EXCEPT ![Root] = a, ![a] = EOC],
      disk |-> [Formatted.disk EXCEPT
                  ![Root] = [k \in CellIndex |-> IF k < last THEN Lfn ELSE Entry(F, "file", 0, 0)]],
      files |-> [l \in {<<Root, last>>} |-> [text |-> "x", size |-> 0]]]

MCImages == {Formatted, Loaded, Grown}
=============================================================================
