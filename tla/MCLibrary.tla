----------------------------- MODULE MCLibrary -----------------------------
(***************************************************************************)
(* The sequential parts of the kernel, which neither share state nor run   *)
(* at the same time, under one model: a run picks one of them at the start *)
(* and lets it work, so the states of this model are those of the parts    *)
(* side by side and not multiplied.                                        *)
(***************************************************************************)
EXTENDS Vector, HashTable, FatNames, Checksum, Conversions, Shell, Console

CONSTANTS a, b

VARIABLE part   \* which of them works

(* Two keys and the text at address 0 in the same bucket, one key alone.   *)
MCHash == [k \in Keys |-> CASE k = "init" -> 1 [] k = "shell" -> 3 [] k = "zero" -> 5 [] OTHER -> 4]

(* Two letters, one of them in both cases.                                 *)
MCChars == {"a", "A", "B", "."}
MCUpper == [c \in MCChars |-> IF c = "a" THEN "A" ELSE c]

(* Bytes of four bits, ints of eight, addresses of four times four.        *)
MCSamples == {0, 1, 14, 15}
MCNumbers == {0, 1, 2, 9, 10, 12, 64, 99, 127}
MCOctets == {0, 1, 9, 10, 15}

(* Words of one and two letters.                                           *)
MCExit == <<b>>
MCApps == <<<<a, b>>, <<a>>>>
MCPrograms == {<<a>>, <<b, b>>}
-----------------------------------------------------------------------------
Parts == {"vector", "hash table", "names", "packet", "conversion", "shell", "console"}

vars == <<part, vectorVars, hashVars, typed, packet, job, shellVars, consoleVars>>

Init == /\ part \in Parts
        /\ VectorInit /\ HashInit /\ NamesInit /\ PacketInit /\ JobInit /\ ShellInit /\ ConsoleInit

Next == /\ UNCHANGED part
        /\ \/ /\ part = "vector" /\ VectorNext
              /\ UNCHANGED <<hashVars, typed, packet, job, shellVars, consoleVars>>
           \/ /\ part = "hash table" /\ HashNext
              /\ UNCHANGED <<vectorVars, typed, packet, job, shellVars, consoleVars>>
           \/ /\ part = "names" /\ NamesNext
              /\ UNCHANGED <<vectorVars, hashVars, packet, job, shellVars, consoleVars>>
           \/ /\ part = "packet" /\ PacketNext
              /\ UNCHANGED <<vectorVars, hashVars, typed, job, shellVars, consoleVars>>
           \/ /\ part = "conversion" /\ JobNext
              /\ UNCHANGED <<vectorVars, hashVars, typed, packet, shellVars, consoleVars>>
           \/ /\ part = "shell" /\ ShellNext
              /\ UNCHANGED <<vectorVars, hashVars, typed, packet, job, consoleVars>>
           \/ /\ part = "console" /\ ConsoleNext
              /\ UNCHANGED <<vectorVars, hashVars, typed, packet, job, shellVars>>

Spec == Init /\ [][Next]_vars
=============================================================================
