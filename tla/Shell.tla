------------------------------- MODULE Shell -------------------------------
(***************************************************************************)
(* The loop of src/kernel/shell/shell.c and the table of apps.c: a line is *)
(* read into a buffer that keeps the rest of earlier lines, cut into words *)
(* in place, and run as `exit', a registered command or a program.         *)
(***************************************************************************)
EXTENDS Integers, Sequences, FiniteSets, FiniteSetsExt

CONSTANTS LineSize,  \* size of input (64)
          MaxArgs,   \* size of argv (10)
          Letters, Space, NUL,
          Exit,      \* the word "exit"
          Apps,      \* the names in apps_vector, in order
          Programs   \* the names for which exec_elf starts a program

ASSUME ShellAssumption ==
  /\ LineSize \in Nat \ {0} /\ MaxArgs \in Nat \ {0}
  /\ Space \notin Letters /\ NUL \notin Letters \cup {Space}
  /\ Apps \in Seq(Seq(Letters))

VARIABLES input,  \* the buffer, from 0
          ptr, argv,
          pc,     \* "read", "split", "run", "exit" or "user"
          line,   \* the line as it was typed
          ran     \* what the last line ran

shellVars == <<input, ptr, argv, pc, line, ran>>

Buffer == 0 .. LineSize - 1

ShellInit == /\ input = [i \in Buffer |-> NUL] /\ ptr = 0 /\ argv = <<>>
             /\ pc = "read" /\ line = <<>> /\ ran = <<>>

(* console_read_line (Console.tla): the line, its terminator, and behind   *)
(* it what was there before.                                               *)
ReadCommand(l) ==
  /\ pc = "read"
  /\ line' = l
  /\ input' = [i \in Buffer |-> IF i < Len(l) THEN l[i + 1] ELSE IF i = Len(l) THEN NUL ELSE input[i]]
  /\ ptr' = 0 /\ argv' = <<>> /\ pc' = "split" /\ ran' = <<>>

(* The first place from p on that a loop of the tokenizer stops at.        *)
SkipSpaces(p) == Min({q \in Buffer : q >= p /\ input[q] # Space})
EndOfToken(p) == Min({q \in Buffer : q >= p /\ input[q] \in {Space, NUL}})

TerminateNot(e) == input   \* mutant: the blank stays

(* "Null terminate the argument".                                          *)
Terminate(e) == IF input[e] # NUL THEN [input EXCEPT ![e] = NUL] ELSE input

(* One turn of the tokenizer.                                              *)
Split ==
  LET start == SkipSpaces(ptr)
      end == EndOfToken(start)
  IN /\ pc = "split" /\ input[ptr] # NUL /\ Len(argv) < MaxArgs
     /\ \/ /\ input[start] = NUL                           \* break
           /\ pc' = "run" /\ UNCHANGED <<input, ptr, argv>>
        \/ /\ input[start] # NUL
           /\ argv' = Append(argv, start)
           /\ input' = Terminate(end)
           /\ ptr' = IF input[end] # NUL THEN end + 1 ELSE end
           /\ UNCHANGED pc
     /\ UNCHANGED <<line, ran>>

SplitEnds ==
  /\ pc = "split" /\ (input[ptr] = NUL \/ Len(argv) >= MaxArgs)
  /\ pc' = "run"
  /\ UNCHANGED <<input, ptr, argv, line, ran>>

(* The string at a place of the buffer, as strcmp and the commands see it. *)
CString(p) == LET e == Min({q \in Buffer : q >= p /\ input[q] = NUL})
              IN [i \in 1 .. e - p |-> input[p + i - 1]]

(* strcmp(argv[0], name) == 0.                                             *)
Matches(name) == CString(argv[1]) = name

Matching == {i \in DOMAIN Apps : Matches(Apps[i])}

Run ==
  /\ pc = "run"
  /\ \/ /\ argv = <<>>
        /\ pc' = "read" /\ ran' = <<"nothing">>
     \/ /\ argv # <<>> /\ Matches(Exit)
        /\ pc' = "exit" /\ ran' = <<"exit">>
     \/ /\ argv # <<>> /\ ~Matches(Exit) /\ Matching # {}
        /\ pc' = "read" /\ ran' = <<"app", Min(Matching)>>
     \/ /\ argv # <<>> /\ ~Matches(Exit) /\ Matching = {}
        /\ IF CString(argv[1]) \in Programs
           THEN pc' = "user" /\ ran' = <<"program">>
           ELSE pc' = "read" /\ ran' = <<"not found">>
  /\ UNCHANGED <<input, ptr, argv, line>>

(* shell_run returned, or the program that never comes back was started.   *)
Stopped == pc \in {"exit", "user"} /\ UNCHANGED shellVars

Lines == UNION {[1 .. n -> Letters \cup {Space}] : n \in 0 .. LineSize - 1}

ShellNext == (\E l \in Lines : ReadCommand(l)) \/ Split \/ SplitEnds \/ Run \/ Stopped

ShellSpec == ShellInit /\ [][ShellNext]_shellVars
-----------------------------------------------------------------------------
(* The words of a line: its longest stretches without a space, the k-th   *)
(* of them the one with k starts up to its own.                            *)
Starts(l) == {i \in DOMAIN l : l[i] # Space /\ (i = 1 \/ l[i - 1] = Space)}
Rank(l, i) == Cardinality({j \in Starts(l) : j <= i})
IsEnd(l, i, e) == /\ e \in i .. Len(l) /\ \A j \in i .. e : l[j] # Space
                  /\ e = Len(l) \/ l[e + 1] = Space

Words(l) ==
  LET at(k) == CHOOSE i \in Starts(l) : Rank(l, i) = k
      end(i) == CHOOSE e \in i .. Len(l) : IsEnd(l, i, e)
  IN [k \in 1 .. Cardinality(Starts(l)) |-> SubSeq(l, at(k), end(at(k)))]

(* What the first word names.                                              *)
Meant(w) ==
  LET named == {i \in DOMAIN Apps : Apps[i] = w[1]}
  IN IF w = <<>> THEN <<"nothing">>
     ELSE IF w[1] = Exit THEN <<"exit">>
     ELSE IF named # {} THEN <<"app", Min(named)>>
     ELSE IF w[1] \in Programs THEN <<"program">> ELSE <<"not found">>

(* A command gets the words of the line that was typed, the first MaxArgs  *)
(* of them, and nothing of the lines before, however many spaces there     *)
(* are and however full the buffer is; and what runs is what the first     *)
(* word names: exit, else the first command of that name, else the         *)
(* program, so that no program hides a command.                            *)
RunsWhatWasTyped ==
  LET w == Words(line)
  IN /\ pc = "run" => /\ Len(argv) = Min({Len(w), MaxArgs})
                      /\ \A i \in DOMAIN argv : CString(argv[i]) = w[i]
     /\ ran # <<>> => ran = Meant(w)
=============================================================================
