------------------------------ MODULE FatNames ------------------------------
(***************************************************************************)
(* The two conversions of src/kernel/fs/fat32.c between the names users    *)
(* type and the space-padded names of directory entries: format_filename   *)
(* on the way in, print_name on the way out.  A name is typed one          *)
(* character at a time; the shell splits at spaces, so it holds none.      *)
(***************************************************************************)
EXTENDS Integers, Sequences, FiniteSetsExt

CONSTANTS Chars,     \* what can be typed, "." included and " " not
          Upper,     \* Chars -> Chars, upper case of the letters
          StemLen,   \* 8
          ExtLen,    \* 3
          MaxTyped   \* bound on the length of a typed name

ASSUME NamesAssumption ==
  /\ "." \in Chars /\ " " \notin Chars
  /\ Upper \in [Chars -> Chars]
  /\ Upper["."] = "."
  /\ \A c \in Chars : Upper[c] = "." => c = "."
  /\ \A c \in Chars : Upper[Upper[c]] = Upper[c]
  /\ StemLen \in Nat /\ StemLen >= 2 /\ ExtLen \in Nat /\ ExtLen >= 2 /\ MaxTyped \in Nat

VARIABLE typed

NamesInit == typed = <<>>

NamesNext == \/ /\ Len(typed) < MaxTyped
                /\ \E c \in Chars : typed' = Append(typed, c)
             \/ typed # <<>> /\ typed' = <<>>      \* the line is entered

NamesSpec == NamesInit /\ [][NamesNext]_typed
-----------------------------------------------------------------------------
OneDot == {<<".">>}   \* mutant: '..' is not handled explicitly

DotNames == {<<".">>, <<".", ".">>}

UpperCase(s) == [i \in DOMAIN s |-> Upper[s[i]]]

Pad(s, n) == [i \in 1 .. n |-> IF i <= Len(s) THEN s[i] ELSE " "]

(* How many characters the loop over the name part copies.                 *)
StemOf(s) == Min({i \in 0 .. Len(s) : i = Len(s) \/ i = StemLen \/ s[i + 1] = "."})

(* The characters after the dot, if the name part stopped at one.          *)
ExtOf(s) == LET i == StemOf(s)
            IN IF i < Len(s) /\ s[i + 1] = "."
               THEN SubSeq(s, i + 2, Min({i + 1 + ExtLen, Len(s)}))
               ELSE <<>>

format_filename(s) ==
  IF s \in DotNames THEN Pad(s, StemLen + ExtLen)
  ELSE Pad(UpperCase(SubSeq(s, 1, StemOf(s))), StemLen)
         \o Pad(UpperCase(ExtOf(s)), ExtLen)

(* The loops of print_name: what they copy of a field, all but its spaces. *)
CopyField(field) ==
  LET out[i \in 0 .. Len(field)] ==
        IF i = 0 THEN <<>> ELSE IF field[i] = " " THEN out[i - 1] ELSE Append(out[i - 1], field[i])
  IN out[Len(field)]

print_nameNoDot(name) == CopyField(name)   \* mutant: forgets the '.'

print_name(name) ==
  LET stem == CopyField(SubSeq(name, 1, StemLen))
      ext  == CopyField(SubSeq(name, StemLen + 1, StemLen + ExtLen))
  IN IF name[StemLen + 1] # " " THEN stem \o <<".">> \o ext ELSE stem
-----------------------------------------------------------------------------
(* A name of at most 8 characters, with or without an extension of at most *)
(* 3, and no other dot.                                                    *)
IsShortName(s) ==
  LET dots == {i \in DOMAIN s : s[i] = "."}
  IN \/ dots = {} /\ Len(s) \in 1 .. StemLen
     \/ \E i \in 2 .. StemLen + 1 : dots = {i} /\ Len(s) \in i + 1 .. i + ExtLen

(* What ls prints is a name under which the same file is found again,      *)
(* whatever was typed to create it: too long, with several dots or with a  *)
(* leading one.  A proper 8.3 name is listed as typed, in upper case: two  *)
(* of them share an entry only if they differ in case alone.               *)
ListedNameFindsFile ==
  /\ format_filename(print_name(format_filename(typed))) = format_filename(typed)
  /\ IsShortName(typed) => print_name(format_filename(typed)) = UpperCase(typed)

(* '.' and '..' lead to the dot entries of a directory, and no other name  *)
(* does, so neither rm nor rmdir reaches them by accident.                 *)
DotsAreReserved ==
  \A d \in {<<".">>, <<".", ".">>} :
    format_filename(typed) = Pad(d, StemLen + ExtLen) <=> typed = d
=============================================================================
