------------------------------ MODULE Console ------------------------------
(***************************************************************************)
(* The screen and the keyboard of src/kernel/drivers/console.c and the     *)
(* line editor console_read_line on top of them.  Programs print, the      *)
(* shell prints its prompt and reads a line, the user types.               *)
(* The screen is compared with a page that only grows: paper holds every   *)
(* cell since the last console_clear, and top counts the rows that have    *)
(* left the screen.                                                        *)
(***************************************************************************)
EXTENDS Integers, Sequences, FiniteSets

CONSTANTS CONSOLE_WIDTH, CONSOLE_HEIGHT,
          MaxLen,     \* max_len of console_read_line
          CharKeys,   \* keys that give a character
          Blank, Newline, Backspace, Prompt,
          MaxRows     \* bound on the rows of paper

ASSUME ConsoleAssumption ==
  /\ CONSOLE_WIDTH \in Nat \ {0} /\ CONSOLE_HEIGHT \in Nat \ {0}
  /\ MaxLen \in Nat \ {0} /\ MaxRows \in Nat
  /\ MaxLen <= CONSOLE_WIDTH * (CONSOLE_HEIGHT - 1)   \* 64 and 80 * 24 in the code
  /\ Newline # Backspace
  /\ {Newline, Backspace} \cap ({Blank, Prompt} \cup [key : CharKeys, upper : BOOLEAN]) = {}

VARIABLES video, cursor,   \* the screen, counted from 0
          shift_pressed,
          buffer,          \* the characters before idx of the buffer
          reading,         \* inside console_read_line
          paper, pos, top  \* the reference

screen == <<video, cursor>>
reference == <<paper, pos, top>>
consoleVars == <<screen, shift_pressed, buffer, reading, reference>>

Size == CONSOLE_WIDTH * CONSOLE_HEIGHT
Paper == 0 .. CONSOLE_WIDTH * MaxRows - 1

Char(key, shift) == [key |-> key, upper |-> shift]

Empty == [i \in 0 .. Size - 1 |-> Blank]

ConsoleInit ==
  /\ video = Empty /\ cursor = 0
  /\ shift_pressed = FALSE
  /\ buffer = <<>> /\ reading = FALSE
  /\ paper = [i \in Paper |-> Blank] /\ pos = 0 /\ top = 0
-----------------------------------------------------------------------------
ScrollKeepingLast(v) ==   \* mutant: the last line is not cleared
  [i \in 0 .. Size - 1 |-> IF i < Size - CONSOLE_WIDTH THEN v[i + CONSOLE_WIDTH] ELSE v[i]]

scroll_up(v) ==
  [i \in 0 .. Size - 1 |-> IF i < Size - CONSOLE_WIDTH THEN v[i + CONSOLE_WIDTH] ELSE Blank]

NextLine(at) == at + CONSOLE_WIDTH - (at % CONSOLE_WIDTH)

(* console_putchar on the screen: video memory and cursor before scrolling *)
PutBefore(c) ==
  IF c = Newline THEN <<video, NextLine(cursor)>>
  ELSE IF c = Backspace
       THEN IF cursor > 0 THEN <<[video EXCEPT ![cursor - 1] = Blank], cursor - 1>> ELSE <<video, cursor>>
  ELSE <<[video EXCEPT ![cursor] = c], cursor + 1>>

console_putchar(c) ==
  LET v == PutBefore(c)[1]
      at == PutBefore(c)[2]
  IN /\ video' = IF at >= Size THEN scroll_up(v) ELSE v
     /\ cursor' = IF at >= Size THEN at - CONSOLE_WIDTH ELSE at

(* The same character on paper.  Nothing is taken back from a row that has *)
(* left the screen.                                                        *)
OnPaper(c) ==
  LET back == IF pos > top * CONSOLE_WIDTH THEN pos - 1 ELSE pos
      at == IF c = Newline THEN (pos \div CONSOLE_WIDTH + 1) * CONSOLE_WIDTH
            ELSE IF c = Backspace THEN back ELSE pos + 1
  IN /\ at \in Paper
     /\ pos' = at
     /\ paper' = IF c = Newline THEN paper
                 ELSE IF c = Backspace THEN [paper EXCEPT ![back] = Blank]
                 ELSE [paper EXCEPT ![pos] = c]
     /\ top' = IF at \div CONSOLE_WIDTH - top = CONSOLE_HEIGHT THEN top + 1 ELSE top

Put(c) == console_putchar(c) /\ OnPaper(c)
-----------------------------------------------------------------------------
(* console_print and console_printf, one character at a time.              *)
console_print(c) ==
  /\ ~reading
  /\ Put(c)
  /\ UNCHANGED <<shift_pressed, buffer, reading>>

console_clear ==
  /\ ~reading
  /\ video' = Empty /\ cursor' = 0
  /\ paper' = [i \in Paper |-> Blank] /\ pos' = 0 /\ top' = 0
  /\ UNCHANGED <<shift_pressed, buffer, reading>>

(* The shell prints its prompt and calls console_read_line.                *)
ReadLine ==
  /\ ~reading
  /\ Put(Prompt)
  /\ reading' = TRUE /\ buffer' = <<>>
  /\ UNCHANGED shift_pressed

(* console_get_char: the two shift keys only change the flag; a key held   *)
(* down repeats its code.  Other releases and keys without a character are *)
(* passed over.  Keys are only looked at while a line is read.             *)
ShiftDown ==
  /\ reading
  /\ shift_pressed' = TRUE
  /\ UNCHANGED <<screen, buffer, reading, reference>>

ShiftUp ==
  /\ reading
  /\ shift_pressed' = FALSE
  /\ UNCHANGED <<screen, buffer, reading, reference>>

HasRoom == Len(buffer) < MaxLen - 1

TypeKey(k) ==
  LET c == Char(k, shift_pressed)
  IN /\ reading
     /\ \/ HasRoom /\ buffer' = Append(buffer, c) /\ Put(c)
        \/ ~HasRoom /\ UNCHANGED <<buffer, screen, reference>>
     /\ UNCHANGED <<shift_pressed, reading>>

MayEraseAlways == TRUE   \* mutant: idx is not tested

MayErase == Len(buffer) > 0

TypeBackspace ==
  /\ reading
  /\ \/ /\ MayErase
        /\ buffer' = SubSeq(buffer, 1, Len(buffer) - 1)
        /\ Put(Backspace)
     \/ ~MayErase /\ UNCHANGED <<buffer, screen, reference>>
  /\ UNCHANGED <<shift_pressed, reading>>

(* Enter: console_read_line returns.                                       *)
TypeEnter ==
  /\ reading
  /\ Put(Newline)
  /\ reading' = FALSE
  /\ UNCHANGED <<shift_pressed, buffer>>
-----------------------------------------------------------------------------
ConsoleNext ==
  \/ \E c \in {Newline, Backspace, Blank} \cup {Char(k, FALSE) : k \in CharKeys} : console_print(c)
  \/ console_clear \/ ReadLine
  \/ ShiftDown \/ ShiftUp
  \/ \E k \in CharKeys : TypeKey(k)
  \/ TypeBackspace \/ TypeEnter

ConsoleSpec == ConsoleInit /\ [][ConsoleNext]_consoleVars
-----------------------------------------------------------------------------
(* The screen is the last CONSOLE_HEIGHT rows of everything printed, typed *)
(* and erased: wrapping, newlines and scrolling lose nothing that belongs  *)
(* on it, leave nothing behind, and the cursor stays inside.               *)
ScreenIsWindow ==
  /\ cursor \in 0 .. Size - 1 /\ cursor = pos - top * CONSOLE_WIDTH
  /\ \A i \in 0 .. Size - 1 :
       video[i] = IF top * CONSOLE_WIDTH + i \in Paper THEN paper[top * CONSOLE_WIDTH + i] ELSE Blank

(* What the user sees between the prompt and the cursor is what the        *)
(* program will get, also after erasing over the end of a row and after a  *)
(* scroll in the middle of the line; the prompt cannot be erased, and the  *)
(* line leaves room for its terminator.                                    *)
SeesTheLine ==
  reading => /\ Len(buffer) < MaxLen
             /\ cursor > Len(buffer)
             /\ video[cursor - Len(buffer) - 1] = Prompt
             /\ \A i \in DOMAIN buffer : video[cursor - Len(buffer) + i - 1] = buffer[i]
=============================================================================
