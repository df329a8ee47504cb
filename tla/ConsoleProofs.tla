---------------------------- MODULE ConsoleProofs ----------------------------
(***************************************************************************)
(* The screen is a window on the paper and shows the line that is typed,   *)
(* for every width and height of the screen, every length of the line      *)
(* buffer that the screen can show below a prompt, and every text.         *)
(*                                                                         *)
(* The invariant needs one fact more: nothing is printed at or behind the  *)
(* cursor (Ahead).  So the row that a scroll brings in is blank, and so is *)
(* the cell a backspace in the first column of the screen leaves alone.    *)
(*                                                                         *)
(* The shell behind it runs what was typed: between two turns of its       *)
(* tokenizer the arguments are the words that start before ptr, and what   *)
(* lies behind ptr is the line as it was typed (Scanned).                  *)
(*                                                                         *)
(* The numbers it prints and reads are written right: the digits are the   *)
(* remainders of falling quotients (Quotients), and reading them from the  *)
(* first runs back through the same quotients (Numeral).                   *)
(*                                                                         *)
(* The 8.3 names that the commands of files are given are converted to     *)
(* directory entries and back without loss (Fields).                       *)
(***************************************************************************)
EXTENDS Console, Shell, Numerals, FatNames, FiniteSetTheorems, SequenceTheorems, Arithmetic

Cells == {Blank, Prompt} \cup [key : CharKeys, upper : BOOLEAN]

Typed ==
  /\ video \in [0 .. Size - 1 -> Cells]
  /\ paper \in [Paper -> Cells]
  /\ pos \in Nat /\ top \in Nat /\ cursor \in Nat
  /\ buffer \in Seq(Cells) /\ shift_pressed \in BOOLEAN

(* Nothing is printed at or behind the cursor.                             *)
Ahead == \A i \in Paper : i >= pos => paper[i] = Blank

IInv == Typed /\ Ahead /\ ScreenIsWindow /\ SeesTheLine
-----------------------------------------------------------------------------
(* Sizes.                                                                  *)

LEMMA Sizes ==
  /\ CONSOLE_WIDTH \in Nat /\ CONSOLE_WIDTH > 0 /\ Size \in Nat /\ CONSOLE_HEIGHT \in Nat
  /\ Size >= CONSOLE_WIDTH /\ MaxLen \in Nat /\ MaxLen > 0 /\ MaxLen <= Size - CONSOLE_WIDTH
<1>1. CONSOLE_WIDTH * (CONSOLE_HEIGHT - 1) = Size - CONSOLE_WIDTH
  BY ConsoleAssumption DEF Size
<1>2. CONSOLE_WIDTH * 1 <= CONSOLE_WIDTH * CONSOLE_HEIGHT
  BY ConsoleAssumption, MulMono
<1> QED
  BY <1>1, <1>2, ConsoleAssumption DEF Size

LEMMA RowStart ==
  ASSUME NEW t \in Nat
  PROVE  /\ t * CONSOLE_WIDTH \in Nat
         /\ (t + 1) * CONSOLE_WIDTH = t * CONSOLE_WIDTH + CONSOLE_WIDTH
         /\ CONSOLE_WIDTH * (t + CONSOLE_HEIGHT) = t * CONSOLE_WIDTH + Size
  BY ConsoleAssumption DEF Size

(* The start of the row after the cursor's, on the screen.                 *)
LEMMA NextLineFacts ==
  ASSUME NEW at \in 0 .. Size - 1
  PROVE  /\ NextLine(at) \in Nat /\ NextLine(at) > at /\ NextLine(at) <= Size
         /\ NextLine(at) = CONSOLE_WIDTH * (at \div CONSOLE_WIDTH) + CONSOLE_WIDTH
<1> DEFINE W == CONSOLE_WIDTH
           q == at \div W
<1>1. W \in Nat \ {0} /\ at \in Nat /\ at < W * CONSOLE_HEIGHT /\ CONSOLE_HEIGHT \in Nat
  BY Sizes DEF Size
<1>2. q \in Nat /\ at % W \in Nat /\ at = W * q + (at % W) /\ at % W < W
  BY <1>1, DivMod
<1>3. NextLine(at) = W * q + W
  BY <1>1, <1>2 DEF NextLine
<1> HIDE DEF q, W
<1>4. q < CONSOLE_HEIGHT
  <2>1. CONSOLE_HEIGHT <= q => W * CONSOLE_HEIGHT <= W * q
    BY <1>1, <1>2, MulMono
  <2>2. W * q \in Nat /\ W * CONSOLE_HEIGHT \in Nat
    BY <1>1, <1>2
  <2> QED
    BY <1>1, <1>2, <2>1, <2>2
<1>5. W * (q + 1) <= W * CONSOLE_HEIGHT /\ W * (q + 1) = W * q + W /\ W * q \in Nat
  BY <1>1, <1>2, <1>4, MulMono
<1> QED
  BY <1>1, <1>2, <1>3, <1>5 DEF q, W, Size

(* The start of the next row, on paper: the same row.                      *)
LEMMA NextLineOnPaper ==
  ASSUME NEW t \in Nat, NEW at \in 0 .. Size - 1, NEW p \in Nat, p = t * CONSOLE_WIDTH + at
  PROVE  (p \div CONSOLE_WIDTH + 1) * CONSOLE_WIDTH = t * CONSOLE_WIDTH + NextLine(at)
<1> DEFINE W == CONSOLE_WIDTH
           q == at \div W
<1>1. W \in Nat \ {0} /\ at \in Nat
  BY Sizes
<1>2. q \in Nat /\ at % W \in Nat /\ at = W * q + (at % W) /\ at % W < W
  BY <1>1, DivMod
<1>3. NextLine(at) = W * q + W
  BY NextLineFacts
<1> HIDE DEF q
<1> DEFINE r == at % W
<1>4. t + q \in Nat /\ r \in Nat /\ r < W /\ p = W * (t + q) + r
  <2>1. W * (t + q) = t * W + W * q
    BY <1>1, <1>2
  <2>2. p = t * W + W * q + r
    BY <1>1, <1>2
  <2>3. t + q \in Nat /\ r \in Nat /\ r < W
    BY <1>1, <1>2
  <2> QED
    BY <2>1, <2>2, <2>3
<1> HIDE DEF r, W
<1>5. p \div W = t + q
  BY <1>1, <1>4, DivUnique
<1> QED
  BY <1>1, <1>2, <1>3, <1>5 DEF W

(* The paper leaves the window exactly when the cursor leaves the screen.  *)
LEMMA LeavesTogether ==
  ASSUME NEW t \in Nat, NEW at \in 0 .. Size
  PROVE  (t * CONSOLE_WIDTH + at) \div CONSOLE_WIDTH - t = CONSOLE_HEIGHT <=> at >= Size
<1> DEFINE W == CONSOLE_WIDTH
           p == t * W + at
<1>1. W \in Nat \ {0} /\ at \in Nat /\ CONSOLE_HEIGHT \in Nat /\ Size = W * CONSOLE_HEIGHT
  BY Sizes DEF Size
<1>2. p \in Nat
  BY <1>1
<1>3. CASE at = Size
  <2>1. p = W * (t + CONSOLE_HEIGHT) + 0
    BY <1>1, <1>3
  <2>2. p \div W = t + CONSOLE_HEIGHT
    BY <1>1, <1>2, <2>1, DivUnique
  <2> QED
    BY <1>1, <1>3, <2>2
<1>4. CASE at < Size
  <2> DEFINE d == p \div W
  <2>1. d \in Nat /\ p % W \in Nat /\ p = W * d + (p % W)
    BY <1>1, <1>2, DivMod
  <2> HIDE DEF d
  <2>2. ASSUME d - t = CONSOLE_HEIGHT PROVE FALSE
    <3>1. d = t + CONSOLE_HEIGHT
      BY <1>1, <2>1, <2>2
    <3>2. W * d = t * W + Size
      BY <1>1, <3>1
    <3> QED
      BY <1>1, <1>4, <2>1, <3>2
  <2> QED
    BY <1>1, <1>4, <2>2 DEF d
<1> QED
  BY <1>1, <1>3, <1>4
-----------------------------------------------------------------------------
(* Where a character puts the cursor, before scrolling.                    *)
Target(c) == IF c = Newline THEN NextLine(cursor)
             ELSE IF c = Backspace THEN (IF cursor > 0 THEN cursor - 1 ELSE cursor)
             ELSE cursor + 1

(* What it does to a cell of the screen, before scrolling.                 *)
CellAfter(c, i) == IF c = Newline THEN video[i]
                   ELSE IF c = Backspace
                        THEN (IF cursor > 0 /\ i = cursor - 1 THEN Blank ELSE video[i])
                   ELSE IF i = cursor THEN c ELSE video[i]

(* console_putchar, cell by cell.                                          *)
LEMMA PutcharFacts ==
  ASSUME Typed, cursor \in 0 .. Size - 1, NEW c \in Cells \cup {Newline, Backspace},
         console_putchar(c)
  PROVE  /\ Target(c) \in 0 .. Size
         /\ video' \in [0 .. Size - 1 -> Cells]
         /\ Target(c) < Size => /\ cursor' = Target(c)
                                /\ \A i \in 0 .. Size - 1 : video'[i] = CellAfter(c, i)
         /\ Target(c) >= Size =>
              /\ cursor' = Size - CONSOLE_WIDTH
              /\ \A i \in 0 .. Size - 1 :
                   video'[i] = IF i < Size - CONSOLE_WIDTH THEN CellAfter(c, i + CONSOLE_WIDTH) ELSE Blank
<1> DEFINE v == PutBefore(c)[1]
           at == PutBefore(c)[2]
<1>0. Newline # Backspace /\ Newline \notin Cells /\ Backspace \notin Cells /\ Blank \in Cells
  BY ConsoleAssumption DEF Cells
<1>1. NextLine(cursor) \in Nat /\ NextLine(cursor) <= Size
  BY NextLineFacts
<1>2. at = Target(c) /\ Target(c) \in 0 .. Size
  BY <1>0, <1>1, Sizes DEF PutBefore, Target
<1>3. v \in [0 .. Size - 1 -> Cells] /\ \A i \in 0 .. Size - 1 : v[i] = CellAfter(c, i)
  <2>1. CASE c = Newline
    BY <1>0, <2>1 DEF PutBefore, CellAfter, Typed
  <2>2. CASE c = Backspace /\ cursor > 0
    BY <1>0, <2>2, Sizes DEF PutBefore, CellAfter, Typed
  <2>3. CASE c = Backspace /\ ~(cursor > 0)
    BY <1>0, <2>3 DEF PutBefore, CellAfter, Typed
  <2>4. CASE c \in Cells
    BY <1>0, <2>4, Sizes DEF PutBefore, CellAfter, Typed
  <2> QED
    BY <2>1, <2>2, <2>3, <2>4
<1>4. /\ video' = IF at >= Size THEN scroll_up(v) ELSE v
      /\ cursor' = IF at >= Size THEN at - CONSOLE_WIDTH ELSE at
  BY DEF console_putchar
<1> HIDE DEF v, at
<1>5. CASE Target(c) < Size
  <2>1. ~(Target(c) >= Size)
    BY <1>2, <1>5, Sizes
  <2> QED
    BY <1>2, <1>3, <1>4, <1>5, <2>1
<1>6. CASE Target(c) >= Size
  <2>1. Target(c) = Size /\ ~(Target(c) < Size)
    BY <1>2, <1>6, Sizes
  <2>2. /\ scroll_up(v) \in [0 .. Size - 1 -> Cells]
        /\ \A i \in 0 .. Size - 1 :
             scroll_up(v)[i] = IF i < Size - CONSOLE_WIDTH THEN CellAfter(c, i + CONSOLE_WIDTH) ELSE Blank
    BY <1>0, <1>3, Sizes DEF scroll_up
  <2> QED
    BY <1>2, <1>4, <1>6, <2>1, <2>2
<1> QED
  BY <1>2, <1>5, <1>6, Sizes

(* The reference, cell by cell: it moves with the screen.                  *)
LEMMA OnPaperFacts ==
  ASSUME Typed, Ahead, ScreenIsWindow, NEW c \in Cells \cup {Newline, Backspace}, OnPaper(c)
  PROVE  /\ pos' \in Nat /\ top' \in Nat /\ paper' \in [Paper -> Cells]
         /\ pos' = top * CONSOLE_WIDTH + Target(c)
         /\ top' = IF Target(c) >= Size THEN top + 1 ELSE top
         /\ \A i \in Paper : i >= pos' => paper'[i] = Blank
         /\ \A i \in Paper : i >= top * CONSOLE_WIDTH /\ i < top * CONSOLE_WIDTH + Size =>
              paper'[i] = CellAfter(c, i - top * CONSOLE_WIDTH)
         /\ \A i \in Paper : i >= top * CONSOLE_WIDTH + Size => paper'[i] = Blank
<1> DEFINE T == top * CONSOLE_WIDTH
<1>0. /\ Newline # Backspace /\ Newline \notin Cells /\ Backspace \notin Cells /\ Blank \in Cells
      /\ Paper \subseteq Nat
  BY ConsoleAssumption DEF Cells, Paper
<1>1. T \in Nat /\ pos = T + cursor /\ cursor \in 0 .. Size - 1
  BY RowStart, Sizes DEF Typed, ScreenIsWindow
<1>2. NextLine(cursor) \in Nat /\ NextLine(cursor) <= Size /\ NextLine(cursor) > cursor
  BY <1>1, NextLineFacts
<1>3. (pos \div CONSOLE_WIDTH + 1) * CONSOLE_WIDTH = T + NextLine(cursor)
  BY <1>1, NextLineOnPaper DEF Typed
<1>4. Target(c) \in 0 .. Size
  BY <1>1, <1>2, Sizes DEF Target
<1>5. (T + Target(c)) \div CONSOLE_WIDTH - top = CONSOLE_HEIGHT <=> Target(c) >= Size
  BY <1>4, LeavesTogether DEF Typed
<1> HIDE DEF T
<1>6. \A i \in Paper : i >= T /\ i < T + Size => video[i - T] = paper[i]
  <2> SUFFICES ASSUME NEW i \in Paper, i >= T, i < T + Size PROVE video[i - T] = paper[i]
    OBVIOUS
  <2>1. i - T \in 0 .. Size - 1 /\ T + (i - T) = i
    BY <1>0, <1>1, Sizes
  <2> QED
    BY <2>1 DEF ScreenIsWindow, T
<1>7. \A i \in Paper : i >= T + Size => paper[i] = Blank
  BY <1>0, <1>1, Sizes DEF Ahead
<1>8. CASE c = Newline
  <2>1. pos' = T + Target(c) /\ paper' = paper
    BY <1>3, <1>8 DEF OnPaper, Target
  <2>2. top' = IF Target(c) >= Size THEN top + 1 ELSE top
    BY <1>3, <1>5, <1>8 DEF OnPaper, Target
  <2> QED
    BY <1>0, <1>1, <1>2, <1>4, <1>6, <1>7, <1>8, <2>1, <2>2, Sizes DEF Typed, Ahead, CellAfter, Target, T
<1>9. CASE c = Backspace
  <2>1. /\ pos' = T + Target(c)
        /\ paper' = [paper EXCEPT ![pos'] = Blank]
        /\ pos' \in Paper
    <3>1. pos > top * CONSOLE_WIDTH <=> cursor > 0
      BY <1>1, Sizes DEF T
    <3>2. /\ pos' = IF cursor > 0 THEN pos - 1 ELSE pos
          /\ paper' = [paper EXCEPT ![pos'] = Blank] /\ pos' \in Paper
      BY <1>0, <1>9, <3>1 DEF OnPaper
    <3> QED
      BY <1>0, <1>1, <1>9, <3>2, Sizes DEF Target
  <2>2. top' = IF Target(c) >= Size THEN top + 1 ELSE top
    BY <1>0, <1>5, <1>9, <2>1 DEF OnPaper
  <2>3. /\ paper' \in [Paper -> Cells]
        /\ \A i \in Paper : paper'[i] = IF i = pos' THEN Blank ELSE paper[i]
    BY <1>0, <2>1 DEF Typed
  <2>4. Target(c) < Size /\ Target(c) \in Nat
    BY <1>0, <1>1, <1>9, Sizes DEF Target
  <2>5. \A i \in Paper : i >= pos' => paper'[i] = Blank
    BY <1>0, <1>1, <1>9, <2>1, <2>3, Sizes DEF Ahead, Target
  <2>6. \A i \in Paper : i >= T /\ i < T + Size => paper'[i] = CellAfter(c, i - T)
    <3> SUFFICES ASSUME NEW i \in Paper, i >= T, i < T + Size PROVE paper'[i] = CellAfter(c, i - T)
      OBVIOUS
    <3>1. video[i - T] = paper[i]
      BY <1>6
    <3>2. CASE cursor > 0
      BY <1>0, <1>1, <1>9, <2>1, <2>3, <3>1, <3>2, Sizes DEF CellAfter, Target
    <3>3. CASE ~(cursor > 0)
      <4>1. pos' = pos
        BY <1>0, <1>1, <1>9, <2>1, <3>3 DEF Target
      <4>2. paper'[i] = paper[i]
        BY <2>3, <2>5, <4>1, <1>0, <1>1 DEF Ahead
      <4> QED
        BY <1>0, <1>9, <3>1, <3>3, <4>2 DEF CellAfter
    <3> QED
      BY <3>2, <3>3
  <2> QED
    BY <1>0, <1>1, <1>7, <2>1, <2>2, <2>3, <2>4, <2>5, <2>6, Sizes DEF Typed, T
<1>10. CASE c \in Cells
  <2>1. /\ pos' = T + Target(c) /\ pos' = pos + 1
        /\ paper' = [paper EXCEPT ![pos] = c]
    BY <1>0, <1>1, <1>10, Sizes DEF OnPaper, Target
  <2>2. top' = IF Target(c) >= Size THEN top + 1 ELSE top
    BY <1>0, <1>5, <1>10, <2>1 DEF OnPaper
  <2>3. /\ paper' \in [Paper -> Cells]
        /\ \A i \in Paper : paper'[i] = IF i = pos THEN c ELSE paper[i]
    BY <1>0, <1>10, <2>1 DEF Typed
  <2>4. \A i \in Paper : i >= pos' => paper'[i] = Blank
    BY <1>0, <1>1, <2>1, <2>3, Sizes DEF Ahead
  <2>5. \A i \in Paper : i >= T /\ i < T + Size => paper'[i] = CellAfter(c, i - T)
    <3> SUFFICES ASSUME NEW i \in Paper, i >= T, i < T + Size PROVE paper'[i] = CellAfter(c, i - T)
      OBVIOUS
    <3>1. video[i - T] = paper[i] /\ i \in Nat
      BY <1>0, <1>6
    <3>2. i = pos <=> i - T = cursor
      BY <1>1, <3>1
    <3> QED
      BY <1>0, <1>10, <2>3, <3>1, <3>2 DEF CellAfter
  <2>6. \A i \in Paper : i >= T + Size => paper'[i] = Blank
    <3> SUFFICES ASSUME NEW i \in Paper, i >= T + Size PROVE paper'[i] = Blank
      OBVIOUS
    <3>1. i # pos
      BY <1>0, <1>1, Sizes
    <3> QED
      BY <1>7, <2>3, <3>1
  <2> QED
    BY <1>0, <1>1, <1>4, <2>1, <2>2, <2>3, <2>4, <2>5, <2>6, Sizes DEF Typed, T
<1> QED
  BY <1>8, <1>9, <1>10
-----------------------------------------------------------------------------
(* Put keeps screen and paper together.                                    *)
LEMMA PutKeepsWindow ==
  ASSUME Typed, Ahead, ScreenIsWindow, NEW c \in Cells \cup {Newline, Backspace}, Put(c)
  PROVE  /\ video' \in [0 .. Size - 1 -> Cells] /\ cursor' \in Nat
         /\ pos' \in Nat /\ top' \in Nat /\ paper' \in [Paper -> Cells]
         /\ Ahead' /\ ScreenIsWindow'
<1> DEFINE T == top * CONSOLE_WIDTH
           Tn == top' * CONSOLE_WIDTH
<1>0. Size \in Nat /\ CONSOLE_WIDTH \in Nat /\ CONSOLE_WIDTH > 0 /\ Size >= CONSOLE_WIDTH
      /\ Paper \subseteq Nat /\ T \in Nat
  BY Sizes, RowStart DEF Paper, Typed
<1>1. console_putchar(c) /\ OnPaper(c) /\ cursor \in 0 .. Size - 1 /\ pos = T + cursor
  BY <1>0 DEF Put, ScreenIsWindow, Typed
<1>2. /\ Target(c) \in 0 .. Size
      /\ video' \in [0 .. Size - 1 -> Cells]
      /\ Target(c) < Size => /\ cursor' = Target(c)
                             /\ \A i \in 0 .. Size - 1 : video'[i] = CellAfter(c, i)
      /\ Target(c) >= Size =>
           /\ cursor' = Size - CONSOLE_WIDTH
           /\ \A i \in 0 .. Size - 1 :
                video'[i] = IF i < Size - CONSOLE_WIDTH THEN CellAfter(c, i + CONSOLE_WIDTH) ELSE Blank
  BY <1>1, PutcharFacts
<1>3. /\ pos' \in Nat /\ top' \in Nat /\ paper' \in [Paper -> Cells]
      /\ pos' = T + Target(c)
      /\ top' = IF Target(c) >= Size THEN top + 1 ELSE top
      /\ \A i \in Paper : i >= pos' => paper'[i] = Blank
      /\ \A i \in Paper : i >= T /\ i < T + Size => paper'[i] = CellAfter(c, i - T)
      /\ \A i \in Paper : i >= T + Size => paper'[i] = Blank
  BY <1>1, OnPaperFacts
<1>4. Ahead'
  BY <1>3 DEF Ahead
<1>5. \A i \in 0 .. Size - 1 : T + i \notin Paper => video[i] = Blank
  BY DEF ScreenIsWindow
<1>7. Tn = IF Target(c) >= Size THEN T + CONSOLE_WIDTH ELSE T
  BY <1>3, RowStart DEF Typed
<1> HIDE DEF T, Tn
<1>8. pos' \in Paper /\ (c \in Cells => pos \in Paper)
  <2>1. pos' \in Paper
    BY <1>1 DEF OnPaper
  <2>2. c \in Cells => pos' = pos + 1
    BY <1>1, ConsoleAssumption DEF OnPaper, Cells
  <2>3. \A p \in Nat : p + 1 \in Paper => p \in Paper
    <3>1. CONSOLE_WIDTH * MaxRows \in Nat
      BY ConsoleAssumption
    <3> QED
      BY <3>1 DEF Paper
  <2> QED
    BY <2>1, <2>2, <2>3 DEF Typed
<1>9. \A i \in 0 .. Size - 1 :
        CellAfter(c, i) = IF T + i \in Paper THEN paper'[T + i] ELSE Blank
  <2> SUFFICES ASSUME NEW i \in 0 .. Size - 1
               PROVE  CellAfter(c, i) = IF T + i \in Paper THEN paper'[T + i] ELSE Blank
    OBVIOUS
  <2>1. CASE T + i \in Paper
    <3>1. T + i >= T /\ T + i < T + Size /\ (T + i) - T = i
      BY <1>0
    <3> QED
      BY <1>3, <2>1, <3>1
  <2>2. CASE T + i \notin Paper
    <3>1. video[i] = Blank
      BY <1>5, <2>2
    <3>2. c \in Cells => i # cursor
      BY <1>0, <1>1, <1>8, <2>2
    <3> QED
      BY <2>2, <3>1, <3>2 DEF CellAfter
  <2> QED
    BY <2>1, <2>2
<1>10. CASE Target(c) < Size
  <2>1. ~(Target(c) >= Size) /\ Target(c) \in 0 .. Size - 1
    BY <1>0, <1>2, <1>10
  <2>2. Tn = T /\ cursor' = Target(c) /\ \A i \in 0 .. Size - 1 : video'[i] = CellAfter(c, i)
    BY <1>2, <1>7, <1>10, <2>1
  <2>3. cursor' \in 0 .. Size - 1 /\ cursor' = pos' - Tn
    BY <1>0, <1>3, <2>1, <2>2
  <2> QED
    BY <1>2, <1>3, <1>4, <1>9, <2>2, <2>3 DEF ScreenIsWindow, Tn
<1>11. CASE Target(c) >= Size
  <2>1. Target(c) = Size
    BY <1>0, <1>2, <1>11
  <2>2. /\ Tn = T + CONSOLE_WIDTH /\ cursor' = Size - CONSOLE_WIDTH
        /\ \A i \in 0 .. Size - 1 :
             video'[i] = IF i < Size - CONSOLE_WIDTH THEN CellAfter(c, i + CONSOLE_WIDTH) ELSE Blank
    BY <1>2, <1>7, <1>11
  <2>3. cursor' \in 0 .. Size - 1 /\ cursor' = pos' - Tn
    BY <1>0, <1>3, <2>1, <2>2
  <2>4. ASSUME NEW i \in 0 .. Size - 1
        PROVE  video'[i] = IF Tn + i \in Paper THEN paper'[Tn + i] ELSE Blank
    <3>1. Tn + i = T + (i + CONSOLE_WIDTH)
      BY <1>0, <2>2
    <3>2. CASE i < Size - CONSOLE_WIDTH
      <4>1. i + CONSOLE_WIDTH \in 0 .. Size - 1
        BY <1>0, <3>2
      <4> QED
        BY <1>9, <2>2, <3>1, <3>2, <4>1
    <3>3. CASE ~(i < Size - CONSOLE_WIDTH)
      <4>1. Tn + i >= T + Size
        BY <1>0, <3>1, <3>3
      <4> QED
        BY <1>3, <2>2, <3>3, <4>1
    <3> QED
      BY <3>2, <3>3
  <2> QED
    BY <1>2, <1>3, <1>4, <2>3, <2>4 DEF ScreenIsWindow, Tn
<1> QED
  BY <1>0, <1>2, <1>10, <1>11
-----------------------------------------------------------------------------
(* The line on the screen: it ends before the cursor and begins behind the *)
(* prompt.  Shown(b) says it of a line b.                                  *)
Shown(b) == /\ Len(b) < MaxLen
            /\ cursor > Len(b)
            /\ video[cursor - Len(b) - 1] = Prompt
            /\ \A i \in DOMAIN b : video[cursor - Len(b) + i - 1] = b[i]

(* Printing a character of the line at the cursor, with or without a       *)
(* scroll: the line and its prompt move up together.                       *)
LEMMA ShownGrows ==
  ASSUME Typed, cursor \in 0 .. Size - 1, Shown(buffer), NEW c \in Cells,
         Len(buffer) < MaxLen - 1, console_putchar(c), buffer' = Append(buffer, c)
  PROVE  Shown(buffer)'
<1> DEFINE n == Len(buffer)
           W == CONSOLE_WIDTH
<1>0. /\ Size \in Nat /\ W \in Nat /\ W > 0 /\ Size >= W /\ MaxLen \in Nat
      /\ MaxLen <= Size - W /\ n \in Nat /\ c # Newline /\ c # Backspace
  <2>1. n \in Nat
    BY DEF Typed
  <2>2. c # Newline /\ c # Backspace
    BY ConsoleAssumption DEF Cells
  <2> QED
    BY <2>1, <2>2, Sizes
<1>1. /\ Len(buffer') = n + 1 /\ DOMAIN buffer' = 1 .. n + 1 /\ DOMAIN buffer = 1 .. n
      /\ \A i \in 1 .. n : buffer'[i] = buffer[i]
      /\ buffer'[n + 1] = c
  BY DEF Typed
<1>2. Target(c) = cursor + 1 /\ \A i : CellAfter(c, i) = IF i = cursor THEN c ELSE video[i]
  BY <1>0 DEF Target, CellAfter
<1>3. /\ cursor > n /\ n < MaxLen - 1 /\ video[cursor - n - 1] = Prompt
      /\ \A i \in 1 .. n : video[cursor - n + i - 1] = buffer[i]
  BY <1>1 DEF Shown
<1> HIDE DEF n, W
<1>4. CASE cursor + 1 < Size
  <2>1. cursor' = cursor + 1 /\ \A i \in 0 .. Size - 1 : video'[i] = IF i = cursor THEN c ELSE video[i]
    BY <1>2, <1>4, PutcharFacts
  <2>2. video'[cursor' - (n + 1) - 1] = Prompt
    <3>1. cursor' - (n + 1) - 1 = cursor - n - 1 /\ cursor - n - 1 \in 0 .. Size - 1
          /\ cursor - n - 1 # cursor
      BY <1>0, <1>3, <2>1
    <3> QED
      BY <1>3, <2>1, <3>1
  <2>3. ASSUME NEW i \in 1 .. n + 1 PROVE video'[cursor' - (n + 1) + i - 1] = buffer'[i]
    <3>1. cursor' - (n + 1) + i - 1 = cursor - n + i - 1 /\ cursor - n + i - 1 \in 0 .. Size - 1
      BY <1>0, <1>3, <2>1
    <3>2. CASE i = n + 1
      <4>1. cursor - n + i - 1 = cursor
        BY <1>0, <3>2
      <4> QED
        BY <1>1, <2>1, <3>1, <3>2, <4>1
    <3>3. CASE i # n + 1
      <4>1. i \in 1 .. n /\ cursor - n + i - 1 # cursor
        BY <1>0, <3>3
      <4> QED
        BY <1>1, <1>3, <2>1, <3>1, <4>1
    <3> QED
      BY <3>2, <3>3
  <2> QED
    BY <1>0, <1>1, <1>3, <2>1, <2>2, <2>3 DEF Shown
<1>5. CASE ~(cursor + 1 < Size)
  <2>0. cursor + 1 = Size
    BY <1>0, <1>5
  <2>1. /\ cursor' = Size - W
        /\ \A i \in 0 .. Size - 1 :
             video'[i] = IF i < Size - W THEN CellAfter(c, i + W) ELSE Blank
    BY <1>0, <1>2, <2>0, PutcharFacts DEF W
  <2>2. \A i \in 0 .. Size - W - 1 : video'[i] = IF i + W = cursor THEN c ELSE video[i + W]
    <3> SUFFICES ASSUME NEW i \in 0 .. Size - W - 1
                 PROVE  video'[i] = IF i + W = cursor THEN c ELSE video[i + W]
      OBVIOUS
    <3>1. i \in 0 .. Size - 1 /\ i < Size - W
      BY <1>0
    <3> QED
      BY <1>2, <2>1, <3>1
  <2>3. video'[cursor' - (n + 1) - 1] = Prompt
    <3>1. /\ cursor' - (n + 1) - 1 \in 0 .. Size - W - 1
          /\ cursor' - (n + 1) - 1 + W = cursor - n - 1 /\ cursor - n - 1 # cursor
      BY <1>0, <1>3, <2>0, <2>1
    <3> QED
      BY <1>3, <2>2, <3>1
  <2>4. ASSUME NEW i \in 1 .. n + 1 PROVE video'[cursor' - (n + 1) + i - 1] = buffer'[i]
    <3>1. /\ cursor' - (n + 1) + i - 1 \in 0 .. Size - W - 1
          /\ cursor' - (n + 1) + i - 1 + W = cursor - n + i - 1
      BY <1>0, <1>3, <2>0, <2>1
    <3>2. CASE i = n + 1
      <4>1. cursor - n + i - 1 = cursor
        BY <1>0, <3>2
      <4> QED
        BY <1>1, <2>2, <3>1, <3>2, <4>1
    <3>3. CASE i # n + 1
      <4>1. i \in 1 .. n /\ cursor - n + i - 1 # cursor
        BY <1>0, <3>3
      <4> QED
        BY <1>1, <1>3, <2>2, <3>1, <4>1
    <3> QED
      BY <3>2, <3>3
  <2>5. cursor' > n + 1
    BY <1>0, <1>3, <2>1
  <2> QED
    BY <1>0, <1>1, <1>3, <2>3, <2>4, <2>5 DEF Shown
<1> QED
  BY <1>4, <1>5

(* A backspace takes the last character off screen and line.               *)
LEMMA ShownShrinks ==
  ASSUME Typed, cursor \in 0 .. Size - 1, Shown(buffer), Len(buffer) > 0,
         console_putchar(Backspace), buffer' = SubSeq(buffer, 1, Len(buffer) - 1)
  PROVE  Shown(buffer)'
<1> DEFINE n == Len(buffer)
<1>0. Size \in Nat /\ n \in Nat /\ n > 0 /\ MaxLen \in Nat /\ Newline # Backspace
  BY Sizes, ConsoleAssumption DEF Typed
<1>1. /\ Len(buffer') = n - 1 /\ DOMAIN buffer' = 1 .. n - 1 /\ DOMAIN buffer = 1 .. n
      /\ \A i \in 1 .. n - 1 : buffer'[i] = buffer[i]
  <2>1. buffer \in Seq(Cells) /\ DOMAIN buffer = 1 .. n
    BY DEF Typed
  <2>2. 1 \in 1 .. n + 1 /\ n - 1 \in 0 .. n
    BY <1>0
  <2> HIDE DEF n
  <2>3. buffer' = SubSeq(buffer, 1, n - 1)
    BY DEF n
  <2>4. /\ Len(SubSeq(buffer, 1, n - 1)) = n - 1 /\ DOMAIN SubSeq(buffer, 1, n - 1) = 1 .. n - 1
        /\ \A i \in 1 .. n - 1 : SubSeq(buffer, 1, n - 1)[i] = buffer[i]
    BY <1>0, <2>1, <2>2
  <2> QED
    BY <2>1, <2>3, <2>4
<1>2. /\ cursor > n /\ n < MaxLen /\ video[cursor - n - 1] = Prompt
      /\ \A i \in 1 .. n : video[cursor - n + i - 1] = buffer[i]
  BY <1>1 DEF Shown
<1> HIDE DEF n
<1>3. Target(Backspace) = cursor - 1 /\ \A i : i # cursor - 1 => CellAfter(Backspace, i) = video[i]
  BY <1>0, <1>2 DEF Target, CellAfter
<1>4. cursor' = cursor - 1 /\ \A i \in 0 .. Size - 1 : i # cursor - 1 => video'[i] = video[i]
  BY <1>0, <1>3, PutcharFacts
<1>5. video'[cursor' - (n - 1) - 1] = Prompt
  <2>1. /\ cursor' - (n - 1) - 1 = cursor - n - 1 /\ cursor - n - 1 \in 0 .. Size - 1
        /\ cursor - n - 1 # cursor - 1
    BY <1>0, <1>2, <1>4
  <2> QED
    BY <1>2, <1>4, <2>1
<1>6. ASSUME NEW i \in 1 .. n - 1 PROVE video'[cursor' - (n - 1) + i - 1] = buffer'[i]
  <2>1. /\ cursor' - (n - 1) + i - 1 = cursor - n + i - 1 /\ cursor - n + i - 1 \in 0 .. Size - 1
        /\ cursor - n + i - 1 # cursor - 1 /\ i \in 1 .. n
    BY <1>0, <1>2, <1>4
  <2> QED
    BY <1>1, <1>2, <1>4, <2>1
<1>7. Len(buffer') < MaxLen /\ cursor' > Len(buffer')
  BY <1>0, <1>1, <1>2, <1>4
<1> QED
  BY <1>1, <1>5, <1>6, <1>7 DEF Shown

(* The prompt is printed and an empty line begins.                         *)
LEMMA ShownBegins ==
  ASSUME Typed, cursor \in 0 .. Size - 1, console_putchar(Prompt), buffer' = <<>>
  PROVE  Shown(buffer)'
<1> DEFINE W == CONSOLE_WIDTH
<1>0. /\ Size \in Nat /\ W \in Nat /\ W > 0 /\ Size >= W /\ MaxLen \in Nat
      /\ MaxLen > 0 /\ MaxLen <= Size - W /\ Prompt # Newline /\ Prompt # Backspace /\ Prompt \in Cells
  BY Sizes, ConsoleAssumption DEF Cells
<1>1. /\ Target(Prompt) = cursor + 1
      /\ \A i : CellAfter(Prompt, i) = IF i = cursor THEN Prompt ELSE video[i]
  BY <1>0 DEF Target, CellAfter
<1>2. Len(buffer') = 0 /\ DOMAIN buffer' = {}
  OBVIOUS
<1>3. cursor' > 0 /\ video'[cursor' - 1] = Prompt
  <2>1. CASE cursor + 1 < Size
    <3>1. cursor' = cursor + 1 /\ video'[cursor] = Prompt
      BY <1>0, <1>1, <2>1, PutcharFacts
    <3> QED
      BY <3>1
  <2>2. CASE ~(cursor + 1 < Size)
    <3>0. cursor + 1 = Size
      BY <1>0, <2>2
    <3>1. /\ cursor' = Size - W
          /\ \A i \in 0 .. Size - 1 :
               video'[i] = IF i < Size - W THEN CellAfter(Prompt, i + W) ELSE Blank
      BY <1>0, <1>1, <3>0, PutcharFacts
    <3> HIDE DEF W
    <3>2. Size - W - 1 \in 0 .. Size - 1 /\ Size - W - 1 < Size - W /\ Size - W - 1 + W = cursor
      BY <1>0, <3>0
    <3> QED
      BY <1>0, <1>1, <3>1, <3>2
  <2> QED
    BY <2>1, <2>2
<1>4. cursor' - Len(buffer') - 1 = cursor' - 1 /\ Len(buffer') < MaxLen
  <2>1. cursor' \in Int
    BY <1>0, <1>1, PutcharFacts
  <2> QED
    BY <1>0, <1>2, <2>1
<1> QED
  BY <1>2, <1>3, <1>4 DEF Shown
-----------------------------------------------------------------------------
LEMMA InitIInv == ConsoleInit => IInv
<1> SUFFICES ASSUME ConsoleInit PROVE IInv
  OBVIOUS
<1>0. Size \in Nat /\ Size > 0 /\ CONSOLE_WIDTH \in Nat
  BY Sizes
<1>1. Typed /\ Ahead
  BY <1>0 DEF ConsoleInit, Typed, Ahead, Empty, Cells
<1>2. ScreenIsWindow
  <2>1. top * CONSOLE_WIDTH = 0
    BY <1>0 DEF ConsoleInit
  <2>2. cursor \in 0 .. Size - 1 /\ cursor = pos - top * CONSOLE_WIDTH
    BY <1>0, <2>1 DEF ConsoleInit
  <2>3. \A i \in 0 .. Size - 1 : video[i] = Blank
    BY DEF ConsoleInit, Empty
  <2>4. \A i \in Paper : paper[i] = Blank
    BY DEF ConsoleInit
  <2> QED
    BY <2>2, <2>3, <2>4 DEF ScreenIsWindow
<1>3. SeesTheLine
  BY DEF ConsoleInit, SeesTheLine
<1> QED
  BY <1>1, <1>2, <1>3 DEF IInv

LEMMA SeesIsShown == SeesTheLine <=> (reading => Shown(buffer))
  BY DEF SeesTheLine, Shown

LEMMA CursorOnScreen == ScreenIsWindow => cursor \in 0 .. Size - 1
  BY DEF ScreenIsWindow

(* Programs print only while no line is read.                              *)
LEMMA PrintKeeps ==
  ASSUME IInv, NEW c \in {Newline, Backspace, Blank} \cup {Char(k, FALSE) : k \in CharKeys},
         console_print(c)
  PROVE  IInv'
<1>1. c \in Cells \cup {Newline, Backspace}
  <2>1. CASE c \in {Newline, Backspace, Blank}
    BY <2>1 DEF Cells
  <2>2. CASE c \in {Char(k, FALSE) : k \in CharKeys}
    <3>1. PICK k \in CharKeys : c = [key |-> k, upper |-> FALSE]
      BY <2>2 DEF Char
    <3>2. c \in [key : CharKeys, upper : BOOLEAN]
      BY <3>1
    <3> QED
      BY <3>2 DEF Cells
  <2> QED
    BY <2>1, <2>2
<1>2. /\ video' \in [0 .. Size - 1 -> Cells] /\ cursor' \in Nat
      /\ pos' \in Nat /\ top' \in Nat /\ paper' \in [Paper -> Cells]
      /\ Ahead' /\ ScreenIsWindow'
  BY <1>1, PutKeepsWindow DEF IInv, console_print
<1>3. Typed' /\ SeesTheLine'
  BY <1>2 DEF IInv, Typed, SeesTheLine, console_print
<1> QED
  BY <1>2, <1>3 DEF IInv

LEMMA ClearKeeps == ASSUME IInv, console_clear PROVE IInv'
<1>0. Size \in Nat /\ Size > 0 /\ CONSOLE_WIDTH \in Nat
  BY Sizes
<1>1. Typed' /\ Ahead'
  BY <1>0 DEF console_clear, IInv, Typed, Ahead, Empty, Cells
<1>2. ScreenIsWindow'
  <2>1. top' * CONSOLE_WIDTH = 0
    BY <1>0 DEF console_clear
  <2>2. cursor' \in 0 .. Size - 1 /\ cursor' = pos' - top' * CONSOLE_WIDTH
    BY <1>0, <2>1 DEF console_clear
  <2>3. \A i \in 0 .. Size - 1 : video'[i] = Blank
    BY DEF console_clear, Empty
  <2>4. \A i \in Paper : paper'[i] = Blank
    BY DEF console_clear
  <2> QED
    BY <2>2, <2>3, <2>4 DEF ScreenIsWindow
<1>3. SeesTheLine'
  BY DEF console_clear, SeesTheLine
<1> QED
  BY <1>1, <1>2, <1>3 DEF IInv

LEMMA ReadLineKeeps == ASSUME IInv, ReadLine PROVE IInv'
<1>1. /\ video' \in [0 .. Size - 1 -> Cells] /\ cursor' \in Nat
      /\ pos' \in Nat /\ top' \in Nat /\ paper' \in [Paper -> Cells]
      /\ Ahead' /\ ScreenIsWindow'
  BY PutKeepsWindow DEF IInv, ReadLine, Cells
<1>2. Shown(buffer)'
  BY ShownBegins, CursorOnScreen DEF IInv, ReadLine, Put
<1>3. Typed'
  BY <1>1 DEF IInv, Typed, ReadLine
<1> QED
  BY <1>1, <1>2, <1>3 DEF IInv, SeesTheLine, Shown

LEMMA TypeKeyKeeps == ASSUME IInv, NEW k \in CharKeys, TypeKey(k) PROVE IInv'
<1> DEFINE c == Char(k, shift_pressed)
<1>1. c \in Cells
  BY DEF IInv, Typed, Char, Cells
<1> HIDE DEF c
<1>2. CASE HasRoom /\ buffer' = Append(buffer, c) /\ Put(c)
  <2>1. /\ video' \in [0 .. Size - 1 -> Cells] /\ cursor' \in Nat
        /\ pos' \in Nat /\ top' \in Nat /\ paper' \in [Paper -> Cells]
        /\ Ahead' /\ ScreenIsWindow'
    BY <1>1, <1>2, PutKeepsWindow DEF IInv
  <2>2. Shown(buffer)'
    BY <1>1, <1>2, ShownGrows, CursorOnScreen, SeesIsShown DEF IInv, TypeKey, Put, HasRoom
  <2>3. Typed'
    BY <1>1, <1>2, <2>1 DEF IInv, Typed, TypeKey
  <2> QED
    BY <2>1, <2>2, <2>3 DEF IInv, SeesTheLine, Shown
<1>3. CASE UNCHANGED <<buffer, screen, reference>>
  BY <1>3 DEF IInv, TypeKey, Typed, Ahead, ScreenIsWindow, SeesTheLine, screen, reference
<1> QED
  BY <1>2, <1>3 DEF TypeKey, c

LEMMA TypeBackspaceKeeps == ASSUME IInv, TypeBackspace PROVE IInv'
<1>1. CASE MayErase /\ buffer' = SubSeq(buffer, 1, Len(buffer) - 1) /\ Put(Backspace)
  <2>1. /\ video' \in [0 .. Size - 1 -> Cells] /\ cursor' \in Nat
        /\ pos' \in Nat /\ top' \in Nat /\ paper' \in [Paper -> Cells]
        /\ Ahead' /\ ScreenIsWindow'
    BY <1>1, PutKeepsWindow DEF IInv
  <2>2. Shown(buffer)'
    BY <1>1, ShownShrinks, CursorOnScreen, SeesIsShown DEF IInv, TypeBackspace, Put, MayErase
  <2>3. buffer' \in Seq(Cells)
    BY <1>1 DEF IInv, Typed, MayErase
  <2>4. Typed'
    BY <2>1, <2>3 DEF IInv, Typed, TypeBackspace
  <2> QED
    BY <2>1, <2>2, <2>4 DEF IInv, SeesTheLine, Shown
<1>2. CASE UNCHANGED <<buffer, screen, reference>>
  BY <1>2 DEF IInv, TypeBackspace, Typed, Ahead, ScreenIsWindow, SeesTheLine, screen, reference
<1> QED
  BY <1>1, <1>2 DEF TypeBackspace

LEMMA TypeEnterKeeps == ASSUME IInv, TypeEnter PROVE IInv'
<1>1. /\ video' \in [0 .. Size - 1 -> Cells] /\ cursor' \in Nat
      /\ pos' \in Nat /\ top' \in Nat /\ paper' \in [Paper -> Cells]
      /\ Ahead' /\ ScreenIsWindow'
  BY PutKeepsWindow DEF IInv, TypeEnter
<1>2. Typed' /\ SeesTheLine'
  BY <1>1 DEF IInv, Typed, SeesTheLine, TypeEnter
<1> QED
  BY <1>1, <1>2 DEF IInv

(* Shift keys and stuttering.                                              *)
LEMMA ScreenStaysKeeps ==
  ASSUME IInv, shift_pressed' \in BOOLEAN, UNCHANGED <<screen, buffer, reading, reference>>
  PROVE  IInv'
  BY DEF IInv, Typed, Ahead, ScreenIsWindow, SeesTheLine, screen, reference
-----------------------------------------------------------------------------
LEMMA NextKeeps == IInv /\ [ConsoleNext]_consoleVars => IInv'
<1> SUFFICES ASSUME IInv, [ConsoleNext]_consoleVars PROVE IInv'
  OBVIOUS
<1>1. CASE UNCHANGED consoleVars \/ ShiftDown \/ ShiftUp
  BY <1>1, ScreenStaysKeeps DEF consoleVars, ShiftDown, ShiftUp, IInv, Typed
<1> QED
  BY <1>1, PrintKeeps, ClearKeeps, ReadLineKeeps, TypeKeyKeeps, TypeBackspaceKeeps,
     TypeEnterKeeps DEF ConsoleNext

LEMMA IInvAlways == ConsoleSpec => []IInv
  BY InitIInv, NextKeeps, PTL DEF ConsoleSpec

(* What console_putchar, with its wrapping, newlines, erasing and          *)
(* scrolling, leaves in video memory is the last CONSOLE_HEIGHT rows of    *)
(* everything printed, and the cursor stays on the screen, for every size  *)
(* of screen.                                                              *)
THEOREM ScreenRight == ConsoleSpec => []ScreenIsWindow
<1>1. IInv => ScreenIsWindow
  BY DEF IInv
<1> QED
  BY <1>1, IInvAlways, PTL

(* While console_read_line runs, the cells between prompt and cursor are   *)
(* the buffer it will return, and the buffer has room for its terminator.  *)
THEOREM LineRight == ConsoleSpec => []SeesTheLine
<1>1. IInv => SeesTheLine
  BY DEF IInv
<1> QED
  BY <1>1, IInvAlways, PTL
-----------------------------------------------------------------------------
(* The shell.                                                              *)

Keyed == Letters \cup {Space}
LineChars == Keyed \cup {NUL}

LEMMA ShellSizes == /\ LineSize \in Nat \ {0} /\ MaxArgs \in Nat \ {0}
                    /\ Space # NUL /\ NUL \notin Letters /\ NUL \notin Keyed
  BY ShellAssumption DEF Keyed

(* The first place from p on that has property S, for a place that has it. *)
FirstIn(S, p) == Min({q \in Buffer : q >= p /\ q \in S})

LEMMA FirstInIs ==
  ASSUME NEW S, NEW p \in Nat, NEW e \in Buffer, e >= p, e \in S
  PROVE  LET f == FirstIn(S, p)
         IN f \in Buffer /\ f >= p /\ f <= e /\ f \in S /\ \A q \in Buffer : p <= q /\ q < f => q \notin S
<1> DEFINE T == {q \in Buffer : q >= p /\ q \in S}  f == Min(T)
<1>0. Buffer \subseteq Nat
  BY DEF Buffer
<1>1. T \in SUBSET Nat /\ e \in T
  BY <1>0
<1>2. f \in T /\ \A y \in T : f <= y
  BY <1>1, MinNat
<1>3. FirstIn(S, p) = f
  BY DEF FirstIn
<1> HIDE DEF f
<1>4. f \in Buffer /\ f >= p /\ f <= e /\ f \in S /\ f \in Nat
  BY <1>0, <1>1, <1>2
<1>5. ASSUME NEW q \in Buffer, p <= q, q < f PROVE q \notin S
  BY <1>0, <1>2, <1>4, <1>5
<1> QED
  BY <1>3, <1>4, <1>5

(* The string at a place of a buffer.                                      *)
StringAt(in, p) ==
  LET e == Min({q \in Buffer : q >= p /\ in[q] = NUL}) IN [i \in 1 .. e - p |-> in[p + i - 1]]

LEMMA StringAtIs ==
  ASSUME NEW in, NEW p \in Nat, NEW e \in Buffer, p <= e, in[e] = NUL,
         \A q \in Buffer : p <= q /\ q < e => in[q] # NUL
  PROVE  StringAt(in, p) = [i \in 1 .. e - p |-> in[p + i - 1]]
<1> DEFINE S == {q \in Buffer : in[q] = NUL}  f == FirstIn(S, p)
<1>1. f \in Buffer /\ f >= p /\ f <= e /\ f \in S
  BY FirstInIs
<1>2. f = e
  BY <1>1 DEF Buffer
<1>3. {q \in Buffer : q >= p /\ q \in S} = {q \in Buffer : q >= p /\ in[q] = NUL}
  OBVIOUS
<1>4. Min({q \in Buffer : q >= p /\ in[q] = NUL}) = e
  BY <1>2, <1>3, Zenon DEF FirstIn
<1> QED
  BY <1>4, Zenon DEF StringAt

(* Starts of words, and how many there are.                                *)
LEMMA StartsFinite ==
  ASSUME NEW l \in Seq(Keyed)
  PROVE  /\ Starts(l) \subseteq 1 .. Len(l) /\ IsFiniteSet(Starts(l))
         /\ Cardinality(Starts(l)) \in Nat
         /\ \A n \in Nat : /\ IsFiniteSet({j \in Starts(l) : j <= n})
                           /\ Rank(l, n) \in Nat /\ Rank(l, n) <= Cardinality(Starts(l))
<1>1. Starts(l) \subseteq 1 .. Len(l)
  BY DEF Starts
<1>2. IsFiniteSet(1 .. Len(l))
  BY FS_Interval
<1>3. IsFiniteSet(Starts(l))
  BY <1>1, <1>2, FS_Subset
<1>4. ASSUME NEW n \in Nat
      PROVE  /\ IsFiniteSet({j \in Starts(l) : j <= n})
             /\ Rank(l, n) \in Nat /\ Rank(l, n) <= Cardinality(Starts(l))
  <2> DEFINE T == {j \in Starts(l) : j <= n}
  <2>1. T \subseteq Starts(l)
    OBVIOUS
  <2> HIDE DEF T
  <2>2. IsFiniteSet(T) /\ Cardinality(T) <= Cardinality(Starts(l))
    BY <2>1, <1>3, FS_Subset
  <2>3. Cardinality(T) \in Nat
    BY <2>2, FS_CardinalityType
  <2> QED
    BY <2>2, <2>3, Zenon DEF Rank, T
<1> QED
  BY <1>1, <1>3, <1>4, FS_CardinalityType

(* Two starts have different ranks.                                        *)
LEMMA RankInjective ==
  ASSUME NEW l \in Seq(Keyed), NEW i \in Starts(l), NEW j \in Starts(l), i < j
  PROVE  Rank(l, i) < Rank(l, j)
<1> DEFINE A == {x \in Starts(l) : x <= i}  B == {x \in Starts(l) : x <= j}
<1>1. i \in Nat /\ j \in Nat /\ Starts(l) \subseteq Nat
  BY StartsFinite
<1>2. A \subseteq B /\ j \in B /\ j \notin A
  BY <1>1
<1>3. IsFiniteSet(B)
  BY <1>1, StartsFinite
<1> HIDE DEF A, B
<1>4. Cardinality(A) < Cardinality(B)
  <2>1. A # B /\ A \in SUBSET B
    BY <1>2
  <2>2. IsFiniteSet(A) /\ Cardinality(A) <= Cardinality(B) /\ Cardinality(A) # Cardinality(B)
    BY <2>1, <1>3, FS_Subset, Zenon
  <2>3. Cardinality(A) \in Nat /\ Cardinality(B) \in Nat
    BY <2>2, <1>3, FS_CardinalityType
  <2> QED
    BY <2>2, <2>3
<1> QED
  BY <1>4, Zenon DEF Rank, A, B

(* The word at the start of rank k.                                        *)
LEMMA WordIs ==
  ASSUME NEW l \in Seq(Keyed), NEW i \in Starts(l), NEW e, IsEnd(l, i, e)
  PROVE  /\ Rank(l, i) \in 1 .. Len(Words(l))
         /\ Words(l)[Rank(l, i)] = SubSeq(l, i, e)
         /\ Len(Words(l)) = Cardinality(Starts(l))
<1> DEFINE k == Rank(l, i)
           at(n) == CHOOSE x \in Starts(l) : Rank(l, x) = n
           end(x) == CHOOSE y \in x .. Len(l) : IsEnd(l, x, y)
<1>1. /\ i \in Nat /\ Starts(l) \subseteq Nat /\ Cardinality(Starts(l)) \in Nat
      /\ Len(l) \in Nat
  BY StartsFinite
<1>2. k \in Nat /\ k <= Cardinality(Starts(l))
  BY <1>1, StartsFinite
<1>3. k # 0
  <2> DEFINE T == {j \in Starts(l) : j <= i}
  <2>1. i \in T
    BY <1>1
  <2>2. IsFiniteSet(T)
    BY <1>1, StartsFinite
  <2> HIDE DEF T
  <2>3. Cardinality(T) # 0
    BY <2>1, <2>2, FS_EmptySet
  <2> QED
    BY <2>3, Zenon DEF Rank, T
<1>4. at(k) = i
  <2>1. at(k) \in Starts(l) /\ Rank(l, at(k)) = k
    BY Zenon
  <2> DEFINE x == at(k)
  <2>2. x \in Starts(l) /\ Rank(l, x) = k
    BY <2>1
  <2> HIDE DEF x
  <2>3. ~(x < i) /\ ~(i < x)
    <3>1. x < i => Rank(l, x) < Rank(l, i)
      BY <2>2, RankInjective
    <3>2. i < x => Rank(l, i) < Rank(l, x)
      BY <2>2, RankInjective
    <3> QED
      BY <3>1, <3>2, <2>2, <1>2
  <2>4. x = i
    BY <2>2, <2>3, <1>1
  <2> QED
    BY <2>4 DEF x
<1>5. end(i) = e
  <2>1. e \in i .. Len(l)
    BY Zenon DEF IsEnd
  <2>2. end(i) \in i .. Len(l) /\ IsEnd(l, i, end(i))
    BY <2>1, Zenon
  <2> DEFINE y == end(i)
  <2>3. y \in i .. Len(l) /\ IsEnd(l, i, y)
    BY <2>2
  <2> HIDE DEF y
  <2>4. /\ \A j \in i .. e : l[j] # Space
        /\ \A j \in i .. y : l[j] # Space
        /\ e = Len(l) \/ l[e + 1] = Space
        /\ y = Len(l) \/ l[y + 1] = Space
    BY <2>3, Zenon DEF IsEnd
  <2>5. ~(e < y)
    <3> SUFFICES ASSUME e < y PROVE FALSE
      OBVIOUS
    <3>1. e # Len(l) /\ e + 1 \in i .. y
      BY <2>1, <2>3, <1>1
    <3> QED
      BY <3>1, <2>4, Zenon
  <2>6. ~(y < e)
    <3> SUFFICES ASSUME y < e PROVE FALSE
      OBVIOUS
    <3>1. y # Len(l) /\ y + 1 \in i .. e
      BY <2>1, <2>3, <1>1
    <3> QED
      BY <3>1, <2>4, Zenon
  <2>7. y = e
    BY <2>1, <2>3, <2>5, <2>6, <1>1
  <2> QED
    BY <2>7 DEF y
<1> DEFINE w == [n \in 1 .. Cardinality(Starts(l)) |-> SubSeq(l, at(n), end(at(n)))]
<1>6. Words(l) = w
  BY Zenon DEF Words
<1> HIDE DEF k
<1>7. k \in 1 .. Cardinality(Starts(l))
  BY <1>1, <1>2, <1>3
<1>8. w[k] = SubSeq(l, at(k), end(at(k)))
  BY <1>7, Zenon
<1>9. w[k] = SubSeq(l, i, e)
  <2> HIDE DEF w
  <2> QED
    BY <1>4, <1>5, <1>8, Zenon
<1>10. Len(w) = Cardinality(Starts(l))
  <2> DEFINE g(n) == SubSeq(l, at(n), end(at(n)))
  <2> HIDE DEF g, at, end
  <2>1. Len([n \in 1 .. Cardinality(Starts(l)) |-> g(n)]) = Cardinality(Starts(l))
    BY <1>1
  <2> QED
    BY <2>1, Zenon DEF g
<1> HIDE DEF w
<1> QED
  BY <1>6, <1>7, <1>9, <1>10, Zenon DEF k

(* A word of the line that the tokenizer has cut out at place p: its       *)
(* characters are in the buffer, and a terminator behind them.             *)
CutOut(in, p, l, n) ==
  \E e \in Buffer :
    /\ p \in Buffer /\ p + 1 \in Starts(l) /\ IsEnd(l, p + 1, e)
    /\ \A q \in Buffer : p <= q /\ q < e => in[q] = l[q + 1]
    /\ in[e] = NUL /\ e <= n /\ (e < n \/ e = Len(l))

(* The argument is the word.                                               *)
LEMMA ArgumentIsWord ==
  ASSUME NEW l \in Seq(Keyed), Len(l) < LineSize, NEW in, NEW p, NEW n, CutOut(in, p, l, n)
  PROVE  /\ Rank(l, p + 1) \in 1 .. Len(Words(l))
         /\ StringAt(in, p) = Words(l)[Rank(l, p + 1)]
<1>1. PICK e \in Buffer :
        /\ p \in Buffer /\ p + 1 \in Starts(l) /\ IsEnd(l, p + 1, e)
        /\ \A q \in Buffer : p <= q /\ q < e => in[q] = l[q + 1]
        /\ in[e] = NUL
  BY Zenon DEF CutOut
<1>2. /\ Rank(l, p + 1) \in 1 .. Len(Words(l))
      /\ Words(l)[Rank(l, p + 1)] = SubSeq(l, p + 1, e)
  BY <1>1, WordIs, Zenon
<1>3. p \in Nat /\ e \in p + 1 .. Len(l) /\ Len(l) \in Nat /\ LineSize \in Nat
  <2>1. e \in p + 1 .. Len(l)
    BY <1>1, Zenon DEF IsEnd
  <2> QED
    BY <2>1, <1>1, ShellSizes DEF Buffer
<1>4. ASSUME NEW q \in Buffer, p <= q, q < e PROVE in[q] # NUL
  <2>1. q + 1 \in 1 .. Len(l)
    BY <1>3, <1>4 DEF Buffer
  <2>2. l[q + 1] \in Keyed
    BY <2>1
  <2> QED
    BY <2>2, <1>1, <1>4, ShellSizes, Zenon
<1>5. StringAt(in, p) = [i \in 1 .. e - p |-> in[p + i - 1]]
  <2>1. p <= e
    BY <1>3
  <2> QED
    BY <2>1, <1>1, <1>3, <1>4, StringAtIs
<1>6. SubSeq(l, p + 1, e) = [i \in 1 .. e - p |-> l[p + i]]
  <2>1. SubSeq(l, p + 1, e) \in Seq(Keyed) /\ Len(SubSeq(l, p + 1, e)) = e - p
    BY <1>3
  <2>2. \A i \in 1 .. e - p : SubSeq(l, p + 1, e)[i] = l[p + i]
    BY <1>3
  <2> DEFINE s == SubSeq(l, p + 1, e)
  <2>3. s \in Seq(Keyed) /\ Len(s) = e - p /\ \A i \in 1 .. e - p : s[i] = l[p + i]
    BY <2>1, <2>2
  <2> HIDE DEF s
  <2>4. s = [i \in 1 .. e - p |-> s[i]]
    BY <2>3
  <2>5. s = [i \in 1 .. e - p |-> l[p + i]]
    BY <2>3, <2>4
  <2> QED
    BY <2>5 DEF s
<1>7. \A i \in 1 .. e - p : in[p + i - 1] = l[p + i]
  <2> SUFFICES ASSUME NEW i \in 1 .. e - p PROVE in[p + i - 1] = l[p + i]
    OBVIOUS
  <2> DEFINE q == p + i - 1
  <2>1. q \in Buffer /\ p <= q /\ q < e /\ q + 1 = p + i
    BY <1>1, <1>3 DEF Buffer
  <2> HIDE DEF q
  <2>2. in[q] = l[q + 1]
    BY <2>1, <1>1, Zenon
  <2> QED
    BY <2>1, <2>2, Zenon DEF q
<1> QED
  BY <1>2, <1>5, <1>6, <1>7

(* The words up to n are those in av, and what is not read yet is as it    *)
(* was typed.                                                              *)
Scanned(in, av, n, l) ==
  /\ n \in 0 .. Len(l)
  /\ in[Len(l)] = NUL
  /\ \A q \in Buffer : n <= q /\ q < Len(l) => in[q] = l[q + 1]
  /\ n = 0 \/ n = Len(l) \/ l[n] = Space
  /\ Len(av) <= MaxArgs /\ Len(av) = Rank(l, n)
  /\ \A k \in 1 .. Len(av) : CutOut(in, av[k], l, n) /\ Rank(l, av[k] + 1) = k

ShellTyped ==
  /\ line \in Seq(Keyed) /\ Len(line) < LineSize
  /\ input \in [Buffer -> LineChars] /\ ptr \in Buffer /\ argv \in Seq(Buffer)

ArgsAre(in, av, l) ==
  /\ Len(av) = Min({Len(Words(l)), MaxArgs})
  /\ \A i \in DOMAIN av : StringAt(in, av[i]) = Words(l)[i]

LEMMA MinTwo ==
  ASSUME NEW x \in Nat, NEW y \in Nat
  PROVE  Min({x, y}) = IF x <= y THEN x ELSE y
<1> DEFINE m == Min({x, y})
<1>1. {x, y} \in SUBSET Nat /\ {x, y} # {}
  OBVIOUS
<1>2. m \in {x, y} /\ m <= x /\ m <= y
  BY <1>1, MinNat
<1> HIDE DEF m
<1>3. m = IF x <= y THEN x ELSE y
  BY <1>2
<1> QED
  BY <1>3 DEF m

(* When the tokenizer stops, the arguments are the words.                  *)
LEMMA ScanEnds ==
  ASSUME NEW l \in Seq(Keyed), Len(l) < LineSize, NEW in, NEW av \in Seq(Buffer), NEW n,
         Scanned(in, av, n, l),
         Len(av) >= MaxArgs \/ \A j \in Starts(l) : j <= n
  PROVE  ArgsAre(in, av, l)
<1>1. /\ n \in 0 .. Len(l) /\ Len(av) <= MaxArgs /\ Len(av) = Rank(l, n)
      /\ \A k \in 1 .. Len(av) : CutOut(in, av[k], l, n) /\ Rank(l, av[k] + 1) = k
  BY Zenon DEF Scanned
<1> DEFINE c == Cardinality(Starts(l))
<1>2. n \in Nat
  BY <1>1
<1>3. c \in Nat /\ Rank(l, n) \in Nat /\ Rank(l, n) <= c
  BY <1>2, StartsFinite
<1>4. (\A j \in Starts(l) : j <= n) => Rank(l, n) = c
  <2> SUFFICES ASSUME \A j \in Starts(l) : j <= n PROVE Rank(l, n) = c
    OBVIOUS
  <2>1. {j \in Starts(l) : j <= n} = Starts(l)
    OBVIOUS
  <2> QED
    BY <2>1, Zenon DEF Rank
<1>5. Len(Words(l)) = c
  <2> DEFINE at(k) == CHOOSE x \in Starts(l) : Rank(l, x) = k
             g(k) == SubSeq(l, at(k), CHOOSE y \in at(k) .. Len(l) : IsEnd(l, at(k), y))
  <2>1. Words(l) = [k \in 1 .. c |-> g(k)]
    BY Zenon DEF Words
  <2> HIDE DEF g, at, c
  <2>2. Len([k \in 1 .. c |-> g(k)]) = c
    BY <1>3
  <2> QED
    BY <2>1, <2>2, Zenon
<1> HIDE DEF c
<1>6. Len(av) = Min({Len(Words(l)), MaxArgs})
  <2>1. Min({c, MaxArgs}) = IF c <= MaxArgs THEN c ELSE MaxArgs
    BY <1>3, ShellSizes, MinTwo
  <2>2. Len(av) = IF c <= MaxArgs THEN c ELSE MaxArgs
    BY <1>1, <1>3, <1>4, ShellSizes
  <2> QED
    BY <2>1, <2>2, <1>5, Zenon
<1>7. ASSUME NEW k \in DOMAIN av PROVE StringAt(in, av[k]) = Words(l)[k]
  <2>1. k \in 1 .. Len(av)
    OBVIOUS
  <2>2. CutOut(in, av[k], l, n) /\ Rank(l, av[k] + 1) = k
    BY <2>1, <1>1, Zenon
  <2>3. StringAt(in, av[k]) = Words(l)[Rank(l, av[k] + 1)]
    BY <2>2, ArgumentIsWord, Zenon
  <2> QED
    BY <2>2, <2>3, Zenon
<1> QED
  BY <1>6, <1>7, Zenon DEF ArgsAre

SpaceFree(in, p) == Min({q \in Buffer : q >= p /\ in[q] # Space})
TokenEnd(in, p) == Min({q \in Buffer : q >= p /\ in[q] \in {Space, NUL}})

LEMMA SpaceFreeIs ==
  ASSUME NEW in, NEW p \in Nat, NEW e \in Buffer, e >= p, in[e] # Space
  PROVE  LET f == SpaceFree(in, p)
         IN /\ f \in Buffer /\ f >= p /\ f <= e /\ in[f] # Space
            /\ \A q \in Buffer : p <= q /\ q < f => in[q] = Space
<1> DEFINE S == {q \in Buffer : in[q] # Space}
<1>1. {q \in Buffer : q >= p /\ q \in S} = {q \in Buffer : q >= p /\ in[q] # Space}
  OBVIOUS
<1>2. FirstIn(S, p) = SpaceFree(in, p)
  BY <1>1, Zenon DEF FirstIn, SpaceFree
<1>3. e \in S
  OBVIOUS
<1> DEFINE f == FirstIn(S, p)
<1>4. f \in Buffer /\ f >= p /\ f <= e /\ f \in S /\ \A q \in Buffer : p <= q /\ q < f => q \notin S
  BY <1>3, FirstInIs
<1> HIDE DEF f
<1>5. in[f] # Space /\ \A q \in Buffer : p <= q /\ q < f => in[q] = Space
  BY <1>4
<1>6. f = SpaceFree(in, p)
  BY <1>2 DEF f
<1> QED
  BY <1>4, <1>5, <1>6, Zenon

LEMMA TokenEndIs ==
  ASSUME NEW in, NEW p \in Nat, NEW e \in Buffer, e >= p, in[e] \in {Space, NUL}
  PROVE  LET f == TokenEnd(in, p)
         IN /\ f \in Buffer /\ f >= p /\ f <= e /\ in[f] \in {Space, NUL}
            /\ \A q \in Buffer : p <= q /\ q < f => in[q] \notin {Space, NUL}
<1> DEFINE S == {q \in Buffer : in[q] \in {Space, NUL}}
<1>1. {q \in Buffer : q >= p /\ q \in S} = {q \in Buffer : q >= p /\ in[q] \in {Space, NUL}}
  OBVIOUS
<1>2. FirstIn(S, p) = TokenEnd(in, p)
  BY <1>1, Zenon DEF FirstIn, TokenEnd
<1>3. e \in S
  OBVIOUS
<1> DEFINE f == FirstIn(S, p)
<1>4. f \in Buffer /\ f >= p /\ f <= e /\ f \in S /\ \A q \in Buffer : p <= q /\ q < f => q \notin S
  BY <1>3, FirstInIs
<1> HIDE DEF f
<1>5. in[f] \in {Space, NUL} /\ \A q \in Buffer : p <= q /\ q < f => in[q] \notin {Space, NUL}
  BY <1>4
<1>6. f = TokenEnd(in, p)
  BY <1>2 DEF f
<1> QED
  BY <1>4, <1>5, <1>6, Zenon

(* The end of the line, before which nothing is a terminator.              *)
LEMMA LineEnd ==
  ASSUME NEW l \in Seq(Keyed), Len(l) < LineSize, NEW in, NEW av, NEW n, Scanned(in, av, n, l)
  PROVE  /\ Len(l) \in Buffer /\ n \in Buffer /\ n <= Len(l) /\ in[Len(l)] = NUL
         /\ \A q \in Buffer : n <= q /\ q < Len(l) => in[q] = l[q + 1] /\ in[q] # NUL
<1>1. n \in 0 .. Len(l) /\ in[Len(l)] = NUL /\ \A q \in Buffer : n <= q /\ q < Len(l) => in[q] = l[q + 1]
  BY Zenon DEF Scanned
<1>2. Len(l) \in Nat /\ LineSize \in Nat
  BY ShellSizes
<1>3. Len(l) \in Buffer /\ n \in Buffer /\ n <= Len(l)
  BY <1>1, <1>2 DEF Buffer
<1>4. ASSUME NEW q \in Buffer, n <= q, q < Len(l) PROVE in[q] # NUL
  <2>1. q + 1 \in 1 .. Len(l)
    BY <1>2, <1>4 DEF Buffer
  <2>2. l[q + 1] \in Keyed
    BY <2>1
  <2> QED
    BY <2>2, <1>1, <1>4, ShellSizes, Zenon
<1> QED
  BY <1>1, <1>3, <1>4, Zenon

(* Nothing but spaces is left.                                             *)
LEMMA NoWordLeft ==
  ASSUME NEW l \in Seq(Keyed), Len(l) < LineSize, NEW in, NEW av, NEW n, Scanned(in, av, n, l),
         in[n] = NUL \/ in[SpaceFree(in, n)] = NUL
  PROVE  \A j \in Starts(l) : j <= n
<1> DEFINE L == Len(l)
<1>1. /\ L \in Buffer /\ n \in Buffer /\ n <= L /\ in[L] = NUL
      /\ \A q \in Buffer : n <= q /\ q < L => in[q] = l[q + 1] /\ in[q] # NUL
  BY LineEnd, Zenon
<1>2. L \in Nat /\ n \in Nat /\ Space # NUL
  BY <1>1, ShellSizes DEF Buffer
<1>3. Starts(l) \subseteq 1 .. L
  BY StartsFinite
<1> HIDE DEF L
<1>4. CASE in[n] = NUL
  <2>1. ~(n < L)
    BY <1>1, <1>2, <1>4
  <2> QED
    BY <2>1, <1>2, <1>3, <1>1
<1>5. CASE in[SpaceFree(in, n)] = NUL
  <2> DEFINE s == SpaceFree(in, n)
  <2>1. s \in Buffer /\ s >= n /\ s <= L /\ \A q \in Buffer : n <= q /\ q < s => in[q] = Space
    BY <1>1, <1>2, SpaceFreeIs
  <2>2. in[s] = NUL
    BY <1>5
  <2> HIDE DEF s
  <2>3. s = L
    BY <1>1, <1>2, <2>1, <2>2 DEF Buffer
  <2> SUFFICES ASSUME NEW j \in Starts(l), n < j PROVE FALSE
    BY <1>2, <1>3
  <2>4. j - 1 \in Buffer /\ n <= j - 1 /\ j - 1 < L /\ (j - 1) + 1 = j
    <3>1. j \in 1 .. L /\ LineSize \in Nat /\ L < LineSize
      BY <1>3, ShellSizes DEF L
    <3> QED
      BY <3>1, <1>2 DEF Buffer
  <2>5. l[j] = Space
    BY <2>1, <2>3, <2>4, <1>1, Zenon
  <2> QED
    BY <2>5, Zenon DEF Starts
<1> QED
  BY <1>4, <1>5

(* A turn of the tokenizer that finds a word.                              *)
LEMMA WordFound ==
  ASSUME NEW l \in Seq(Keyed), Len(l) < LineSize, NEW in \in [Buffer -> LineChars],
         NEW av \in Seq(Buffer), NEW n, Scanned(in, av, n, l), Len(av) < MaxArgs,
         in[n] # NUL, in[SpaceFree(in, n)] # NUL
  PROVE  LET s == SpaceFree(in, n)
             e == TokenEnd(in, s)
             in2 == IF in[e] # NUL THEN [in EXCEPT ![e] = NUL] ELSE in
             n2 == IF in[e] # NUL THEN e + 1 ELSE e
         IN /\ Scanned(in2, Append(av, s), n2, l)
            /\ s \in Buffer /\ n2 \in Buffer /\ in2 \in [Buffer -> LineChars]
<1> DEFINE L == Len(l)
           s == SpaceFree(in, n)
           e == TokenEnd(in, s)
           in2 == IF in[e] # NUL THEN [in EXCEPT ![e] = NUL] ELSE in
           n2 == IF in[e] # NUL THEN e + 1 ELSE e
           av2 == Append(av, s)
<1>1. /\ L \in Buffer /\ n \in Buffer /\ n <= L /\ in[L] = NUL
      /\ \A q \in Buffer : n <= q /\ q < L => in[q] = l[q + 1] /\ in[q] # NUL
  BY LineEnd, Zenon
<1>2. Buffer \subseteq Nat /\ L \in Nat /\ n \in Nat /\ Space # NUL /\ LineSize \in Nat /\ L < LineSize
  BY <1>1, ShellSizes DEF Buffer
<1>3. Starts(l) \subseteq 1 .. L
  BY StartsFinite
<1>4. /\ n = 0 \/ n = L \/ l[n] = Space
      /\ Len(av) = Rank(l, n)
      /\ \A k \in 1 .. Len(av) : CutOut(in, av[k], l, n) /\ Rank(l, av[k] + 1) = k
  BY Zenon DEF Scanned
<1> HIDE DEF L
<1>5. n < L
  BY <1>1, <1>2
<1>6. /\ s \in Buffer /\ s >= n /\ s <= L /\ in[s] # Space
      /\ \A q \in Buffer : n <= q /\ q < s => in[q] = Space
  BY <1>1, <1>2, SpaceFreeIs
<1>7. in[s] # NUL
  OBVIOUS
<1> HIDE DEF s
<1>8. s < L /\ s \in Nat
  BY <1>1, <1>2, <1>6, <1>7
<1>9. /\ e \in Buffer /\ e >= s /\ e <= L /\ in[e] \in {Space, NUL}
      /\ \A q \in Buffer : s <= q /\ q < e => in[q] \notin {Space, NUL}
  BY <1>1, <1>8, <1>6, TokenEndIs
<1> HIDE DEF e
<1>10. e \in Nat /\ e > s
  <2>1. e # s
    BY <1>6, <1>7, <1>9
  <2> QED
    BY <2>1, <1>2, <1>8, <1>9
<1>11. /\ in[e] = NUL <=> e = L
       /\ e < L => in[e] = Space /\ l[e + 1] = Space
  <2>1. e < L => in[e] # NUL /\ in[e] = l[e + 1]
    BY <1>1, <1>2, <1>6, <1>8, <1>9, <1>10
  <2> QED
    BY <2>1, <1>1, <1>2, <1>9, <1>10
<1>12. ASSUME NEW q \in Buffer, s <= q, q < e
       PROVE  in[q] = l[q + 1] /\ l[q + 1] # Space
  BY <1>1, <1>2, <1>6, <1>8, <1>9, <1>10, <1>12
<1>13. ASSUME NEW j \in s + 1 .. e PROVE l[j] # Space
  <2>1. j - 1 \in Buffer /\ s <= j - 1 /\ j - 1 < e /\ (j - 1) + 1 = j
    BY <1>8, <1>9, <1>10, <1>2 DEF Buffer
  <2> QED
    BY <2>1, <1>12
<1>14. s + 1 \in Starts(l)
  <2>1. s + 1 \in 1 .. L /\ DOMAIN l = 1 .. L /\ s + 1 \in s + 1 .. e
    BY <1>8, <1>10, <1>2 DEF L
  <2>2. l[s + 1] # Space
    BY <2>1, <1>13
  <2>3. s + 1 = 1 \/ l[(s + 1) - 1] = Space
    <3>0. (s + 1) - 1 = s
      BY <1>8
    <3>1. CASE s = n
      <4>1. s = 0 \/ l[s] = Space
        BY <3>1, <1>4, <1>5, <1>2
      <4> QED
        BY <4>1, <3>0
    <3>2. CASE s # n
      <4>1. s - 1 \in Buffer /\ n <= s - 1 /\ s - 1 < s /\ s - 1 < L /\ (s - 1) + 1 = s
        BY <3>2, <1>6, <1>8, <1>2 DEF Buffer
      <4>2. l[s] = Space
        BY <4>1, <1>1, <1>6, Zenon
      <4> QED
        BY <4>2, <3>0
    <3> QED
      BY <3>1, <3>2
  <2> QED
    BY <2>1, <2>2, <2>3, Zenon DEF Starts
<1>15. ASSUME NEW j \in Starts(l), n < j PROVE j = s + 1 \/ j > n2
  <2> SUFFICES ASSUME j # s + 1, ~(j > n2) PROVE FALSE
    OBVIOUS
  <2>1. l[j] # Space /\ (j = 1 \/ l[j - 1] = Space)
    BY Zenon DEF Starts
  <2>2. j \in Nat /\ j <= L
    BY <1>2, <1>3
  <2>3. n2 \in Nat /\ n2 <= e + 1 /\ (e = L => n2 = e)
    BY <1>10, <1>11
  <2> HIDE DEF n2
  <2>4. CASE j <= s
    <3>1. j - 1 \in Buffer /\ n <= j - 1 /\ j - 1 < s /\ j - 1 < L /\ (j - 1) + 1 = j
      BY <2>2, <2>4, <1>2, <1>8, <1>15 DEF Buffer
    <3>2. l[j] = Space
      BY <3>1, <1>1, <1>6, Zenon
    <3> QED
      BY <3>2, <2>1
  <2>5. CASE j > s /\ j <= e
    <3>1. j - 1 \in s + 1 .. e /\ j # 1
      BY <2>2, <2>5, <1>8, <1>10
    <3> QED
      BY <3>1, <2>1, <1>13
  <2>6. CASE j > e
    <3>1. j = e + 1 /\ e < L
      BY <2>2, <2>3, <2>6, <1>2, <1>9, <1>10
    <3> QED
      BY <3>1, <2>1, <1>11
  <2> QED
    BY <2>2, <2>4, <2>5, <2>6, <1>8, <1>10
<1>16. /\ n2 \in 0 .. L /\ n2 \in Buffer /\ e <= n2 /\ (e < n2 \/ e = L)
       /\ n2 = L \/ l[n2] = Space
       /\ s + 1 <= n2 /\ n <= n2
  <2>1. CASE e = L
    BY <2>1, <1>1, <1>2, <1>5, <1>8, <1>9, <1>10, <1>11 DEF Buffer
  <2>2. CASE e < L
    <3>1. n2 = e + 1 /\ l[e + 1] = Space
      BY <2>2, <1>2, <1>11
    <3> QED
      BY <3>1, <2>2, <1>1, <1>2, <1>5, <1>6, <1>8, <1>10 DEF Buffer
  <2> QED
    BY <2>1, <2>2, <1>2, <1>9, <1>10
<1>17. /\ in2 \in [Buffer -> LineChars] /\ in2[e] = NUL
       /\ \A q \in Buffer : q # e => in2[q] = in[q]
  BY <1>9 DEF LineChars
<1>18. Rank(l, n2) = Rank(l, n) + 1 /\ Rank(l, s + 1) = Rank(l, n) + 1
  <2> DEFINE T == {j \in Starts(l) : j <= n}
  <2>1. IsFiniteSet(T) /\ Cardinality(T) = Rank(l, n) /\ Rank(l, n) \in Nat
    BY <1>2, StartsFinite DEF Rank
  <2>2. s + 1 \notin T
    BY <1>2, <1>6, <1>8
  <2>3. {j \in Starts(l) : j <= n2} = T \cup {s + 1}
    BY <1>2, <1>3, <1>14, <1>15, <1>16
  <2>4. {j \in Starts(l) : j <= s + 1} = T \cup {s + 1}
    BY <1>2, <1>3, <1>6, <1>8, <1>14, <1>15, <1>16
  <2> HIDE DEF T
  <2>5. Cardinality(T \cup {s + 1}) = Cardinality(T) + 1
    BY <2>1, <2>2, FS_AddElement
  <2> QED
    BY <2>1, <2>3, <2>4, <2>5, Zenon DEF Rank
<1> HIDE DEF n2, in2
<1>19. CutOut(in2, s, l, n2)
  <2>1. IsEnd(l, s + 1, e)
    <3>1. e \in s + 1 .. Len(l)
      BY <1>2, <1>8, <1>9, <1>10 DEF L
    <3>2. e = Len(l) \/ l[e + 1] = Space
      BY <1>2, <1>9, <1>10, <1>11 DEF L
    <3> QED
      BY <3>1, <3>2, <1>13, Zenon DEF IsEnd
  <2>2. ASSUME NEW q \in Buffer, s <= q, q < e PROVE in2[q] = l[q + 1]
    BY <2>2, <1>2, <1>10, <1>12, <1>17
  <2>3. e < n2 \/ e = Len(l)
    BY <1>16 DEF L
  <2> QED
    BY <2>1, <2>2, <2>3, <1>6, <1>9, <1>14, <1>16, <1>17, Zenon DEF CutOut
<1>20. ASSUME NEW k \in 1 .. Len(av) PROVE CutOut(in2, av[k], l, n2)
  <2> DEFINE p == av[k]
  <2>1. CutOut(in, p, l, n)
    BY <1>4, Zenon
  <2> HIDE DEF p
  <2>2. PICK f \in Buffer :
          /\ p \in Buffer /\ p + 1 \in Starts(l) /\ IsEnd(l, p + 1, f)
          /\ \A q \in Buffer : p <= q /\ q < f => in[q] = l[q + 1]
          /\ in[f] = NUL /\ f <= n /\ (f < n \/ f = Len(l))
    BY <2>1, Zenon DEF CutOut
  <2>3. f < n /\ f < n2 /\ f <= n2 /\ n <= e
    BY <2>2, <1>2, <1>5, <1>6, <1>8, <1>10, <1>16 DEF L
  <2>4. in2[f] = NUL
    BY <2>2, <2>3, <1>2, <1>10, <1>17
  <2>5. ASSUME NEW q \in Buffer, p <= q, q < f PROVE in2[q] = l[q + 1]
    BY <2>2, <2>3, <2>5, <1>2, <1>10, <1>17
  <2>6. CutOut(in2, p, l, n2)
    BY <2>2, <2>3, <2>4, <2>5, Zenon DEF CutOut
  <2> QED
    BY <2>6 DEF p
<1>21. /\ Len(av2) = Len(av) + 1 /\ av2[Len(av) + 1] = s /\ Len(av) \in Nat
       /\ \A k \in 1 .. Len(av) : av2[k] = av[k]
  BY <1>6
<1> HIDE DEF av2
<1>22. ASSUME NEW k \in 1 .. Len(av2) PROVE CutOut(in2, av2[k], l, n2) /\ Rank(l, av2[k] + 1) = k
  <2>1. CASE k = Len(av) + 1
    BY <2>1, <1>4, <1>18, <1>19, <1>21
  <2>2. CASE k # Len(av) + 1
    <3>1. k \in 1 .. Len(av)
      BY <2>2, <1>21
    <3> QED
      BY <3>1, <1>4, <1>20, <1>21
  <2> QED
    BY <2>1, <2>2
<1>23. /\ in2[Len(l)] = NUL
       /\ \A q \in Buffer : n2 <= q /\ q < Len(l) => in2[q] = l[q + 1]
  <2>1. in2[L] = NUL
    BY <1>1, <1>17
  <2>2. ASSUME NEW q \in Buffer, n2 <= q, q < L PROVE in2[q] = l[q + 1]
    <3>1. n <= q /\ q # e
      BY <2>2, <1>2, <1>10, <1>16
    <3> QED
      BY <3>1, <2>2, <1>1, <1>17
  <2> QED
    BY <2>1, <2>2 DEF L
<1>24. Len(av2) <= MaxArgs /\ Len(av2) = Rank(l, n2)
  BY <1>4, <1>18, <1>21, ShellSizes
<1>25. Scanned(in2, av2, n2, l)
  <2>1. n2 \in 0 .. Len(l) /\ (n2 = 0 \/ n2 = Len(l) \/ l[n2] = Space)
    BY <1>16 DEF L
  <2> QED
    BY <2>1, <1>22, <1>23, <1>24, Zenon DEF Scanned
<1> QED
  BY <1>6, <1>16, <1>17, <1>25, Zenon DEF n2, in2, av2, e, s

(* The tokenizer has cut out the words up to ptr, and a command runs with  *)
(* the words of the line.                                                  *)
ShellInv ==
  /\ ShellTyped
  /\ pc = "split" => Scanned(input, argv, ptr, line)
  /\ pc = "run" => ArgsAre(input, argv, line)
  /\ pc \in {"split", "run"} => ran = <<>>
  /\ ran # <<>> => ran = Meant(Words(line))

LEMMA PcsDiffer == /\ "read" # "split" /\ "read" # "run" /\ "split" # "run"
                   /\ "exit" # "split" /\ "exit" # "run" /\ "user" # "split" /\ "user" # "run"
  OBVIOUS

LEMMA ShellInitInv == ShellInit => ShellInv
<1> SUFFICES ASSUME ShellInit PROVE ShellInv
  OBVIOUS
<1>1. /\ input = [i \in Buffer |-> NUL] /\ ptr = 0 /\ argv = <<>>
      /\ pc = "read" /\ line = <<>> /\ ran = <<>>
  BY Zenon DEF ShellInit
<1>2. ShellTyped
  <2>1. input \in [Buffer -> LineChars]
    BY <1>1 DEF LineChars
  <2>2. 0 \in Buffer
    BY ShellSizes DEF Buffer
  <2>3. line \in Seq(Keyed) /\ Len(line) = 0 /\ argv \in Seq(Buffer)
    BY <1>1
  <2>4. Len(line) < LineSize
    BY <2>3, ShellSizes
  <2> QED
    BY <1>1, <2>1, <2>2, <2>3, <2>4, Zenon DEF ShellTyped
<1> QED
  BY <1>1, <1>2, PcsDiffer, Zenon DEF ShellInv

LEMMA ReadCommandInv == ASSUME ShellInv, NEW l \in Lines, ReadCommand(l) PROVE ShellInv'
<1>1. PICK n \in 0 .. LineSize - 1 : l \in [1 .. n -> Keyed]
  BY DEF Lines, Keyed
<1>2. l \in Seq(Keyed) /\ Len(l) = n /\ n \in Nat /\ n < LineSize /\ LineSize \in Nat
  BY <1>1, ShellSizes
<1> DEFINE in == [i \in Buffer |-> IF i < Len(l) THEN l[i + 1] ELSE IF i = Len(l) THEN NUL ELSE input[i]]
<1>3. line' = l /\ input' = in /\ ptr' = 0 /\ argv' = <<>> /\ pc' = "split" /\ ran' = <<>>
  BY Zenon DEF ReadCommand
<1>4. ASSUME NEW i \in Buffer
      PROVE  (IF i < Len(l) THEN l[i + 1] ELSE IF i = Len(l) THEN NUL ELSE input[i]) \in LineChars
  <2>1. i < Len(l) => l[i + 1] \in Keyed
    BY <1>1, <1>2 DEF Buffer
  <2>2. input[i] \in LineChars
    BY DEF ShellInv, ShellTyped
  <2> QED
    BY <2>1, <2>2 DEF LineChars
<1>5. in \in [Buffer -> LineChars]
  BY <1>4
<1>6. 0 \in Buffer /\ Len(l) \in Buffer
  BY <1>2 DEF Buffer
<1>7. in[Len(l)] = NUL /\ \A q \in Buffer : q < Len(l) => in[q] = l[q + 1]
  BY <1>2, <1>6
<1>8. Rank(l, 0) = 0
  <2>1. Starts(l) \subseteq 1 .. Len(l)
    BY <1>2, StartsFinite
  <2>2. {j \in Starts(l) : j <= 0} = {}
    BY <2>1
  <2> QED
    BY <2>2, FS_EmptySet DEF Rank
<1> HIDE DEF in
<1>9. Scanned(in, <<>>, 0, l)
  <2>1. 0 \in 0 .. Len(l) /\ Len(<<>>) = 0 /\ 0 <= MaxArgs /\ \A k \in 1 .. 0 : FALSE
    BY <1>2, ShellSizes
  <2> QED
    BY <2>1, <1>7, <1>8, Zenon DEF Scanned
<1>10. ShellTyped'
  <2>1. <<>> \in Seq(Buffer)
    OBVIOUS
  <2> QED
    BY <2>1, <1>2, <1>3, <1>5, <1>6, Zenon DEF ShellTyped
<1>11. Scanned(input', argv', ptr', line')
  BY <1>3, <1>9, Zenon
<1> QED
  BY <1>3, <1>10, <1>11, PcsDiffer, Zenon DEF ShellInv

(* The tokenizer stops.                                                    *)
LEMMA ScanEndsInv ==
  ASSUME ShellInv, pc = "split", pc' = "run", UNCHANGED <<input, argv, line, ran>>, ptr' = ptr,
         Len(argv) >= MaxArgs \/ input[ptr] = NUL \/ input[SpaceFree(input, ptr)] = NUL
  PROVE  ShellInv'
<1>1. /\ line \in Seq(Keyed) /\ Len(line) < LineSize
      /\ input \in [Buffer -> LineChars] /\ ptr \in Buffer /\ argv \in Seq(Buffer)
      /\ Scanned(input, argv, ptr, line) /\ ran = <<>>
  BY Zenon DEF ShellInv, ShellTyped
<1>2. Len(argv) >= MaxArgs \/ \A j \in Starts(line) : j <= ptr
  BY <1>1, NoWordLeft
<1>3. ArgsAre(input, argv, line)
  BY <1>1, <1>2, ScanEnds
<1>4. /\ input' = input /\ argv' = argv /\ line' = line /\ ran' = ran /\ ptr' = ptr
  OBVIOUS
<1>5. ArgsAre(input', argv', line')
  BY <1>3, <1>4, Zenon
<1>6. ShellTyped'
  BY <1>1, <1>4, Zenon DEF ShellTyped
<1> QED
  BY <1>1, <1>4, <1>5, <1>6, PcsDiffer, Zenon DEF ShellInv

LEMMA SplitEndsInv == ASSUME ShellInv, SplitEnds PROVE ShellInv'
<1>1. /\ pc = "split" /\ (input[ptr] = NUL \/ Len(argv) >= MaxArgs)
      /\ pc' = "run" /\ UNCHANGED <<input, ptr, argv, line, ran>>
  BY Zenon DEF SplitEnds
<1>2. UNCHANGED <<input, argv, line, ran>> /\ ptr' = ptr
  BY <1>1
<1> QED
  BY <1>1, <1>2, ScanEndsInv

LEMMA SplitInv == ASSUME ShellInv, Split PROVE ShellInv'
<1> DEFINE start == SpaceFree(input, ptr)  end == TokenEnd(input, start)
<1>1. SkipSpaces(ptr) = start /\ EndOfToken(start) = end
  BY Zenon DEF SkipSpaces, EndOfToken, SpaceFree, TokenEnd
<1>2. pc = "split" /\ input[ptr] # NUL /\ Len(argv) < MaxArgs /\ line' = line /\ ran' = ran
  BY Zenon DEF Split
<1>3. \/ /\ input[start] = NUL
         /\ pc' = "run" /\ input' = input /\ ptr' = ptr /\ argv' = argv
      \/ /\ input[start] # NUL
         /\ argv' = Append(argv, start)
         /\ input' = IF input[end] # NUL THEN [input EXCEPT ![end] = NUL] ELSE input
         /\ ptr' = IF input[end] # NUL THEN end + 1 ELSE end
         /\ pc' = pc
  <2> HIDE DEF start, end
  <2> QED
    BY <1>1, Zenon DEF Split, Terminate
<1>4. /\ line \in Seq(Keyed) /\ Len(line) < LineSize
      /\ input \in [Buffer -> LineChars] /\ ptr \in Buffer /\ argv \in Seq(Buffer)
      /\ Scanned(input, argv, ptr, line) /\ ran = <<>>
  BY <1>2, Zenon DEF ShellInv, ShellTyped
<1>5. CASE /\ input[start] = NUL
           /\ pc' = "run" /\ input' = input /\ ptr' = ptr /\ argv' = argv
  <2>1. UNCHANGED <<input, argv, line, ran>>
    BY <1>2, <1>5
  <2> QED
    BY <2>1, <1>2, <1>5, ScanEndsInv
<1>6. CASE /\ input[start] # NUL
           /\ argv' = Append(argv, start)
           /\ input' = IF input[end] # NUL THEN [input EXCEPT ![end] = NUL] ELSE input
           /\ ptr' = IF input[end] # NUL THEN end + 1 ELSE end
           /\ pc' = pc
  <2> DEFINE in2 == IF input[end] # NUL THEN [input EXCEPT ![end] = NUL] ELSE input
             n2 == IF input[end] # NUL THEN end + 1 ELSE end
  <2>1. /\ Scanned(in2, Append(argv, start), n2, line)
        /\ start \in Buffer /\ n2 \in Buffer /\ in2 \in [Buffer -> LineChars]
    BY <1>2, <1>4, <1>6, WordFound
  <2>2. input' = in2 /\ ptr' = n2 /\ argv' = Append(argv, start) /\ pc' = "split"
    BY <1>2, <1>6, Zenon
  <2> HIDE DEF in2, n2, start
  <2>3. argv' \in Seq(Buffer)
    BY <2>1, <2>2, <1>4
  <2>4. Scanned(input', argv', ptr', line')
    BY <2>1, <2>2, <1>2, Zenon
  <2>5. ShellTyped'
    BY <2>1, <2>2, <2>3, <1>2, <1>4, Zenon DEF ShellTyped
  <2> QED
    BY <2>2, <2>4, <2>5, <1>2, <1>4, PcsDiffer, Zenon DEF ShellInv
<1> QED
  BY <1>3, <1>5, <1>6, Zenon

LEMMA CStringIs == \A p : CString(p) = StringAt(input, p)
  BY Zenon DEF CString, StringAt

LEMMA WordsTyped ==
  ASSUME NEW l \in Seq(Keyed)
  PROVE  /\ Len(Words(l)) = Cardinality(Starts(l)) /\ Len(Words(l)) \in Nat
         /\ Words(l) = <<>> <=> Len(Words(l)) = 0
<1> DEFINE c == Cardinality(Starts(l))
           at(k) == CHOOSE x \in Starts(l) : Rank(l, x) = k
           g(k) == SubSeq(l, at(k), CHOOSE y \in at(k) .. Len(l) : IsEnd(l, at(k), y))
<1>1. Words(l) = [k \in 1 .. c |-> g(k)]
  BY Zenon DEF Words
<1>2. c \in Nat
  BY StartsFinite
<1> HIDE DEF g, at, c
<1> DEFINE w == [k \in 1 .. c |-> g(k)]
<1>3. Len(w) = c /\ DOMAIN w = 1 .. c
  BY <1>2
<1>4. c = 0 => w = <<>>
  OBVIOUS
<1>5. w = <<>> => c = 0
  <2>1. Len(<<>>) = 0
    OBVIOUS
  <2> QED
    BY <2>1, <1>3, Zenon
<1> HIDE DEF w
<1>6. Words(l) = w
  BY <1>1, Zenon DEF w
<1> QED
  BY <1>2, <1>3, <1>4, <1>5, <1>6, Zenon DEF c

LEMMA RunInv == ASSUME ShellInv, Run PROVE ShellInv'
<1> DEFINE w == Words(line)
<1>1. pc = "run" /\ input' = input /\ ptr' = ptr /\ argv' = argv /\ line' = line
  BY Zenon DEF Run
<1>2. ShellTyped /\ ArgsAre(input, argv, line) /\ line \in Seq(Keyed) /\ argv \in Seq(Buffer)
  BY <1>1, Zenon DEF ShellInv, ShellTyped
<1>3. Len(w) \in Nat /\ (w = <<>> <=> Len(w) = 0)
  BY <1>2, WordsTyped, Zenon
<1>4. Len(argv) = Min({Len(w), MaxArgs}) /\ \A i \in DOMAIN argv : StringAt(input, argv[i]) = w[i]
  BY <1>2, Zenon DEF ArgsAre
<1> HIDE DEF w
<1>5. argv = <<>> <=> w = <<>>
  <2>1. Len(argv) = IF Len(w) <= MaxArgs THEN Len(w) ELSE MaxArgs
    BY <1>3, <1>4, ShellSizes, MinTwo
  <2>2. Len(argv) = 0 <=> Len(w) = 0
    BY <2>1, <1>3, ShellSizes
  <2>3. Len(argv) = 0 <=> argv = <<>>
    BY <1>2
  <2> QED
    BY <2>2, <2>3, <1>3, Zenon
<1>6. argv # <<>> => CString(argv[1]) = w[1]
  <2>1. argv # <<>> => 1 \in DOMAIN argv
    BY <1>2
  <2> QED
    BY <2>1, <1>4, CStringIs, Zenon
<1> DEFINE named == {i \in DOMAIN Apps : Apps[i] = w[1]}
<1>7. argv # <<>> => Matching = named /\ (Matches(Exit) <=> w[1] = Exit)
  BY <1>6, Zenon DEF Matching, Matches
<1>8. ran' = Meant(w) /\ pc' \notin {"split", "run"}
  <2> HIDE DEF named
  <2>0. /\ w = <<>> => Meant(w) = <<"nothing">>
        /\ w # <<>> /\ w[1] = Exit => Meant(w) = <<"exit">>
        /\ w # <<>> /\ w[1] # Exit /\ named # {} => Meant(w) = <<"app", Min(named)>>
        /\ w # <<>> /\ w[1] # Exit /\ named = {} /\ w[1] \in Programs => Meant(w) = <<"program">>
        /\ w # <<>> /\ w[1] # Exit /\ named = {} /\ w[1] \notin Programs => Meant(w) = <<"not found">>
    BY Zenon DEF Meant, named
  <2>1. CASE argv = <<>> /\ pc' = "read" /\ ran' = <<"nothing">>
    BY <2>0, <2>1, <1>5, PcsDiffer, Zenon
  <2>2. CASE argv # <<>> /\ Matches(Exit) /\ pc' = "exit" /\ ran' = <<"exit">>
    BY <2>0, <2>2, <1>5, <1>7, PcsDiffer, Zenon
  <2>3. CASE argv # <<>> /\ ~Matches(Exit) /\ Matching # {} /\ pc' = "read" /\ ran' = <<"app", Min(Matching)>>
    BY <2>0, <2>3, <1>5, <1>7, PcsDiffer, Zenon
  <2>4. CASE /\ argv # <<>> /\ ~Matches(Exit) /\ Matching = {}
             /\ IF CString(argv[1]) \in Programs
                THEN pc' = "user" /\ ran' = <<"program">>
                ELSE pc' = "read" /\ ran' = <<"not found">>
    <3>1. CASE w[1] \in Programs
      BY <3>1, <2>0, <2>4, <1>5, <1>6, <1>7, PcsDiffer, Zenon
    <3>2. CASE w[1] \notin Programs
      BY <3>2, <2>0, <2>4, <1>5, <1>6, <1>7, PcsDiffer, Zenon
    <3> QED
      BY <3>1, <3>2
  <2> QED
    BY <2>1, <2>2, <2>3, <2>4, Zenon DEF Run
<1>9. ShellTyped'
  BY <1>1, <1>2, Zenon DEF ShellTyped
<1> QED
  BY <1>1, <1>8, <1>9, Zenon DEF ShellInv, w

(* For every size of the buffer, number of arguments and table of          *)
(* commands: the loop of shell_run cuts a line into its words, whatever    *)
(* earlier lines left in the buffer, and runs what the first word names.   *)
THEOREM TypedCommandsRun == ShellSpec => []RunsWhatWasTyped
<1>1. ShellInit => ShellInv
  BY ShellInitInv
<1>2. ShellInv /\ [ShellNext]_shellVars => ShellInv'
  <2> SUFFICES ASSUME ShellInv, [ShellNext]_shellVars PROVE ShellInv'
    OBVIOUS
  <2>1. ASSUME NEW l \in Lines, ReadCommand(l) PROVE ShellInv'
    BY <2>1, ReadCommandInv
  <2>2. CASE Split
    BY <2>2, SplitInv
  <2>3. CASE SplitEnds
    BY <2>3, SplitEndsInv
  <2>4. CASE Run
    BY <2>4, RunInv
  <2>5. CASE UNCHANGED shellVars
    <3>1. /\ input' = input /\ ptr' = ptr /\ argv' = argv /\ pc' = pc /\ line' = line /\ ran' = ran
      BY <2>5 DEF shellVars
    <3> QED
      BY <3>1, Zenon DEF ShellInv, ShellTyped
  <2> QED
    BY <2>1, <2>2, <2>3, <2>4, <2>5, Zenon DEF ShellNext, Stopped
<1>3. ShellInv => RunsWhatWasTyped
  BY CStringIs, Zenon DEF ShellInv, ArgsAre, RunsWhatWasTyped
<1> QED
  BY <1>1, <1>2, <1>3, PTL DEF ShellSpec
-----------------------------------------------------------------------------
(* The calculator and the numbers it and %d of console_printf print: what  *)
(* itoa writes and atoi reads.                                             *)

Digits == 0 .. 9

LEMMA IntSizes ==
  /\ -INT_MIN \in Nat /\ INT_MIN \in Int /\ IntMod \in Nat \ {0} /\ IntMod = 2 * (-INT_MIN) /\ -INT_MIN > 10
  /\ Ints = INT_MIN .. -INT_MIN - 1 /\ Minus \notin Digits
  /\ Numbers \subseteq 0 .. -INT_MIN - 1
<1> DEFINE h == IntMod \div 2
<1>1. IntMod \in Nat /\ IntMod % 2 = 0 /\ IntMod > 20
  BY NumeralsAssumption
<1>2. h \in Nat /\ IntMod = 2 * h + (IntMod % 2)
  BY <1>1, DivMod
<1> HIDE DEF h
<1>3. IntMod = 2 * h /\ h > 10 /\ -(-h) = h /\ -h \in Int
  BY <1>1, <1>2
<1>4. INT_MIN = -h
  BY DEF INT_MIN, h
<1>5. Minus \notin Digits
  BY NumeralsAssumption DEF Digits
<1>6. Numbers \subseteq 0 .. h - 1
  BY NumeralsAssumption DEF h
<1> QED
  BY <1>1, <1>2, <1>3, <1>4, <1>5, <1>6 DEF Ints

(* An int is itself.                                                       *)
LEMMA ToIntIs == ASSUME NEW n \in Ints PROVE ToInt(n) = n
<1> DEFINE x == n - INT_MIN
<1>1. x \in Nat /\ x < IntMod /\ x + INT_MIN = n /\ n \in Int
  BY IntSizes
<1> HIDE DEF x
<1>2. x = IntMod * 0 + x /\ IntMod \in Nat \ {0}
  BY <1>1, IntSizes
<1>3. x % IntMod = x
  BY <1>1, <1>2, DivUnique
<1>4. ToInt(n) = (x % IntMod) + INT_MIN
  BY DEF ToInt, x
<1> QED
  BY <1>1, <1>3, <1>4

LEMMA ToIntInts == ASSUME NEW n \in Int, n >= INT_MIN PROVE ToInt(n) \in Ints
<1> DEFINE x == n - INT_MIN
<1>1. x \in Nat
  BY IntSizes
<1>2. x % IntMod \in Nat /\ x % IntMod < IntMod
  BY <1>1, IntSizes, DivMod
<1> HIDE DEF x
<1>3. ToInt(n) = (x % IntMod) + INT_MIN
  BY DEF ToInt, x
<1> DEFINE r == x % IntMod
<1> HIDE DEF r
<1>4. r \in Nat /\ r < IntMod
  BY <1>2 DEF r
<1>5. r + INT_MIN \in Ints
  BY <1>4, IntSizes
<1> QED
  BY <1>3, <1>5 DEF r

(* The recursion of the digits, unfolded.                                  *)
Follows(f, n) == \A k \in 0 .. n : f[k] = IF k = 0 THEN <<>> ELSE <<k % 10>> \o f[k \div 10]
IsDigits(f, n) == f \in [0 .. n -> Seq(Digits)] /\ Follows(f, n)

LEMMA TenFacts ==
  ASSUME NEW k \in Nat \ {0}
  PROVE  /\ k % 10 \in Digits /\ k \div 10 \in 0 .. k - 1 /\ k = 10 * (k \div 10) + (k % 10)
  BY DEF Digits

LEMMA DigitsExist == \A n \in Nat : \E f : IsDigits(f, n)
<1> DEFINE Bad == {n \in Nat : ~\E f : IsDigits(f, n)}
<1> SUFFICES ASSUME Bad # {} PROVE FALSE
  OBVIOUS
<1>1. Bad \in SUBSET Nat
  OBVIOUS
<1> DEFINE m == Min(Bad)
<1>2. m \in Bad /\ \A y \in Bad : m <= y
  BY <1>1, MinNat
<1> HIDE DEF m
<1>3. m \in Nat /\ ~\E f : IsDigits(f, m)
  BY <1>2
<1>4. CASE m = 0
  <2> DEFINE f == [k \in 0 .. 0 |-> <<>>]
  <2>1. f \in [0 .. 0 -> Seq(Digits)] /\ \A k \in 0 .. 0 : k = 0 /\ f[k] = <<>>
    OBVIOUS
  <2> HIDE DEF f
  <2>2. IsDigits(f, 0)
    BY <2>1 DEF IsDigits, Follows
  <2> QED
    BY <2>2, <1>3, <1>4
<1>5. CASE m # 0
  <2>1. m - 1 \in Nat /\ ~(m <= m - 1) /\ m \in Nat \ {0}
    BY <1>3, <1>5
  <2>2. PICK f : IsDigits(f, m - 1)
    BY <1>2, <2>1
  <2>3. /\ f \in [0 .. m - 1 -> Seq(Digits)]
        /\ \A k \in 0 .. m - 1 : f[k] = IF k = 0 THEN <<>> ELSE <<k % 10>> \o f[k \div 10]
    BY <2>2, Zenon DEF IsDigits, Follows
  <2> DEFINE long == <<m % 10>> \o f[m \div 10]
             g == [k \in 0 .. m |-> IF k = m THEN long ELSE f[k]]
  <2>4. m % 10 \in Digits /\ m \div 10 \in 0 .. m - 1
    BY <2>1, TenFacts
  <2>5. long \in Seq(Digits)
    <3>1. f[m \div 10] \in Seq(Digits)
      BY <2>3, <2>4
    <3>2. <<m % 10>> \in Seq(Digits)
      BY <2>4
    <3> QED
      BY <3>1, <3>2, ConcatProperties
  <2>6. \A k \in 0 .. m : k # m => k \in 0 .. m - 1
    BY <1>3
  <2>7. g \in [0 .. m -> Seq(Digits)]
    <3> HIDE DEF long
    <3> QED
      BY <2>3, <2>5, <2>6
  <2>8. ASSUME NEW k \in 0 .. m PROVE g[k] = IF k = 0 THEN <<>> ELSE <<k % 10>> \o g[k \div 10]
    <3>1. CASE k = m
      <4>1. g[m] = long /\ m # 0 /\ m \in 0 .. m
        BY <1>3, <1>5
      <4>2. m \div 10 \in 0 .. m /\ m \div 10 # m
        BY <2>1, <2>4
      <4>3. g[m \div 10] = f[m \div 10]
        BY <4>2
      <4> QED
        BY <4>1, <4>3, <3>1, Zenon
    <3>2. CASE k # m
      <4>1. k \in 0 .. m - 1 /\ g[k] = f[k]
        BY <2>6, <3>2
      <4>2. f[k] = IF k = 0 THEN <<>> ELSE <<k % 10>> \o f[k \div 10]
        BY <4>1, <2>3, Zenon
      <4>3. k # 0 => g[k \div 10] = f[k \div 10]
        <5> SUFFICES ASSUME k # 0 PROVE g[k \div 10] = f[k \div 10]
          OBVIOUS
        <5>1. k \in Nat \ {0}
          OBVIOUS
        <5>2. k \div 10 \in 0 .. k - 1
          BY <5>1, TenFacts
        <5>3. k \div 10 \in 0 .. m /\ k \div 10 # m
          BY <5>2, <4>1, <1>3
        <5> QED
          BY <5>3
      <4> QED
        BY <4>1, <4>2, <4>3, Zenon
    <3> QED
      BY <3>1, <3>2
  <2> HIDE DEF g
  <2>9. IsDigits(g, m)
    BY <2>7, <2>8, Zenon DEF IsDigits, Follows
  <2> QED
    BY <2>9, <1>3
<1> QED
  BY <1>4, <1>5

(* Two of them agree where both are defined.                               *)
LEMMA DigitsAgree ==
  ASSUME NEW m \in Nat, NEW n \in Nat, NEW f, NEW g, Follows(f, m), Follows(g, n)
  PROVE  \A k \in Nat : k <= m /\ k <= n => f[k] = g[k]
<1> DEFINE Bad == {k \in Nat : k <= m /\ k <= n /\ f[k] # g[k]}
<1> SUFFICES ASSUME Bad # {} PROVE FALSE
  OBVIOUS
<1>1. Bad \in SUBSET Nat
  OBVIOUS
<1> DEFINE b == Min(Bad)
<1>2. b \in Bad /\ \A y \in Bad : b <= y
  BY <1>1, MinNat
<1> HIDE DEF b
<1>3. b \in 0 .. m /\ b \in 0 .. n /\ f[b] # g[b] /\ b \in Nat
  BY <1>2
<1>4. /\ f[b] = IF b = 0 THEN <<>> ELSE <<b % 10>> \o f[b \div 10]
      /\ g[b] = IF b = 0 THEN <<>> ELSE <<b % 10>> \o g[b \div 10]
  BY <1>3, Zenon DEF Follows
<1>5. b # 0
  BY <1>3, <1>4, Zenon
<1>6. b \div 10 \in 0 .. b - 1
  BY <1>3, <1>5, TenFacts
<1> DEFINE c == b \div 10
<1>7. c \in Nat /\ c <= m /\ c <= n /\ ~(b <= c)
  BY <1>3, <1>6
<1>8. f[c] = g[c]
  BY <1>2, <1>7
<1> QED
  BY <1>3, <1>4, <1>5, <1>8, Zenon

LEMMA LowFirstUnfold ==
  /\ LowFirst(0) = <<>>
  /\ \A n \in Nat : LowFirst(n) \in Seq(Digits)
  /\ \A n \in Nat \ {0} : LowFirst(n) = <<n % 10>> \o LowFirst(n \div 10)
<1> DEFINE Eq(f, n) == f = [k \in 0 .. n |-> IF k = 0 THEN <<>> ELSE <<k % 10>> \o f[k \div 10]]
           F(n) == CHOOSE f : Eq(f, n)
<1>1. ASSUME NEW n \in Nat
      PROVE  /\ LowFirst(n) = F(n)[n] /\ F(n)[n] \in Seq(Digits)
             /\ \A k \in 0 .. n : F(n)[k] = IF k = 0 THEN <<>> ELSE <<k % 10>> \o F(n)[k \div 10]
  <2>1. PICK g : IsDigits(g, n)
    BY DigitsExist
  <2>2. /\ g \in [0 .. n -> Seq(Digits)]
        /\ \A k \in 0 .. n : g[k] = IF k = 0 THEN <<>> ELSE <<k % 10>> \o g[k \div 10]
    BY <2>1, Zenon DEF IsDigits, Follows
  <2>3. Eq(g, n)
    BY <2>2
  <2>4. Eq(F(n), n)
    <3> DEFINE Q(f) == Eq(f, n)
    <3>1. Q(g)
      BY <2>3
    <3> HIDE DEF Eq
    <3> QED
      BY <3>1, Zenon
  <2>5. LowFirst(n) = F(n)[n]
    BY Zenon DEF LowFirst
  <2> DEFINE f == F(n)
  <2> HIDE DEF F
  <2>6. \A k \in 0 .. n : f[k] = IF k = 0 THEN <<>> ELSE <<k % 10>> \o f[k \div 10]
    BY <2>4
  <2> HIDE DEF f
  <2>7. f[n] = g[n]
    <3>1. Follows(f, n) /\ Follows(g, n)
      BY <2>2, <2>6, Zenon DEF Follows
    <3> QED
      BY <3>1, DigitsAgree
  <2>8. f[n] \in Seq(Digits)
    BY <2>2, <2>7
  <2> QED
    BY <2>5, <2>6, <2>8, Zenon DEF f
<1> HIDE DEF F
<1>2. LowFirst(0) = <<>>
  <2>1. 0 \in 0 .. 0 /\ 0 \in Nat
    OBVIOUS
  <2> QED
    BY <2>1, <1>1, Zenon
<1>3. ASSUME NEW n \in Nat \ {0} PROVE LowFirst(n) = <<n % 10>> \o LowFirst(n \div 10)
  <2> DEFINE c == n \div 10
  <2>1. c \in 0 .. n - 1
    BY TenFacts
  <2>2. c \in Nat /\ c <= n /\ c <= c /\ n \in 0 .. n /\ n \in Nat /\ n # 0
    BY <2>1
  <2>3. LowFirst(n) = <<n % 10>> \o F(n)[c]
    BY <2>2, <1>1, Zenon
  <2> HIDE DEF c
  <2>4. F(n)[c] = F(c)[c]
    <3>1. Follows(F(n), n) /\ Follows(F(c), c)
      BY <2>2, <1>1, Zenon DEF Follows
    <3>2. \A k \in Nat : k <= n /\ k <= c => F(n)[k] = F(c)[k]
      BY <3>1, <2>2, DigitsAgree
    <3> QED
      BY <3>2, <2>2, Zenon
  <2>5. LowFirst(c) = F(c)[c]
    BY <2>2, <1>1, Zenon
  <2> QED
    BY <2>3, <2>4, <2>5, Zenon DEF c
<1>4. ASSUME NEW n \in Nat PROVE LowFirst(n) \in Seq(Digits)
  BY <1>1, Zenon
<1> QED
  BY <1>2, <1>3, <1>4

(* The quotients that the digits are remainders of.                        *)
Quotients(n, d, q) ==
  /\ d \in Seq(Digits) /\ q \in [0 .. Len(d) -> 0 .. n]
  /\ q[0] = n /\ q[Len(d)] = 0
  /\ \A j \in 1 .. Len(d) : q[j - 1] # 0 /\ q[j - 1] = 10 * q[j] + d[j]

LEMMA DigitsOf == \A n \in Nat : \E q : Quotients(n, LowFirst(n), q)
<1> DEFINE Bad == {n \in Nat : ~\E q : Quotients(n, LowFirst(n), q)}
<1> SUFFICES ASSUME Bad # {} PROVE FALSE
  OBVIOUS
<1>1. Bad \in SUBSET Nat
  OBVIOUS
<1> DEFINE m == Min(Bad)
<1>2. m \in Bad /\ \A y \in Bad : m <= y
  BY <1>1, MinNat
<1> HIDE DEF m
<1>3. m \in Nat /\ ~\E q : Quotients(m, LowFirst(m), q)
  BY <1>2
<1>4. CASE m = 0
  <2> DEFINE q == [k \in 0 .. 0 |-> 0]  d == <<>>
  <2>1. d \in Seq(Digits) /\ Len(d) = 0 /\ q \in [0 .. 0 -> 0 .. 0] /\ q[0] = 0 /\ \A j \in 1 .. 0 : FALSE
    OBVIOUS
  <2> HIDE DEF q, d
  <2>2. Quotients(0, d, q)
    BY <2>1, Zenon DEF Quotients
  <2> QED
    BY <2>2, <1>3, <1>4, LowFirstUnfold, Zenon DEF d
<1>5. CASE m # 0
  <2> DEFINE c == m \div 10  x == LowFirst(c)  d == <<m % 10>> \o x
  <2>1. c \in 0 .. m - 1 /\ m % 10 \in Digits /\ m = 10 * c + (m % 10)
    BY <1>3, <1>5, TenFacts
  <2>2. c \in Nat /\ ~(m <= c)
    BY <2>1, <1>3
  <2>3. PICK q : Quotients(c, x, q)
    BY <1>2, <2>2
  <2>4. LowFirst(m) = d
    BY <1>3, <1>5, LowFirstUnfold
  <2>5. /\ x \in Seq(Digits) /\ q \in [0 .. Len(x) -> 0 .. c]
        /\ q[0] = c /\ q[Len(x)] = 0
        /\ \A j \in 1 .. Len(x) : q[j - 1] # 0 /\ q[j - 1] = 10 * q[j] + x[j]
    BY <2>3, Zenon DEF Quotients
  <2> HIDE DEF x
  <2>6. /\ d \in Seq(Digits) /\ Len(d) = Len(x) + 1 /\ d[1] = m % 10 /\ Len(x) \in Nat
        /\ \A j \in 2 .. Len(x) + 1 : d[j] = x[j - 1]
    <3>1. <<m % 10>> \in Seq(Digits) /\ Len(<<m % 10>>) = 1 /\ <<m % 10>>[1] = m % 10
      BY <2>1
    <3> DEFINE t == <<m % 10>>
    <3> HIDE DEF t
    <3>2. /\ d \in Seq(Digits) /\ Len(d) = 1 + Len(x)
          /\ \A i \in 1 .. 1 + Len(x) : d[i] = IF i <= 1 THEN t[i] ELSE x[i - 1]
      BY <3>1, <2>5, ConcatProperties DEF t
    <3> QED
      BY <3>1, <3>2, <2>5 DEF t
  <2> HIDE DEF d, c
  <2> DEFINE p == [j \in 0 .. Len(x) + 1 |-> IF j = 0 THEN m ELSE q[j - 1]]
  <2>7. \A j \in 1 .. Len(x) + 1 : j - 1 \in 0 .. Len(x) /\ j # 0 /\ p[j] = q[j - 1]
    BY <2>6
  <2>8. p[0] = m
    BY <2>6
  <2>9. p \in [0 .. Len(x) + 1 -> 0 .. m]
    <3>1. \A j \in 1 .. Len(x) + 1 : q[j - 1] \in 0 .. m
      <4>1. \A i \in 0 .. Len(x) : q[i] \in 0 .. c
        BY <2>5
      <4>2. 0 .. c \subseteq 0 .. m
        BY <2>1, <2>2, <1>3
      <4> QED
        BY <4>1, <4>2, <2>7, Zenon
    <3> QED
      BY <3>1, <1>3
  <2> HIDE DEF p
  <2>10. p[Len(x) + 1] = 0
    BY <2>5, <2>6, <2>7
  <2>11. ASSUME NEW j \in 1 .. Len(x) + 1 PROVE p[j - 1] # 0 /\ p[j - 1] = 10 * p[j] + d[j]
    <3>1. CASE j = 1
      <4>1. p[1] = c /\ 1 - 1 = 0
        BY <2>5, <2>7, <2>6
      <4> QED
        BY <4>1, <3>1, <2>1, <2>6, <2>8, <1>5
    <3>2. CASE j # 1
      <4> DEFINE i == j - 1
      <4>1. i \in 1 .. Len(x) /\ i \in 1 .. Len(x) + 1 /\ j \in 2 .. Len(x) + 1
        BY <3>2, <2>6
      <4> HIDE DEF i
      <4>2. p[i] = q[i - 1] /\ p[j] = q[i] /\ d[j] = x[i]
        BY <4>1, <2>6, <2>7 DEF i
      <4>3. q[i - 1] # 0 /\ q[i - 1] = 10 * q[i] + x[i]
        BY <4>1, <2>5
      <4> QED
        BY <4>2, <4>3 DEF i
    <3> QED
      BY <3>1, <3>2
  <2>12. Quotients(m, d, p)
    BY <2>6, <2>8, <2>9, <2>10, <2>11, Zenon DEF Quotients
  <2> QED
    BY <2>4, <2>12, <1>3, Zenon
<1> QED
  BY <1>4, <1>5

(* A numeral: its digits, highest first, and what is read after each.      *)
Numeral(n, h, p) ==
  /\ h \in Seq(Digits) /\ p \in [0 .. Len(h) -> 0 .. n]
  /\ p[0] = 0 /\ p[Len(h)] = n
  /\ \A i \in 1 .. Len(h) : p[i] = 10 * p[i - 1] + h[i]
  /\ n # 0 => Len(h) >= 1 /\ h[1] # 0

LEMMA NumeralOf ==
  ASSUME NEW n \in Nat
  PROVE  \E p : Numeral(n, Reverse(LowFirst(n)), p)
<1> DEFINE d == LowFirst(n)  h == Reverse(d)  m == Len(d)
<1>1. PICK q : Quotients(n, d, q)
  BY DigitsOf
<1>2. /\ d \in Seq(Digits) /\ q \in [0 .. m -> 0 .. n]
      /\ q[0] = n /\ q[m] = 0
      /\ \A j \in 1 .. m : q[j - 1] # 0 /\ q[j - 1] = 10 * q[j] + d[j]
  BY <1>1, Zenon DEF Quotients
<1>3. m \in Nat
  BY <1>2
<1>4. h = [i \in 1 .. m |-> d[(m - i) + 1]]
  BY DEF Reverse
<1>5. \A i \in 1 .. m : (m - i) + 1 \in 1 .. m
  BY <1>3
<1>6. /\ h \in Seq(Digits) /\ Len(h) = m
      /\ \A i \in 1 .. m : h[i] = d[(m - i) + 1]
  <2>1. \A i \in 1 .. m : d[(m - i) + 1] \in Digits
    BY <1>2, <1>5
  <2> HIDE DEF d, h, m
  <2>2. h \in [1 .. m -> Digits]
    BY <1>4, <2>1
  <2> QED
    BY <2>2, <1>3, <1>4
<1> HIDE DEF d, h, m
<1> DEFINE p == [i \in 0 .. m |-> q[m - i]]
<1>7. p \in [0 .. m -> 0 .. n] /\ p[0] = 0 /\ p[m] = n /\ \A i \in 0 .. m : p[i] = q[m - i]
  BY <1>2, <1>3
<1> HIDE DEF p
<1>8. ASSUME NEW i \in 1 .. m PROVE p[i] = 10 * p[i - 1] + h[i]
  <2> DEFINE j == (m - i) + 1
  <2>1. j \in 1 .. m /\ j - 1 = m - i /\ j = m - (i - 1) /\ i - 1 \in 0 .. m /\ i \in 0 .. m
    BY <1>3
  <2> HIDE DEF j
  <2>2. p[i] = q[j - 1] /\ p[i - 1] = q[j] /\ h[i] = d[j]
    BY <2>1, <1>6, <1>7 DEF j
  <2> QED
    BY <2>1, <2>2, <1>2
<1>9. n # 0 => m >= 1 /\ h[1] # 0
  <2> SUFFICES ASSUME n # 0 PROVE m >= 1 /\ h[1] # 0
    OBVIOUS
  <2>1. m # 0
    BY <1>2
  <2>2. m >= 1 /\ 1 \in 1 .. m /\ m \in 1 .. m /\ (m - 1) + 1 = m
    BY <2>1, <1>3
  <2>3. h[1] = d[m] /\ q[m - 1] # 0 /\ q[m - 1] = 10 * q[m] + d[m]
    BY <2>2, <1>2, <1>6, Zenon
  <2>4. d[m] \in Nat
    <3>1. d[m] \in Digits
      BY <2>2, <1>2 DEF m
    <3> QED
      BY <3>1 DEF Digits
  <2> QED
    BY <2>2, <2>3, <2>4, <1>2
<1>10. Numeral(n, h, p)
  BY <1>6, <1>7, <1>8, <1>9, Zenon DEF Numeral
<1> QED
  BY <1>10 DEF h, d

(* The loops that read digits.                                             *)
LEMMA PrefixIs ==
  ASSUME NEW S, NEW s \in Seq(S), NEW m \in 0 .. Len(s),
         \A i \in 1 .. m : s[i] \in Digits, m = Len(s) \/ s[m + 1] \notin Digits
  PROVE  Prefix(s) = m
<1> DEFINE T == {i \in 0 .. Len(s) : i = Len(s) \/ s[i + 1] \notin 0 .. 9}
           b == Min(T)
<1>0. Len(s) \in Nat /\ Digits = 0 .. 9
  BY DEF Digits
<1>1. T \in SUBSET Nat /\ m \in T
  BY <1>0
<1>2. b \in T /\ \A y \in T : b <= y
  BY <1>1, MinNat
<1>3. Prefix(s) = b
  BY DEF Prefix
<1> HIDE DEF b
<1>4. b <= m /\ b \in 0 .. Len(s) /\ (b = Len(s) \/ s[b + 1] \notin Digits)
  BY <1>0, <1>1, <1>2
<1>5. ~(b < m)
  <2> SUFFICES ASSUME b < m PROVE FALSE
    OBVIOUS
  <2>1. b + 1 \in 1 .. m /\ b # Len(s)
    BY <1>0, <1>4
  <2> QED
    BY <2>1, <1>4
<1> QED
  BY <1>0, <1>3, <1>4, <1>5

LEMMA AtoiReads ==
  ASSUME NEW n \in 0 .. -INT_MIN - 1, NEW h, NEW p, Numeral(n, h, p),
         NEW S, NEW s \in Seq(S), Len(h) <= Len(s), \A i \in 1 .. Len(h) : s[i] = h[i],
         Len(h) = Len(s) \/ s[Len(h) + 1] \notin Digits
  PROVE  Prefix(s) = Len(h) /\ atoi(s) = n
<1> DEFINE m == Len(h)
           Eq(f) == f = [i \in 0 .. Prefix(s) |-> IF i = 0 THEN 0 ELSE ToInt(f[i - 1] * 10 + s[i])]
<1>1. /\ h \in Seq(Digits) /\ p \in [0 .. m -> 0 .. n] /\ p[0] = 0 /\ p[m] = n
      /\ \A i \in 1 .. m : p[i] = 10 * p[i - 1] + h[i]
  BY Zenon DEF Numeral
<1>2. m \in Nat /\ \A i \in 1 .. m : s[i] = h[i] /\ h[i] \in Digits
  BY <1>1
<1>3. Prefix(s) = m
  <2>1. m \in 0 .. Len(s)
    BY <1>2
  <2> QED
    BY <2>1, <1>2, PrefixIs
<1>4. ASSUME NEW i \in 1 .. m PROVE ToInt(p[i - 1] * 10 + s[i]) = p[i]
  <2>1. i - 1 \in 0 .. m /\ i \in 0 .. m
    BY <1>2
  <2>2. p[i] \in 0 .. n /\ p[i - 1] \in 0 .. n
    BY <2>1, <1>1
  <2>3. p[i - 1] * 10 + s[i] = p[i]
    BY <2>2, <1>1, <1>2 DEF Digits
  <2>4. p[i] \in Ints
    BY <2>2, IntSizes
  <2> QED
    BY <2>3, <2>4, ToIntIs
<1> HIDE DEF m
<1>5. Eq(p)
  <2>1. ASSUME NEW i \in 0 .. m PROVE p[i] = IF i = 0 THEN 0 ELSE ToInt(p[i - 1] * 10 + s[i])
    <3>1. CASE i = 0
      BY <3>1, <1>1
    <3>2. CASE i # 0
      <4>1. i \in 1 .. m
        BY <3>2, <1>2
      <4> QED
        BY <4>1, <3>2, <1>4, Zenon
    <3> QED
      BY <3>1, <3>2
  <2>2. p = [i \in 0 .. m |-> p[i]]
    BY <1>1
  <2> QED
    BY <2>1, <2>2, <1>3
<1> DEFINE f == CHOOSE g : Eq(g)
<1>6. Eq(f)
  BY <1>5, Zenon
<1>7. atoi(s) = f[Prefix(s)]
  BY Zenon DEF atoi
<1> HIDE DEF f
<1>8. \A i \in 0 .. m : f[i] = IF i = 0 THEN 0 ELSE ToInt(f[i - 1] * 10 + s[i])
  BY <1>3, <1>6
<1> DEFINE Bad == {i \in 0 .. m : f[i] # p[i]}
<1>9. Bad = {}
  <2> SUFFICES ASSUME Bad # {} PROVE FALSE
    OBVIOUS
  <2>1. Bad \in SUBSET Nat
    OBVIOUS
  <2> DEFINE b == Min(Bad)
  <2>2. b \in Bad /\ \A y \in Bad : b <= y
    BY <2>1, MinNat
  <2> HIDE DEF b
  <2>3. b \in 0 .. m /\ f[b] # p[b]
    BY <2>2
  <2>4. b # 0
    BY <2>3, <1>1, <1>8
  <2>5. b \in 1 .. m /\ b - 1 \in 0 .. m /\ ~(b <= b - 1)
    BY <2>3, <2>4, <1>2
  <2>6. f[b - 1] = p[b - 1]
    BY <2>2, <2>5
  <2>7. f[b] = ToInt(f[b - 1] * 10 + s[b])
    BY <2>3, <2>4, <1>8, Zenon
  <2> QED
    BY <2>3, <2>5, <2>6, <2>7, <1>4, Zenon
<1>10. f[m] = p[m]
  BY <1>2, <1>9
<1> QED
  BY <1>1, <1>3, <1>7, <1>10, Zenon DEF m

Total(digits) ==
  LET sum[i \in 0 .. Len(digits)] == IF i = 0 THEN 0 ELSE 10 * sum[i - 1] + digits[i]
  IN sum[Len(digits)]

LEMMA TotalIs ==
  ASSUME NEW n \in Nat, NEW h, NEW p, Numeral(n, h, p)
  PROVE  Total(h) = n
<1> DEFINE m == Len(h)
           Eq(f) == f = [i \in 0 .. m |-> IF i = 0 THEN 0 ELSE 10 * f[i - 1] + h[i]]
<1>1. /\ h \in Seq(Digits) /\ p \in [0 .. m -> 0 .. n] /\ p[0] = 0 /\ p[m] = n
      /\ \A i \in 1 .. m : p[i] = 10 * p[i - 1] + h[i]
  BY Zenon DEF Numeral
<1>2. m \in Nat
  BY <1>1
<1> DEFINE f == CHOOSE g : Eq(g)
<1>3. Total(h) = f[m]
  BY Zenon DEF Total
<1> HIDE DEF m
<1>4. Eq(p)
  <2>1. ASSUME NEW i \in 0 .. m PROVE p[i] = IF i = 0 THEN 0 ELSE 10 * p[i - 1] + h[i]
    <3>1. CASE i = 0
      BY <3>1, <1>1
    <3>2. CASE i # 0
      <4>1. i \in 1 .. m
        BY <3>2, <1>2
      <4> QED
        BY <4>1, <3>2, <1>1, Zenon
    <3> QED
      BY <3>1, <3>2
  <2>2. p = [i \in 0 .. m |-> p[i]]
    BY <1>1
  <2> QED
    BY <2>1, <2>2
<1>5. Eq(f)
  BY <1>4, Zenon
<1> HIDE DEF f
<1>6. \A i \in 0 .. m : f[i] = IF i = 0 THEN 0 ELSE 10 * f[i - 1] + h[i]
  BY <1>5
<1> DEFINE Bad == {i \in 0 .. m : f[i] # p[i]}
<1>7. Bad = {}
  <2> SUFFICES ASSUME Bad # {} PROVE FALSE
    OBVIOUS
  <2>1. Bad \in SUBSET Nat
    OBVIOUS
  <2> DEFINE b == Min(Bad)
  <2>2. b \in Bad /\ \A y \in Bad : b <= y
    BY <2>1, MinNat
  <2> HIDE DEF b
  <2>3. b \in 0 .. m /\ f[b] # p[b]
    BY <2>2
  <2>4. b # 0
    BY <2>3, <1>1, <1>6
  <2>5. b \in 1 .. m /\ b - 1 \in 0 .. m /\ ~(b <= b - 1)
    BY <2>3, <2>4, <1>2
  <2>6. f[b - 1] = p[b - 1]
    BY <2>2, <2>5
  <2>7. f[b] = 10 * f[b - 1] + h[b] /\ p[b] = 10 * p[b - 1] + h[b]
    BY <2>3, <2>4, <2>5, <1>1, <1>6, Zenon
  <2> QED
    BY <2>3, <2>6, <2>7, Zenon
<1>8. f[m] = p[m]
  BY <1>2, <1>7
<1> QED
  BY <1>1, <1>3, <1>8, Zenon

LEMMA ValueIs ==
  ASSUME NEW s
  PROVE  Value(s) = IF s[1] = Minus THEN -Total(Tail(s)) ELSE Total(s)
<1> DEFINE digits == IF s[1] = Minus THEN Tail(s) ELSE s
<1>1. Value(s) = IF s[1] = Minus THEN -Total(digits) ELSE Total(digits)
  BY Zenon DEF Value, Total
<1>2. CASE s[1] = Minus
  <2>1. digits = Tail(s)
    BY <1>2, Zenon
  <2> HIDE DEF digits
  <2> QED
    BY <2>1, <1>1, <1>2, Zenon
<1>3. CASE s[1] # Minus
  <2>1. digits = s
    BY <1>3, Zenon
  <2> HIDE DEF digits
  <2> QED
    BY <2>1, <1>1, <1>3, Zenon
<1> QED
  BY <1>2, <1>3

(* The three ways to write an int.                                         *)
LEMMA ItoaZero == itoa(0) = <<0>> /\ PrintDecimal(0) = {<<0>>}
  BY Zenon DEF itoa, PrintDecimal

LEMMA ItoaPositive ==
  ASSUME NEW n \in Nat \ {0}
  PROVE  itoa(n) = Reverse(LowFirst(n)) /\ PrintDecimal(n) = {Reverse(LowFirst(n))}
<1>1. n # 0 /\ ~(n < 0)
  OBVIOUS
<1> QED
  BY <1>1, Zenon DEF itoa, PrintDecimal

(* Turned around, the sign comes first.                                    *)
LEMMA SignFirst ==
  ASSUME NEW d \in Seq(Digits)
  PROVE  Reverse(Append(d, Minus)) = <<Minus>> \o Reverse(d)
<1> DEFINE S == Digits \cup {Minus}  m == Len(d)  a == Append(d, Minus)  t == <<Minus>>  r == Reverse(d)
<1>1. m \in Nat /\ d \in Seq(S) /\ Minus \in S
  OBVIOUS
<1>2. a \in Seq(S) /\ Len(a) = m + 1 /\ a[m + 1] = Minus /\ \A i \in 1 .. m : a[i] = d[i]
  BY <1>1
<1>3. t \in Seq(S) /\ Len(t) = 1 /\ t[1] = Minus
  BY <1>1
<1> HIDE DEF S, a, t
<1>4. r \in Seq(S) /\ Len(r) = m /\ \A i \in 1 .. m : r[i] = d[(m - i) + 1]
  <2>1. \A i \in 1 .. m : d[(m - i) + 1] \in S
    BY <1>1
  <2>2. r = [i \in 1 .. m |-> d[(m - i) + 1]]
    BY DEF Reverse
  <2> HIDE DEF r, m
  <2>3. r \in [1 .. m -> S]
    BY <2>1, <2>2
  <2> QED
    BY <2>2, <2>3, <1>1
<1>5. Reverse(a) = [i \in 1 .. m + 1 |-> a[((m + 1) - i) + 1]]
  BY <1>2 DEF Reverse
<1> HIDE DEF r, m
<1> DEFINE c == t \o r
<1>6. c \in Seq(S) /\ Len(c) = 1 + m /\ \A i \in 1 .. 1 + m : c[i] = IF i <= 1 THEN t[i] ELSE r[i - 1]
  <2>1. Row(S, t, r, c)
    BY <1>3, <1>4, RowOf
  <2> HIDE DEF c
  <2>2. /\ c \in Seq(S) /\ Len(c) = 1 + m
        /\ \A i \in 1 .. 1 : c[i] = t[i]
        /\ \A i \in 1 .. m : c[1 + i] = r[i]
    BY <2>1, <1>3, <1>4 DEF Row
  <2>3. ASSUME NEW i \in 1 .. 1 + m PROVE c[i] = IF i <= 1 THEN t[i] ELSE r[i - 1]
    <3>1. CASE i <= 1
      <4>1. i \in 1 .. 1
        BY <3>1, <1>1
      <4> QED
        BY <4>1, <3>1, <2>2
    <3>2. CASE ~(i <= 1)
      <4>1. i - 1 \in 1 .. m /\ 1 + (i - 1) = i
        BY <3>2, <1>1
      <4>2. c[1 + (i - 1)] = r[i - 1]
        BY <4>1, <2>2
      <4> QED
        BY <4>1, <4>2, <3>2, Zenon
    <3> QED
      BY <3>1, <3>2
  <2> QED
    BY <2>2, <2>3
<1> HIDE DEF c
<1>7. ASSUME NEW i \in 1 .. m + 1 PROVE c[i] = a[((m + 1) - i) + 1]
  <2>1. CASE i = 1
    <3>1. ((m + 1) - i) + 1 = m + 1 /\ 1 \in 1 .. 1 + m /\ 1 <= 1
      BY <2>1, <1>1
    <3> QED
      BY <3>1, <2>1, <1>2, <1>3, <1>6, Zenon
  <2>2. CASE i # 1
    <3> DEFINE j == i - 1
    <3>1. j \in 1 .. m /\ ~(i <= 1) /\ i \in 1 .. 1 + m /\ ((m + 1) - i) + 1 = (m - j) + 1 /\ (m - j) + 1 \in 1 .. m
      BY <2>2, <1>1
    <3>2. c[i] = r[j]
      BY <3>1, <1>6, Zenon
    <3> HIDE DEF j
    <3> QED
      BY <3>1, <3>2, <1>2, <1>4, Zenon
  <2> QED
    BY <2>1, <2>2
<1>8. c = [i \in 1 .. m + 1 |-> c[i]]
  BY <1>1, <1>6
<1>9. Reverse(a) = c
  BY <1>5, <1>7, <1>8
<1> QED
  BY <1>9 DEF a, c, t, r

LEMMA ItoaNegative ==
  ASSUME NEW n \in Ints, n < 0
  PROVE  /\ -n \in Nat \ {0} /\ itoa(n) = <<Minus>> \o Reverse(LowFirst(-n))
         /\ n # INT_MIN => PrintDecimal(n) = {itoa(n)}
         /\ n = INT_MIN => PrintDecimal(n) = {itoa(n), <<Minus>>}
<1>1. n \in Int /\ -n \in Nat \ {0} /\ -n < IntMod /\ n # 0 /\ (n = INT_MIN => -INT_MIN = -n)
  BY IntSizes
<1>2. (-n) % IntMod = -n
  <2> DEFINE x == -n
  <2> HIDE DEF x
  <2>1. x \in Nat /\ x = IntMod * 0 + x /\ x < IntMod /\ IntMod \in Nat \ {0}
    BY <1>1, IntSizes DEF x
  <2>2. x % IntMod = x
    BY <2>1, DivUnique
  <2> QED
    BY <2>2 DEF x
<1>3. itoa(n) = Reverse(Append(LowFirst(-n), Minus))
  BY <1>1, <1>2, Zenon DEF itoa
<1>4. LowFirst(-n) \in Seq(Digits)
  BY <1>1, LowFirstUnfold
<1>5. itoa(n) = <<Minus>> \o Reverse(LowFirst(-n))
  BY <1>3, <1>4, SignFirst, Zenon
<1>6. PrintDecimal(n) = {<<Minus>> \o Reverse(LowFirst(m)) : m \in Negated(n)}
  BY <1>1, Zenon DEF PrintDecimal
<1>7. n # INT_MIN => PrintDecimal(n) = {itoa(n)}
  BY <1>5, <1>6 DEF Negated
<1>8. n = INT_MIN => PrintDecimal(n) = {itoa(n), <<Minus>>}
  <2> SUFFICES ASSUME n = INT_MIN PROVE PrintDecimal(n) = {itoa(n), <<Minus>>}
    OBVIOUS
  <2>1. Negated(n) = {0, -n}
    BY <1>1 DEF Negated
  <2>2. <<Minus>> \o Reverse(LowFirst(0)) = <<Minus>>
    <3>1. Reverse(<<>>) = <<>>
      BY DEF Reverse
    <3>2. <<Minus>> \o <<>> = <<Minus>>
      OBVIOUS
    <3> QED
      BY <3>1, <3>2, LowFirstUnfold, Zenon
  <2> DEFINE g(m) == <<Minus>> \o Reverse(LowFirst(m))
  <2>3. PrintDecimal(n) = {g(m) : m \in {0, -n}} /\ g(0) = <<Minus>> /\ g(-n) = itoa(n)
    BY <2>1, <2>2, <1>5, <1>6, Zenon
  <2> HIDE DEF g
  <2> QED
    BY <2>3
<1> QED
  BY <1>1, <1>5, <1>7, <1>8

(* A natural number as itoa writes it.                                     *)
LEMMA TextOf ==
  ASSUME NEW n \in Nat
  PROVE  /\ \E p : Numeral(n, itoa(n), p)
         /\ itoa(n) \in Seq(Digits) /\ Len(itoa(n)) \in Nat \ {0}
         /\ Len(itoa(n)) > 1 => itoa(n)[1] # 0
         /\ PrintDecimal(n) = {itoa(n)}
<1>1. CASE n = 0
  <2> DEFINE h == <<0>>  p == [i \in 0 .. 1 |-> 0]
  <2>1. h \in Seq(Digits) /\ Len(h) = 1 /\ h[1] = 0 /\ Len(h) \in Nat \ {0} /\ ~(Len(h) > 1)
    BY DEF Digits
  <2>2. p \in [0 .. 1 -> 0 .. 0] /\ p[0] = 0 /\ p[1] = 0
    OBVIOUS
  <2> HIDE DEF h, p
  <2>3. \A i \in 1 .. 1 : p[i] = 10 * p[i - 1] + h[i]
    BY <2>1, <2>2
  <2>4. Numeral(0, h, p)
    BY <2>1, <2>2, <2>3 DEF Numeral
  <2>5. itoa(0) = h /\ PrintDecimal(0) = {h}
    BY ItoaZero DEF h
  <2> QED
    BY <2>1, <2>4, <2>5, <1>1, Zenon
<1>2. CASE n # 0
  <2>1. n \in Nat \ {0}
    BY <1>2
  <2> DEFINE h == Reverse(LowFirst(n))
  <2>2. itoa(n) = h /\ PrintDecimal(n) = {h}
    BY <2>1, ItoaPositive
  <2>3. PICK p : Numeral(n, h, p)
    BY <2>1, NumeralOf
  <2> HIDE DEF h
  <2>4. h \in Seq(Digits) /\ Len(h) >= 1 /\ h[1] # 0
    BY <2>1, <2>3 DEF Numeral
  <2>5. Len(h) \in Nat \ {0}
    BY <2>4
  <2> QED
    BY <2>2, <2>3, <2>4, <2>5, Zenon
<1> QED
  BY <1>1, <1>2

(* What itoa writes reads as the number, and atoi takes it back.           *)
LEMMA NatIsText ==
  ASSUME NEW n \in Nat
  PROVE  Value(itoa(n)) = n /\ (n \in Ints => atoi(itoa(n)) = n)
<1> DEFINE s == itoa(n)
<1>1. PICK p : Numeral(n, s, p)
  BY TextOf
<1>2. s \in Seq(Digits) /\ Len(s) \in Nat \ {0}
  BY TextOf
<1> HIDE DEF s
<1>3. s[1] \in Digits
  BY <1>2
<1>4. Value(s) = n
  BY <1>1, <1>3, IntSizes, ValueIs, TotalIs, Zenon
<1>5. ASSUME n \in Ints PROVE atoi(s) = n
  <2>1. n \in 0 .. -INT_MIN - 1 /\ Len(s) <= Len(s)
    BY <1>2, <1>5, IntSizes
  <2> QED
    BY <2>1, <1>1, <1>2, AtoiReads, Zenon
<1> QED
  BY <1>4, <1>5 DEF s

LEMMA NegativeIsText ==
  ASSUME NEW n \in Ints, n < 0
  PROVE  Value(itoa(n)) = n /\ itoa(n)[1] # 0
<1> DEFINE m == -n  h == Reverse(LowFirst(m))  t == <<Minus>>  s == t \o h
<1>1. m \in Nat \ {0} /\ m \in Nat /\ -m = n
  BY IntSizes
<1> HIDE DEF m
<1>2. PICK p : Numeral(m, h, p)
  BY <1>1, NumeralOf
<1>3. itoa(n) = s
  BY ItoaNegative DEF m
<1> HIDE DEF h
<1>4. h \in Seq(Digits) /\ Total(h) = m /\ Len(h) >= 1
  BY <1>1, <1>2, TotalIs DEF Numeral
<1>5. Tail(s) = h /\ s[1] = Minus
  <2> DEFINE S == Digits \cup {Minus}
  <2>1. h \in Seq(S) /\ t \in Seq(S)
    BY <1>4
  <2>2. Len(t) = 1 /\ t[1] = Minus
    OBVIOUS
  <2> HIDE DEF t, S
  <2>3. s[1] = t[1] /\ SubSeq(s, Len(t) + 1, Len(t) + Len(h)) = h /\ Row(S, t, h, s)
    <3>1. Row(S, t, h, s)
      BY <2>1, RowOf
    <3>2. Len(t) >= 1
      BY <2>2
    <3>3. Len(h) >= 1
      BY <1>4
    <3>4. SubSeq(t \o h, Len(t) + 1, Len(t) + Len(h)) = h
      BY <2>1, <3>2, <3>3, TwoParts, Zenon
    <3>5. (t \o h)[1] = t[1]
      BY <2>1, <3>2, <3>3, TwoParts, Zenon
    <3> QED
      BY <3>1, <3>4, <3>5
  <2>4. s \in Seq(S) /\ Len(s) = 1 + Len(h)
    BY <2>2, <2>3 DEF Row
  <2> HIDE DEF s
  <2>5. Tail(s) = SubSeq(s, 2, Len(s))
    BY <2>4, <1>4
  <2> QED
    BY <2>2, <2>3, <2>4, <2>5
<1> HIDE DEF s, t
<1>6. Value(s) = -Total(h)
  BY <1>5, ValueIs
<1>7. s[1] # 0
  BY <1>5, IntSizes DEF Digits
<1> QED
  BY <1>1, <1>3, <1>4, <1>6, <1>7

IsText(n) ==
  /\ Value(itoa(n)) = n
  /\ Len(itoa(n)) > 1 => itoa(n)[1] # 0
  /\ n >= 0 => atoi(itoa(n)) = n
  /\ PrintDecimal(n) = {itoa(n)} \cup (IF n = INT_MIN THEN {<<Minus>>} ELSE {})

LEMMA EveryIntIsText == ASSUME NEW n \in Ints PROVE IsText(n)
<1>1. INT_MIN < 0 /\ n \in Int
  BY IntSizes
<1>2. CASE n < 0
  <2>1. ~(n >= 0)
    BY <1>1, <1>2
  <2>2. Value(itoa(n)) = n /\ itoa(n)[1] # 0
    BY <1>2, NegativeIsText
  <2>3. PrintDecimal(n) = {itoa(n)} \cup (IF n = INT_MIN THEN {<<Minus>>} ELSE {})
    <3>1. n # INT_MIN => PrintDecimal(n) = {itoa(n)}
      BY <1>2, ItoaNegative
    <3>2. n = INT_MIN => PrintDecimal(n) = {itoa(n), <<Minus>>}
      BY <1>2, ItoaNegative
    <3> QED
      BY <3>1, <3>2
  <2> QED
    BY <2>1, <2>2, <2>3, Zenon DEF IsText
<1>3. CASE ~(n < 0)
  <2>1. n \in Nat /\ n # INT_MIN
    BY <1>1, <1>3
  <2>2. PrintDecimal(n) = {itoa(n)} \cup (IF n = INT_MIN THEN {<<Minus>>} ELSE {})
    BY <2>1, TextOf
  <2> QED
    BY <2>1, <2>2, NatIsText, TextOf, Zenon DEF IsText
<1> QED
  BY <1>2, <1>3

(* The line of a calculation falls into its two numbers and the operator.  *)
LEMMA LineIs ==
  ASSUME NEW a \in 0 .. -INT_MIN - 1, NEW b \in 0 .. -INT_MIN - 1, NEW op, op \notin Digits
  PROVE  calculator_app(itoa(a) \o <<op>> \o itoa(b)) = PrintDecimal(Apply(op, a, b))
<1> DEFINE S == Digits \cup {op}  x == itoa(a)  m == <<op>>  y == itoa(b)  s == (x \o m) \o y
<1>1. a \in Nat /\ b \in Nat /\ a \in Ints /\ b \in Ints
  BY IntSizes
<1>2. PICK p : Numeral(a, x, p)
  BY <1>1, TextOf
<1>3. atoi(y) = b
  BY <1>1, NatIsText
<1>4. x \in Seq(Digits) /\ Len(x) \in Nat \ {0} /\ y \in Seq(Digits) /\ Len(y) \in Nat \ {0}
  BY <1>1, TextOf
<1>5. m \in Seq(S) /\ Len(m) = 1 /\ m[1] = op
  OBVIOUS
<1> HIDE DEF x, y, m
<1>6. x \in Seq(S) /\ y \in Seq(S)
  BY <1>4
<1> DEFINE k == Len(x)
<1>7. /\ s \in Seq(S) /\ Len(s) = k + 1 + Len(y) /\ s[k + 1] = op /\ \A i \in 1 .. k : s[i] = x[i]
  <2>1. Rows(S, x, m, y, s)
    BY <1>5, <1>6, ThreeParts
  <2> HIDE DEF s
  <2> QED
    BY <2>1, <1>5, Zenon DEF Rows
<1>8. SubSeq(s, k + 2, Len(s)) = y
  <2> DEFINE q == x \o m
  <2>1. Row(S, x, m, q)
    BY <1>5, <1>6, RowOf
  <2>2. q \in Seq(S) /\ Len(q) = k + 1
    <3> HIDE DEF q
    <3> QED
      BY <2>1, <1>5, Zenon DEF Row
  <2>3. Len(q) >= 1 /\ Len(y) >= 1 /\ Len(q) + 1 = k + 2 /\ Len(q) + Len(y) = Len(s)
    <3> HIDE DEF q, s
    <3> QED
      BY <2>2, <1>4, <1>7
  <2> HIDE DEF q
  <2>4. SubSeq(q \o y, Len(q) + 1, Len(q) + Len(y)) = y
    BY <2>2, <2>3, <1>6, TwoParts, Zenon
  <2>5. s = q \o y
    BY DEF q
  <2> HIDE DEF s
  <2> QED
    BY <2>3, <2>4, <2>5, Zenon
<1> HIDE DEF s
<1>9. Prefix(s) = k /\ atoi(s) = a
  <2>1. k <= Len(s) /\ s[k + 1] \notin Digits
    BY <1>4, <1>7
  <2> QED
    BY <2>1, <1>2, <1>7, AtoiReads, Zenon
<1> HIDE DEF S
<1>10. OperatorAt(s) = k + 1 /\ ~(k + 1 > Len(s)) /\ (k + 1) + 1 = k + 2
  BY <1>4, <1>7, <1>9 DEF OperatorAt
<1>11. calculator_app(s) = PrintDecimal(Apply(s[k + 1], atoi(s), atoi(SubSeq(s, (k + 1) + 1, Len(s)))))
  BY <1>10, Zenon DEF calculator_app
<1>12. calculator_app(s) = PrintDecimal(Apply(op, a, b))
  BY <1>3, <1>7, <1>8, <1>9, <1>10, <1>11, Zenon
<1> QED
  BY <1>12 DEF s, x, y, m

LEMMA ApplyIsInt ==
  ASSUME NEW a \in 0 .. -INT_MIN - 1, NEW b \in 0 .. -INT_MIN - 1, NEW op
  PROVE  Apply(op, a, b) \in Ints
<1>1. a \in Nat /\ b \in Nat /\ a < -INT_MIN /\ b < -INT_MIN /\ 0 \in Ints /\ INT_MIN \in Int /\ -INT_MIN \in Nat
  BY IntSizes
<1>2. ToInt(a + b) \in Ints
  <2>1. a + b \in Int /\ a + b >= INT_MIN
    BY <1>1
  <2> QED
    BY <2>1, ToIntInts
<1>3. ToInt(a - b) \in Ints
  <2>1. a - b \in Int /\ a - b >= INT_MIN
    BY <1>1
  <2> QED
    BY <2>1, ToIntInts
<1>4. ToInt(a * b) \in Ints
  <2>1. a * b \in Nat
    BY <1>1
  <2> DEFINE c == a * b
  <2> HIDE DEF c
  <2>2. c \in Int /\ c >= INT_MIN
    BY <2>1, <1>1 DEF c
  <2>3. ToInt(c) \in Ints
    BY <2>2, ToIntInts
  <2> QED
    BY <2>3 DEF c
<1>5. b # 0 => a \div b \in Ints
  <2> SUFFICES ASSUME b # 0 PROVE a \div b \in Ints
    OBVIOUS
  <2> DEFINE d == a \div b
  <2>1. b \in Nat \ {0}
    BY <1>1
  <2>2. d \in Nat /\ a % b \in Nat /\ a = b * d + (a % b)
    BY <2>1, <1>1, DivMod
  <2> HIDE DEF d
  <2>3. b * d >= d
    BY <2>1, <2>2
  <2>4. b * d \in Nat
    BY <2>1, <2>2
  <2>5. d <= a
    <3> DEFINE w == b * d  r == a % b
    <3> HIDE DEF w, r
    <3>1. w \in Nat /\ r \in Nat /\ a = w + r /\ w >= d
      BY <2>2, <2>3, <2>4 DEF w, r
    <3> QED
      BY <3>1, <2>2, <1>1
  <2>6. d \in Ints
    BY <2>2, <2>5, <1>1, IntSizes
  <2> QED
    BY <2>6 DEF d
<1>6. (IF b = 0 THEN 0 ELSE a \div b) \in Ints
  BY <1>1, <1>5
<1> DEFINE e == a + b
<1>7. Apply(op, a, b) \in {ToInt(a + b), ToInt(a - b), ToInt(a * b), IF b = 0 THEN 0 ELSE a \div b, 0}
  <2> DEFINE v1 == ToInt(a + b)  v2 == ToInt(a - b)  v3 == ToInt(a * b)  v4 == IF b = 0 THEN 0 ELSE a \div b
  <2>1. Apply(op, a, b) = CASE op = Plus -> v1 [] op = Minus -> v2 [] op = Times -> v3 [] op = Slash -> v4 [] OTHER -> 0
    BY DEF Apply
  <2> HIDE DEF v1, v2, v3, v4
  <2>2. Apply(op, a, b) \in {v1, v2, v3, v4, 0}
    BY <2>1
  <2> QED
    BY <2>2 DEF v1, v2, v3, v4
<1> QED
  BY <1>1, <1>2, <1>3, <1>4, <1>6, <1>7

JobOK == job = NoJob \/ job \in Jobs

LEMMA JobHolds == JobSpec => []JobOK
<1>1. JobInit => JobOK
  BY DEF JobInit, JobOK
<1>2. JobOK /\ [JobNext]_job => JobOK'
  BY DEF JobOK, JobNext, NoJob
<1> QED
  BY <1>1, <1>2, PTL DEF JobSpec

LEMMA JobFacts ==
  ASSUME JobOK
  PROVE  /\ job.kind = "number" => job.n \in Ints
         /\ job.kind = "calc" => job.a \in Numbers /\ job.b \in Numbers /\ job.op \in {Plus, Minus, Times, Slash}
<1>1. CASE job = NoJob
  BY <1>1 DEF NoJob
<1>2. CASE job \in Jobs
  BY <1>2 DEF Jobs
<1> QED
  BY <1>1, <1>2 DEF JobOK

(* itoa writes every int, the smallest included, so that it reads as that  *)
(* number, and atoi reads back what is not negative; %d and the calculator *)
(* print the same text, except that of the smallest they may print only    *)
(* the sign.  For an int of any even width: the digits that the loop finds *)
(* are the remainders of a falling sequence of quotients, and reading the  *)
(* numeral from its first digit runs back through the same quotients.      *)
THEOREM IntsAreText == JobSpec => []IntIsText
<1>1. JobOK => IntIsText
  <2> SUFFICES ASSUME JobOK, job.kind = "number" PROVE IsText(job.n)
    BY Zenon DEF IntIsText, IsText
  <2> QED
    BY JobFacts, EveryIntIsText, Zenon
<1> QED
  BY <1>1, JobHolds, PTL

(* The calculator finds the operator behind the first number, whatever the *)
(* lengths of the two, and prints the value of the line with an int's      *)
(* wrap-around: the value of any two ints that are not negative is an int, *)
(* and so printed as itoa writes it unless it is the smallest.             *)
THEOREM CalculatorIsRight == JobSpec => []CalculatorRight
<1>1. JobOK => CalculatorRight
  <2> SUFFICES ASSUME JobOK, job.kind = "calc", Apply(job.op, job.a, job.b) # INT_MIN
               PROVE  calculator_app(itoa(job.a) \o <<job.op>> \o itoa(job.b)) = {itoa(Apply(job.op, job.a, job.b))}
    BY Zenon DEF CalculatorRight
  <2> DEFINE a == job.a  b == job.b  op == job.op  v == Apply(op, a, b)
  <2>1. a \in Numbers /\ b \in Numbers /\ op \in {Plus, Minus, Times, Slash}
    BY JobFacts, Zenon
  <2>2. v # INT_MIN
    OBVIOUS
  <2> HIDE DEF a, b, op
  <2>3. a \in 0 .. -INT_MIN - 1 /\ b \in 0 .. -INT_MIN - 1 /\ op \notin Digits
    <3>1. {Minus, Dot, Plus, Times, Slash} \cap (0 .. 9) = {}
      BY NumeralsAssumption
    <3>2. op \notin Digits
      BY <2>1, <3>1 DEF Digits
    <3> QED
      BY <2>1, <3>2, IntSizes
  <2>4. v \in Ints
    BY <2>3, ApplyIsInt
  <2>5. calculator_app(itoa(a) \o <<op>> \o itoa(b)) = PrintDecimal(v)
    BY <2>3, LineIs
  <2> HIDE DEF v
  <2>6. PrintDecimal(v) = {itoa(v)}
    BY <2>2, <2>4, EveryIntIsText DEF IsText
  <2>7. calculator_app(itoa(a) \o <<op>> \o itoa(b)) = {itoa(v)}
    BY <2>5, <2>6
  <2> QED
    BY <2>7 DEF v, a, b, op
<1> QED
  BY <1>1, JobHolds, PTL

-----------------------------------------------------------------------------
(* 8.3 names.                                                              *)

NameCells == Chars \cup {" "}

LEMMA CharFacts ==
  \A c \in Chars : /\ c # " " /\ Upper[c] \in Chars /\ Upper[Upper[c]] = Upper[c]
                   /\ Upper[c] = "." <=> c = "."
  BY NamesAssumption, Zenon

LEMMA Widths == StemLen \in Nat /\ StemLen >= 2 /\ ExtLen \in Nat /\ ExtLen >= 2
  BY NamesAssumption, Zenon

LEMMA Chosen ==
  ASSUME NEW s \in Seq(Chars), NEW i \in 1 .. Len(s)
  PROVE  s[i] \in Chars /\ s[i] # " "
<1>1. s[i] \in Chars
  OBVIOUS
<1> QED
  BY <1>1, CharFacts, Zenon

LEMMA PadFacts ==
  ASSUME NEW s \in Seq(Chars), NEW n \in Nat
  PROVE  /\ Pad(s, n) \in Seq(NameCells) /\ Len(Pad(s, n)) = n
         /\ \A i \in 1 .. n : Pad(s, n)[i] = IF i <= Len(s) THEN s[i] ELSE " "
<1> DEFINE CharAt(i) == IF i <= Len(s) THEN s[i] ELSE " "
<1>1. ASSUME NEW i \in 1 .. n PROVE CharAt(i) \in NameCells
  <2>1. CASE i <= Len(s)
    <3>1. s[i] \in Chars
      BY <2>1
    <3> QED
      BY <2>1, <3>1 DEF NameCells
  <2>2. CASE ~(i <= Len(s))
    BY <2>2 DEF NameCells
  <2> QED
    BY <2>1, <2>2
<1>2. Pad(s, n) = [i \in 1 .. n |-> CharAt(i)]
  BY Zenon DEF Pad
<1> HIDE DEF CharAt
<1>3. [i \in 1 .. n |-> CharAt(i)] \in [1 .. n -> NameCells]
  BY <1>1
<1>4. \A i \in 1 .. n : Pad(s, n)[i] = CharAt(i)
  BY <1>2
<1>5. Pad(s, n) \in Seq(NameCells) /\ Len(Pad(s, n)) = n
  BY <1>2, <1>3
<1> QED
  BY <1>4, <1>5, Zenon DEF CharAt

LEMMA UpperFacts ==
  ASSUME NEW s \in Seq(Chars)
  PROVE  /\ UpperCase(s) \in Seq(Chars) /\ Len(UpperCase(s)) = Len(s)
         /\ \A i \in 1 .. Len(s) : UpperCase(s)[i] = Upper[s[i]]
         /\ UpperCase(UpperCase(s)) = UpperCase(s)
<1> DEFINE u == UpperCase(s)
<1>1. \A i \in 1 .. Len(s) : s[i] \in Chars /\ Upper[s[i]] \in Chars /\ Upper[Upper[s[i]]] = Upper[s[i]]
  BY Chosen, CharFacts, Zenon
<1>2. u = [i \in 1 .. Len(s) |-> Upper[s[i]]]
  BY DEF UpperCase
<1>3. u \in [1 .. Len(s) -> Chars] /\ \A i \in 1 .. Len(s) : u[i] = Upper[s[i]]
  BY <1>1, <1>2
<1>4. u \in Seq(Chars) /\ Len(u) = Len(s) /\ DOMAIN u = 1 .. Len(s)
  BY <1>3
<1> HIDE DEF u
<1>5. UpperCase(u) = [i \in 1 .. Len(s) |-> Upper[u[i]]]
  BY <1>4 DEF UpperCase
<1>6. \A i \in 1 .. Len(s) : Upper[u[i]] = Upper[s[i]]
  BY <1>1, <1>3
<1>7. UpperCase(u) = u
  BY <1>2, <1>5, <1>6
<1> QED
  BY <1>3, <1>4, <1>7 DEF u

(* A field without spaces between its characters is copied up to them.     *)
LEMMA CopyOfPadded ==
  ASSUME NEW s \in Seq(Chars), NEW N \in Nat, Len(s) <= N
  PROVE  CopyField(Pad(s, N)) = s
<1> DEFINE q == Pad(s, N)
           Eq(f) == f = [i \in 0 .. Len(q) |->
                           IF i = 0 THEN <<>> ELSE IF q[i] = " " THEN f[i - 1] ELSE Append(f[i - 1], q[i])]
           g == [i \in 0 .. N |-> SubSeq(s, 1, IF i <= Len(s) THEN i ELSE Len(s))]
<1>1. q \in Seq(NameCells) /\ Len(q) = N /\ \A i \in 1 .. N : q[i] = IF i <= Len(s) THEN s[i] ELSE " "
  BY PadFacts
<1>2. \A i \in 1 .. Len(s) : s[i] \in Chars /\ s[i] # " "
  BY Chosen, Zenon
<1> HIDE DEF q
<1>3. g[0] = <<>> /\ g[N] = s
  <2>1. g[0] = SubSeq(s, 1, 0) /\ g[N] = SubSeq(s, 1, Len(s))
    OBVIOUS
  <2> QED
    BY <2>1
<1>4. \A i \in 1 .. N : g[i] = IF q[i] = " " THEN g[i - 1] ELSE Append(g[i - 1], q[i])
  <2> SUFFICES ASSUME NEW i \in 1 .. N
               PROVE  g[i] = IF q[i] = " " THEN g[i - 1] ELSE Append(g[i - 1], q[i])
    OBVIOUS
  <2>0. i - 1 \in 0 .. N /\ i \in 0 .. N
    OBVIOUS
  <2>1. CASE i <= Len(s)
    <3>1. q[i] = s[i] /\ q[i] # " "
      <4>0. i \in 1 .. Len(s)
        BY <2>1
      <4>1. i \in 1 .. Len(s) /\ q[i] = s[i]
        BY <4>0, <2>1, <1>1, Zenon
      <4> QED
        BY <4>1, <1>2, Zenon
    <3>2. g[i] = SubSeq(s, 1, i) /\ g[i - 1] = SubSeq(s, 1, i - 1)
      BY <2>0, <2>1
    <3>3. SubSeq(s, 1, i) = Append(SubSeq(s, 1, i - 1), s[i])
      BY <2>1
    <3> QED
      BY <3>1, <3>2, <3>3
  <2>2. CASE ~(i <= Len(s))
    <3>1. q[i] = " "
      BY <2>2, <1>1
    <3>2. g[i] = SubSeq(s, 1, Len(s)) /\ g[i - 1] = SubSeq(s, 1, Len(s))
      BY <2>0, <2>2
    <3> QED
      BY <3>1, <3>2
  <2> QED
    BY <2>1, <2>2
<1>5. Eq(g)
  <2> HIDE DEF g
  <2>1. \A i \in 0 .. N : g[i] = IF i = 0 THEN <<>> ELSE IF q[i] = " " THEN g[i - 1] ELSE Append(g[i - 1], q[i])
    <3> SUFFICES ASSUME NEW i \in 0 .. N
                 PROVE  g[i] = IF i = 0 THEN <<>> ELSE IF q[i] = " " THEN g[i - 1] ELSE Append(g[i - 1], q[i])
      OBVIOUS
    <3>1. CASE i = 0
      BY <3>1, <1>3
    <3>2. CASE i # 0
      <4>1. i \in 1 .. N
        BY <3>2
      <4> QED
        BY <4>1, <3>2, <1>4, Zenon
    <3> QED
      BY <3>1, <3>2
  <2>2. g = [i \in 0 .. N |-> g[i]]
    BY DEF g
  <2> QED
    BY <2>1, <2>2, <1>1
<1> DEFINE f == CHOOSE h : Eq(h)
<1>6. Eq(f)
  <2> HIDE DEF g
  <2> QED
    BY <1>5, Zenon
<1>7. CopyField(q) = f[Len(q)]
  BY Zenon DEF CopyField
<1> HIDE DEF f, g
<1>8. \A i \in 0 .. N : f[i] = IF i = 0 THEN <<>> ELSE IF q[i] = " " THEN f[i - 1] ELSE Append(f[i - 1], q[i])
  BY <1>1, <1>6
<1> DEFINE Bad == {i \in 0 .. N : f[i] # g[i]}
<1>9. Bad = {}
  <2> SUFFICES ASSUME Bad # {} PROVE FALSE
    OBVIOUS
  <2>1. Bad \in SUBSET Nat
    OBVIOUS
  <2> DEFINE m == Min(Bad)
  <2>2. m \in Bad /\ \A y \in Bad : m <= y
    BY <2>1, MinNat
  <2> HIDE DEF m
  <2>3. m \in 0 .. N /\ f[m] # g[m]
    BY <2>2
  <2>4. m # 0
    BY <2>3, <1>3, <1>8
  <2>5. m \in 1 .. N /\ m - 1 \in 0 .. N /\ ~(m <= m - 1)
    BY <2>3, <2>4
  <2>6. f[m - 1] = g[m - 1]
    BY <2>2, <2>5
  <2> QED
    BY <2>3, <2>4, <2>5, <2>6, <1>4, <1>8
<1>10. f[N] = g[N]
  BY <1>9
<1> QED
  BY <1>1, <1>3, <1>7, <1>10 DEF q

NoDot(s) == \A i \in 1 .. Len(s) : s[i] # "."

(* Where the name part of s ends.                                          *)
EndsAt(s, k) == /\ k \in 0 .. Len(s) /\ k <= StemLen
                /\ k = Len(s) \/ k = StemLen \/ s[k + 1] = "."
                /\ \A i \in 1 .. k : s[i] # "."

LEMMA StemEnds ==
  ASSUME NEW s \in Seq(Chars)
  PROVE  /\ EndsAt(s, StemOf(s))
         /\ \A k : EndsAt(s, k) => StemOf(s) = k
<1> DEFINE S == {i \in 0 .. Len(s) : i = Len(s) \/ i = StemLen \/ s[i + 1] = "."}
           m == Min(S)
<1>0. StemLen \in Nat /\ Len(s) \in Nat
  BY Widths
<1>1. S \in SUBSET Nat /\ Len(s) \in S /\ (StemLen <= Len(s) => StemLen \in S)
  BY <1>0
<1>2. m \in S /\ \A y \in S : m <= y
  BY <1>1, MinNat
<1>3. StemOf(s) = m
  BY DEF StemOf
<1> HIDE DEF m
<1>4. m \in 0 .. Len(s) /\ (m = Len(s) \/ m = StemLen \/ s[m + 1] = ".")
  BY <1>2
<1>5. m <= StemLen
  BY <1>0, <1>1, <1>2, <1>4
<1>6. ASSUME NEW i \in 1 .. m PROVE s[i] # "."
  <2> SUFFICES ASSUME s[i] = "." PROVE FALSE
    OBVIOUS
  <2>1. i - 1 \in 0 .. Len(s) /\ (i - 1) + 1 = i /\ ~(m <= i - 1)
    BY <1>0, <1>4
  <2>2. i - 1 \in S
    BY <2>1, Zenon
  <2> QED
    BY <1>2, <2>1, <2>2, Zenon
<1>7. EndsAt(s, m)
  BY <1>4, <1>5, <1>6, Zenon DEF EndsAt
<1>8. ASSUME NEW k, EndsAt(s, k) PROVE m = k
  <2>1. k \in 0 .. Len(s) /\ k <= StemLen /\ \A i \in 1 .. k : s[i] # "."
    BY <1>8, Zenon DEF EndsAt
  <2>2. k \in S
    BY <1>8, Zenon DEF EndsAt
  <2>3. m <= k
    BY <1>2, <2>2, Zenon
  <2>4. ~(m < k)
    <3> SUFFICES ASSUME m < k PROVE FALSE
      OBVIOUS
    <3>1. m # Len(s) /\ m # StemLen /\ m + 1 \in 1 .. k
      BY <1>0, <1>4, <2>1
    <3> QED
      BY <3>1, <1>4, <2>1, Zenon
  <2> QED
    BY <1>4, <2>1, <2>3, <2>4
<1> QED
  BY <1>3, <1>7, <1>8, Zenon

(* The characters of s behind place k that the loop over the extension     *)
(* copies.                                                                 *)
LEMMA ExtIs ==
  ASSUME NEW s \in Seq(Chars), NEW k, EndsAt(s, k)
  PROVE  /\ ~(k < Len(s) /\ s[k + 1] = ".") => ExtOf(s) = <<>>
         /\ k < Len(s) /\ s[k + 1] = "." =>
              LET n == IF k + 1 + ExtLen <= Len(s) THEN k + 1 + ExtLen ELSE Len(s)
              IN ExtOf(s) = SubSeq(s, k + 2, n)
<1> DEFINE S == {k + 1 + ExtLen, Len(s)}
           n == IF k + 1 + ExtLen <= Len(s) THEN k + 1 + ExtLen ELSE Len(s)
<1>1. StemOf(s) = k
  BY StemEnds, Zenon
<1>2. k \in Nat /\ ExtLen \in Nat /\ Len(s) \in Nat
  BY Widths DEF EndsAt
<1>3. S \in SUBSET Nat /\ S # {}
  BY <1>2
<1>4. Min(S) \in S /\ \A y \in S : Min(S) <= y
  BY <1>3, MinNat
<1> DEFINE m == Min(S)
<1> HIDE DEF m
<1>5. /\ m = k + 1 + ExtLen \/ m = Len(s)
      /\ m <= k + 1 + ExtLen /\ m <= Len(s)
  BY <1>4 DEF m
<1>6. m = n
  BY <1>2, <1>5
<1>7. Min({k + 1 + ExtLen, Len(s)}) = n
  BY <1>6 DEF m
<1> HIDE DEF n
<1>8. ~(k < Len(s) /\ s[k + 1] = ".") => ExtOf(s) = <<>>
  BY <1>1, Zenon DEF ExtOf
<1>9. k < Len(s) /\ s[k + 1] = "." => ExtOf(s) = SubSeq(s, k + 2, n)
  BY <1>1, <1>7, Zenon DEF ExtOf
<1> QED
  BY <1>8, <1>9, Zenon DEF n

(* A name part and an extension as format_filename leaves them.            *)
Fields(a, e) == /\ a \in Seq(Chars) /\ Len(a) <= StemLen /\ NoDot(a) /\ UpperCase(a) = a
                /\ e \in Seq(Chars) /\ Len(e) <= ExtLen /\ UpperCase(e) = e
                /\ ~(a = <<>> /\ e = <<".">>)

PaddedName(a, e) == Pad(a, StemLen) \o Pad(e, ExtLen)
AsPrinted(a, e) == IF e = <<>> THEN a ELSE a \o <<".">> \o e

LEMMA StoredFacts ==
  ASSUME NEW a \in Seq(Chars), NEW e \in Seq(Chars), Len(a) <= StemLen, Len(e) <= ExtLen
  PROVE  /\ print_name(PaddedName(a, e)) = AsPrinted(a, e)
         /\ PaddedName(a, e)[1] = IF a = <<>> THEN " " ELSE a[1]
<1> DEFINE x == Pad(a, StemLen)  y == Pad(e, ExtLen)  n == x \o y
<1>0. StemLen \in Nat /\ ExtLen \in Nat /\ StemLen >= 2 /\ ExtLen >= 2
  BY Widths
<1>1. x \in Seq(NameCells) /\ Len(x) = StemLen /\ x[1] = IF 1 <= Len(a) THEN a[1] ELSE " "
  <2>1. 1 \in 1 .. StemLen
    BY <1>0
  <2> QED
    BY <2>1, <1>0, PadFacts
<1>2. y \in Seq(NameCells) /\ Len(y) = ExtLen /\ y[1] = IF 1 <= Len(e) THEN e[1] ELSE " "
  <2>1. 1 \in 1 .. ExtLen
    BY <1>0
  <2> QED
    BY <2>1, <1>0, PadFacts
<1>3. CopyField(x) = a /\ CopyField(y) = e
  BY <1>0, CopyOfPadded
<1>4. PaddedName(a, e) = n
  BY Zenon DEF PaddedName
<1> HIDE DEF x, y
<1>5. SubSeq(n, 1, StemLen) = x /\ SubSeq(n, StemLen + 1, StemLen + ExtLen) = y
  <2>0. Len(x) = StemLen /\ Len(y) = ExtLen
    BY <1>1, <1>2, Zenon
  <2>1. Len(x) >= 1 /\ Len(y) >= 1
    BY <1>0, <2>0
  <2>2. x \in Seq(NameCells) /\ y \in Seq(NameCells)
    BY <1>1, <1>2, Zenon
  <2>3. SubSeq(x \o y, 1, Len(x)) = x /\ SubSeq(x \o y, Len(x) + 1, Len(x) + Len(y)) = y
    BY <2>1, <2>2, TwoParts
  <2> QED
    BY <2>0, <2>3, Zenon
<1>6. n[1] = x[1] /\ n[StemLen + 1] = y[1]
  <2>0. Len(x) = StemLen /\ Len(y) = ExtLen
    BY <1>1, <1>2, Zenon
  <2>1. Len(x) >= 1 /\ Len(y) >= 1
    BY <1>0, <2>0
  <2>2. x \in Seq(NameCells) /\ y \in Seq(NameCells)
    BY <1>1, <1>2, Zenon
  <2>3. (x \o y)[1] = x[1] /\ (x \o y)[Len(x) + 1] = y[1]
    BY <2>1, <2>2, TwoParts
  <2> QED
    BY <2>0, <2>3, Zenon
<1> HIDE DEF n
<1>7. print_name(n) = IF y[1] # " " THEN a \o <<".">> \o e ELSE a
  BY <1>3, <1>5, <1>6, Zenon DEF print_name
<1>8. (y[1] # " ") <=> e # <<>>
  <2>1. CASE e = <<>>
    <3>1. ~(1 <= Len(e))
      BY <2>1
    <3> QED
      BY <3>1, <2>1, <1>2, Zenon
  <2>2. CASE e # <<>>
    <3>1. 1 \in 1 .. Len(e) /\ 1 <= Len(e)
      BY <2>2
    <3>2. e[1] # " "
      BY <3>1, Chosen, Zenon
    <3> QED
      BY <3>1, <3>2, <2>2, <1>2, Zenon
  <2> QED
    BY <2>1, <2>2
<1>9. n[1] = IF a = <<>> THEN " " ELSE a[1]
  <2>1. (1 <= Len(a)) <=> a # <<>>
    OBVIOUS
  <2> QED
    BY <2>1, <1>1, <1>6, Zenon
<1> QED
  BY <1>4, <1>7, <1>8, <1>9, Zenon DEF AsPrinted

(* What is shown is stored as it was.                                      *)
LEMMA ShownIsStored ==
  ASSUME NEW a, NEW e, Fields(a, e)
  PROVE  format_filename(AsPrinted(a, e)) = PaddedName(a, e)
<1> DEFINE p == AsPrinted(a, e)  k == Len(a)
<1>0. StemLen \in Nat /\ ExtLen \in Nat /\ StemLen >= 2 /\ ExtLen >= 2
  BY Widths
<1>1. /\ a \in Seq(Chars) /\ Len(a) <= StemLen /\ NoDot(a) /\ UpperCase(a) = a
      /\ e \in Seq(Chars) /\ Len(e) <= ExtLen /\ UpperCase(e) = e
      /\ ~(a = <<>> /\ e = <<".">>)
  BY Zenon DEF Fields
<1>2. \A i \in 1 .. k : a[i] # "."
  BY <1>1, Zenon DEF NoDot
<1>3. k \in Nat
  BY <1>1
<1>4. /\ p \in Seq(Chars) /\ p \notin DotNames /\ EndsAt(p, k)
      /\ SubSeq(p, 1, k) = a /\ ExtOf(p) = e
  <2>1. CASE e = <<>>
    <3>1. p = a
      BY <2>1, Zenon DEF AsPrinted
    <3>2. p \notin DotNames
      <4>1. ASSUME p \in DotNames PROVE FALSE
        <5>1. a = <<".">> \/ a = <<".", ".">>
          BY <3>1, <4>1, Zenon DEF DotNames
        <5>2. a[1] = "." /\ 1 \in 1 .. k
          BY <5>1
        <5> QED
          BY <5>2, <1>2, Zenon
      <4> QED
        BY <4>1
    <3>3. EndsAt(p, k)
      <4>1. k \in 0 .. Len(a) /\ k = Len(a)
        BY <1>3
      <4> QED
        BY <4>1, <3>1, <1>1, <1>2, Zenon DEF EndsAt
    <3>4. SubSeq(p, 1, k) = a
      BY <3>1, <1>1
    <3>5. ~(k < Len(p))
      BY <3>1, <1>3
    <3>6. ExtOf(p) = e
      BY <3>1, <3>3, <3>5, <1>1, <2>1, ExtIs, Zenon
    <3> QED
      BY <3>1, <3>2, <3>3, <3>4, <3>6, <1>1, Zenon
  <2>2. CASE e # <<>>
    <3> DEFINE d == <<".">>
    <3>0. d \in Seq(Chars) /\ Len(d) = 1 /\ d[1] = "."
      <4>1. "." \in Chars
        BY NamesAssumption, Zenon
      <4> QED
        BY <4>1
    <3>1. p = a \o d \o e
      BY <2>2, Zenon DEF AsPrinted
    <3> HIDE DEF d, p
    <3>2. /\ p \in Seq(Chars) /\ Len(p) = k + 1 + Len(e) /\ p[k + 1] = d[1]
          /\ \A i \in 1 .. k : p[i] = a[i]
          /\ \A i \in 1 .. Len(e) : p[k + 1 + i] = e[i]
      <4>1. Rows(Chars, a, d, e, (a \o d) \o e)
        BY <3>0, <1>1, ThreeParts
      <4>2. Rows(Chars, a, d, e, p)
        BY <4>1, <3>1, Zenon
      <4> QED
        BY <4>2, Zenon DEF Rows
    <3>3. p[k + 1] = "."
      BY <3>2, <3>0, Zenon
    <3>4. \A i \in 1 .. k : p[i] # "."
      BY <3>2, <1>2, Zenon
    <3>5. Len(e) \in Nat \ {0}
      BY <2>2, <1>1
    <3>6. EndsAt(p, k)
      <4>1. k \in 0 .. Len(p)
        BY <3>2, <3>5, <1>3
      <4> QED
        BY <4>1, <3>3, <3>4, <1>1, Zenon DEF EndsAt
    <3>7. p \notin DotNames
      <4>1. ASSUME p \in DotNames PROVE FALSE
        <5>1. p = <<".">> \/ p = <<".", ".">>
          BY <4>1, Zenon DEF DotNames
        <5>2. Len(p) <= 2 /\ (Len(p) = 2 => p[1] = "." /\ p[2] = ".")
          BY <5>1
        <5>3. k = 0 /\ Len(e) = 1 /\ Len(p) = 2
          <6>1. k # 0 => 1 \in 1 .. k /\ Len(p) = 2
            BY <5>2, <3>2, <3>5, <1>3
          <6>2. k = 0
            BY <6>1, <5>2, <3>4, Zenon
          <6>3. Len(p) <= 2 /\ Len(p) = k + 1 + Len(e)
            BY <5>2, <3>2, Zenon
          <6>4. Len(e) \in Nat \ {0}
            BY <3>5
          <6> DEFINE u == Len(e)  v == Len(p)
          <6> HIDE DEF k, u, v
          <6>5. u \in Nat \ {0} /\ v <= 2 /\ v = k + 1 + u /\ k = 0
            BY <6>2, <6>3, <6>4, Zenon DEF u, v
          <6>6. u = 1 /\ v = 2
            BY <6>5
          <6> QED
            BY <6>2, <6>6, Zenon DEF u, v
        <5>4. a = <<>>
          BY <5>3, <1>1
        <5>5. 1 \in 1 .. Len(e) /\ k + 1 + 1 = 2
          BY <5>3
        <5>6. e[1] = "."
          BY <5>2, <5>3, <5>5, <3>2, Zenon
        <5>7. e = <<".">>
          BY <5>3, <5>6, <1>1
        <5> QED
          BY <5>4, <5>7, <1>1, Zenon
      <4> QED
        BY <4>1
    <3>8. SubSeq(p, 1, k) = a
      BY <3>2, <3>5, <1>1, <1>3
    <3>9. ExtOf(p) = SubSeq(p, k + 2, Len(p))
      <4>1. k < Len(p)
        BY <3>2, <3>5, <1>3
      <4> DEFINE n == IF k + 1 + ExtLen <= Len(p) THEN k + 1 + ExtLen ELSE Len(p)
      <4>2. n = Len(p)
        <5>1. Len(p) = k + 1 + Len(e) /\ Len(e) <= ExtLen
          BY <3>2, <1>1, Zenon
        <5> QED
          BY <5>1, <3>5, <1>0, <1>3
      <4>3. ExtOf(p) = SubSeq(p, k + 2, n)
        BY <4>1, <3>2, <3>3, <3>6, ExtIs, Zenon
      <4> HIDE DEF n
      <4> QED
        BY <4>2, <4>3, Zenon
    <3>10. SubSeq(p, k + 2, Len(p)) = e
      BY <3>2, <3>5, <1>1, <1>3
    <3> QED
      BY <3>2, <3>6, <3>7, <3>8, <3>9, <3>10, Zenon
  <2> QED
    BY <2>1, <2>2
<1>5. StemOf(p) = k
  BY <1>4, StemEnds, Zenon
<1> QED
  BY <1>1, <1>4, <1>5, Zenon DEF format_filename, PaddedName

(* What format_filename makes of a name that is not one of the dots.       *)
LEMMA Formatted ==
  ASSUME NEW s \in Seq(Chars), s \notin DotNames
  PROVE  LET a == UpperCase(SubSeq(s, 1, StemOf(s)))
             e == UpperCase(ExtOf(s))
         IN Fields(a, e) /\ format_filename(s) = PaddedName(a, e)
<1> DEFINE k == StemOf(s)  t == SubSeq(s, 1, k)  x == ExtOf(s)
           a == UpperCase(t)  e == UpperCase(x)
           n == IF k + 1 + ExtLen <= Len(s) THEN k + 1 + ExtLen ELSE Len(s)
<1>0. StemLen \in Nat /\ ExtLen \in Nat /\ StemLen >= 2 /\ ExtLen >= 2 /\ Len(s) \in Nat
  BY Widths
<1>1. EndsAt(s, k)
  BY StemEnds
<1>2. k \in 0 .. Len(s) /\ k <= StemLen /\ \A i \in 1 .. k : s[i] # "."
  BY <1>1, Zenon DEF EndsAt
<1>3. /\ ~(k < Len(s) /\ s[k + 1] = ".") => x = <<>>
      /\ k < Len(s) /\ s[k + 1] = "." => x = SubSeq(s, k + 2, n)
  BY <1>1, ExtIs, Zenon
<1> HIDE DEF k, x
<1>4. t \in Seq(Chars) /\ Len(t) = k /\ \A i \in 1 .. k : t[i] = s[i]
  BY <1>0, <1>2
<1>5. n \in Nat /\ n <= Len(s) /\ n <= k + 1 + ExtLen /\ (n = Len(s) \/ n = k + 1 + ExtLen)
  BY <1>0, <1>2
<1> HIDE DEF n, t
<1>6. x \in Seq(Chars) /\ Len(x) <= ExtLen
  <2>1. CASE x = <<>>
    BY <2>1, <1>0
  <2>2. CASE k < Len(s) /\ x = SubSeq(s, k + 2, n)
    BY <2>2, <1>0, <1>2, <1>5
  <2> QED
    BY <2>1, <2>2, <1>3, Zenon
<1>7. /\ a \in Seq(Chars) /\ Len(a) = k /\ UpperCase(a) = a
      /\ \A i \in 1 .. k : a[i] = Upper[t[i]]
  BY <1>4, UpperFacts, Zenon
<1>8. /\ e \in Seq(Chars) /\ Len(e) = Len(x) /\ UpperCase(e) = e
      /\ \A i \in 1 .. Len(x) : e[i] = Upper[x[i]]
  BY <1>6, UpperFacts, Zenon
<1>9. NoDot(a)
  <2> SUFFICES ASSUME NEW i \in 1 .. k PROVE a[i] # "."
    BY <1>7, Zenon DEF NoDot
  <2>1. t[i] \in Chars /\ t[i] # "."
    BY <1>2, <1>4, Chosen, Zenon
  <2> QED
    BY <2>1, <1>7, CharFacts, Zenon
<1> HIDE DEF a, e
<1>10. ~(a = <<>> /\ e = <<".">>)
  <2> SUFFICES ASSUME a = <<>>, e = <<".">> PROVE FALSE
    OBVIOUS
  <2>1. Len(a) = 0 /\ Len(e) = 1 /\ e[1] = "."
    OBVIOUS
  <2>2. k = 0 /\ Len(x) = 1
    BY <2>1, <1>7, <1>8, Zenon
  <2>3. 1 \in 1 .. Len(x)
    BY <2>2
  <2>4. x[1] = "."
    <3>1. x[1] \in Chars /\ Upper[x[1]] = "."
      BY <2>1, <2>3, <1>6, <1>8, Chosen, Zenon
    <3> QED
      BY <3>1, CharFacts, Zenon
  <2>5. x # <<>>
    <3>1. Len(<<>>) = 0 /\ 0 # 1
      OBVIOUS
    <3> QED
      BY <2>2, <3>1, Zenon
  <2>6. 0 < Len(s) /\ s[0 + 1] = "." /\ x = SubSeq(s, 0 + 2, n)
    BY <2>2, <2>5, <1>3, Zenon
  <2>7. n = 2 /\ Len(s) = 2 /\ s[1] = "." /\ s[2] = "."
    <3>1. s[1] = "." /\ x = SubSeq(s, 2, n)
      BY <2>6
    <3>2. n = 2
      <4>1. Len(SubSeq(s, 2, n)) = IF 2 <= n THEN n - 1 ELSE 0
        BY <1>0, <1>5
      <4> QED
        BY <4>1, <3>1, <2>2, <1>5
    <3>3. Len(s) = 2
      BY <3>2, <2>2, <1>0, <1>5
    <3>4. x[1] = s[2]
      BY <3>1, <3>2, <3>3, <1>0
    <3> QED
      BY <3>1, <3>2, <3>3, <3>4, <2>4, Zenon
  <2>8. s = <<".", ".">>
    BY <2>7
  <2> QED
    BY <2>8, Zenon DEF DotNames
<1>11. Len(a) <= StemLen /\ Len(e) <= ExtLen
  BY <1>2, <1>6, <1>7, <1>8, Zenon
<1>12. Fields(a, e)
  BY <1>7, <1>8, <1>9, <1>10, <1>11, Zenon DEF Fields
<1>13. format_filename(s) = PaddedName(a, e)
  BY Zenon DEF format_filename, PaddedName, a, e, t, k, x
<1> QED
  BY <1>12, <1>13, Zenon DEF a, e, t, k, x

LEMMA DotsStored ==
  ASSUME NEW d \in DotNames
  PROVE  /\ d \in Seq(Chars) /\ Len(d) \in {1, 2} /\ d[1] = "."
         /\ format_filename(d) = Pad(d, StemLen + ExtLen)
         /\ Pad(d, StemLen + ExtLen) = PaddedName(d, <<>>)
<1>0. StemLen \in Nat /\ ExtLen \in Nat /\ StemLen >= 2 /\ ExtLen >= 2
  BY Widths
<1>1. "." \in Chars
  BY NamesAssumption, Zenon
<1>2. d = <<".">> \/ d = <<".", ".">>
  BY Zenon DEF DotNames
<1>3. d \in Seq(Chars) /\ Len(d) \in {1, 2} /\ d[1] = "."
  <2>1. CASE d = <<".">>
    <3>1. <<".">> \in Seq(Chars) /\ Len(<<".">>) = 1 /\ <<".">>[1] = "."
      BY <1>1
    <3> QED
      BY <2>1, <3>1, Zenon
  <2>2. CASE d = <<".", ".">>
    <3>1. <<".", ".">> \in Seq(Chars) /\ Len(<<".", ".">>) = 2 /\ <<".", ".">>[1] = "."
      BY <1>1
    <3> QED
      BY <2>2, <3>1, Zenon
  <2> QED
    BY <2>1, <2>2, <1>2, Zenon
<1> DEFINE z == <<>>  x == Pad(d, StemLen)  y == Pad(z, ExtLen)  w == Pad(d, StemLen + ExtLen)
<1>4. z \in Seq(Chars) /\ Len(z) = 0
  OBVIOUS
<1> HIDE DEF z
<1>5. /\ x \in Seq(NameCells) /\ Len(x) = StemLen
      /\ \A i \in 1 .. StemLen : x[i] = IF i <= Len(d) THEN d[i] ELSE " "
  BY <1>0, <1>3, PadFacts, Zenon
<1>6. /\ y \in Seq(NameCells) /\ Len(y) = ExtLen
      /\ \A i \in 1 .. ExtLen : y[i] = IF i <= Len(z) THEN z[i] ELSE " "
  BY <1>0, <1>4, PadFacts, Zenon
<1>7. /\ w \in Seq(NameCells) /\ Len(w) = StemLen + ExtLen
      /\ \A i \in 1 .. StemLen + ExtLen : w[i] = IF i <= Len(d) THEN d[i] ELSE " "
  <2>1. StemLen + ExtLen \in Nat
    BY <1>0
  <2> QED
    BY <2>1, <1>3, PadFacts, Zenon
<1> HIDE DEF x, y, w
<1>8. Row(NameCells, x, y, x \o y)
  BY <1>5, <1>6, RowOf
<1> DEFINE c == x \o y
<1> HIDE DEF c
<1>9. /\ c \in Seq(NameCells) /\ Len(c) = Len(x) + Len(y)
      /\ \A i \in 1 .. Len(x) : c[i] = x[i]
      /\ \A i \in 1 .. Len(y) : c[Len(x) + i] = y[i]
  BY <1>8, Zenon DEF Row, c
<1>10. ASSUME NEW i \in 1 .. StemLen + ExtLen PROVE w[i] = c[i]
  <2>1. CASE i <= StemLen
    <3>1. i \in 1 .. StemLen
      BY <2>1, <1>0
    <3> QED
      BY <3>1, <1>5, <1>7, <1>9, Zenon
  <2>2. CASE ~(i <= StemLen)
    <3> DEFINE j == i - StemLen
    <3>1. j \in 1 .. ExtLen /\ StemLen + j = i /\ ~(j <= 0)
      BY <2>2, <1>0
    <3>2. ~(i <= Len(d))
      <4> DEFINE m == Len(d)
      <4>1. m = 1 \/ m = 2
        BY <1>3, Zenon
      <4> HIDE DEF m
      <4>2. ~(i <= m)
        BY <4>1, <2>2, <1>0
      <4> QED
        BY <4>2, Zenon DEF m
    <3> HIDE DEF j
    <3>3. c[i] = y[j] /\ y[j] = " "
      BY <3>1, <1>4, <1>5, <1>6, <1>9, Zenon
    <3>4. w[i] = " "
      BY <3>2, <1>7, Zenon
    <3> QED
      BY <3>3, <3>4, Zenon
  <2> QED
    BY <2>1, <2>2
<1>11. w = c
  <2>1. Len(c) = Len(w) /\ Len(w) = StemLen + ExtLen
    BY <1>5, <1>6, <1>7, <1>9, Zenon
  <2>2. \A i \in 1 .. Len(w) : w[i] = c[i]
    BY <2>1, <1>10, Zenon
  <2>3. w \in Seq(NameCells) /\ c \in Seq(NameCells)
    BY <1>7, <1>9, Zenon
  <2> QED
    BY <2>1, <2>2, <2>3, SeqEqual
<1>12. PaddedName(d, z) = c
  BY Zenon DEF PaddedName, c, x, y
<1> QED
  BY <1>3, <1>11, <1>12, Zenon DEF format_filename, w, z

(* Dot entries.                                                            *)
LEMMA DotsApart ==
  ASSUME NEW s \in Seq(Chars), NEW d \in DotNames
  PROVE  format_filename(s) = Pad(d, StemLen + ExtLen) <=> s = d
<1>0. StemLen \in Nat /\ ExtLen \in Nat /\ StemLen >= 2 /\ ExtLen >= 2
  BY Widths
<1>1. s = d => format_filename(s) = Pad(d, StemLen + ExtLen)
  BY DotsStored, Zenon
<1>2. ASSUME s \notin DotNames, format_filename(s) = Pad(d, StemLen + ExtLen) PROVE FALSE
  <2> DEFINE a == UpperCase(SubSeq(s, 1, StemOf(s)))  e == UpperCase(ExtOf(s))
  <2>1. Fields(a, e) /\ format_filename(s) = PaddedName(a, e)
    BY <1>2, Formatted, Zenon
  <2> HIDE DEF a, e
  <2>2. a \in Seq(Chars) /\ e \in Seq(Chars) /\ Len(a) <= StemLen /\ Len(e) <= ExtLen /\ NoDot(a)
    BY <2>1, Zenon DEF Fields
  <2>3. PaddedName(a, e)[1] = IF a = <<>> THEN " " ELSE a[1]
    BY <2>2, StoredFacts, Zenon
  <2>4. a # <<>> => 1 \in 1 .. Len(a)
    BY <2>2
  <2>5. a # <<>> => a[1] # "."
    BY <2>2, <2>4, Zenon DEF NoDot
  <2>6. Pad(d, StemLen + ExtLen)[1] = "."
    <3>1. d \in Seq(Chars) /\ Len(d) \in {1, 2} /\ d[1] = "."
      BY DotsStored, Zenon
    <3>2. StemLen + ExtLen \in Nat /\ 1 \in 1 .. StemLen + ExtLen
      BY <1>0
    <3>3. 1 <= Len(d)
      <4>1. Len(d) = 1 \/ Len(d) = 2
        BY <3>1, Zenon
      <4>2. 1 <= 1 /\ 1 <= 2
        OBVIOUS
      <4> QED
        BY <4>1, <4>2, Zenon
    <3> QED
      BY <3>1, <3>2, <3>3, PadFacts, Zenon
  <2>7. " " # "."
    OBVIOUS
  <2> QED
    BY <2>1, <2>3, <2>5, <2>6, <2>7, <1>2, Zenon
<1>3. ASSUME NEW x \in DotNames, Pad(x, StemLen + ExtLen) = Pad(d, StemLen + ExtLen) PROVE x = d
  <2> DEFINE p == <<".">>  q == <<".", ".">>  N == StemLen + ExtLen
  <2>1. (x = p \/ x = q) /\ (d = p \/ d = q)
    BY Zenon DEF DotNames
  <2>2. N \in Nat /\ 2 \in 1 .. N
    BY <1>0
  <2>3. p \in DotNames /\ q \in DotNames
    BY Zenon DEF DotNames
  <2>4. p \in Seq(Chars) /\ q \in Seq(Chars)
    BY <2>3, DotsStored, Zenon
  <2>5. ~(2 <= Len(p)) /\ 2 <= Len(q) /\ q[2] = "."
    OBVIOUS
  <2> HIDE DEF p, q, N
  <2>6. Pad(p, N)[2] = " " /\ Pad(q, N)[2] = "."
    BY <2>2, <2>4, <2>5, PadFacts, Zenon
  <2>7. " " # "."
    OBVIOUS
  <2>8. Pad(x, N) = Pad(d, N)
    BY <1>3, Zenon DEF N
  <2>9. Pad(p, N) # Pad(q, N)
    BY <2>6, <2>7, Zenon
  <2>10. ~(x = p /\ d = q) /\ ~(x = q /\ d = p)
    BY <2>8, <2>9, Zenon
  <2> QED
    BY <2>1, <2>10, Zenon
<1>4. s \in DotNames => format_filename(s) = Pad(s, StemLen + ExtLen)
  BY DotsStored, Zenon
<1> QED
  BY <1>1, <1>2, <1>3, <1>4, Zenon

(* What is listed finds the file.                                          *)
LEMMA ListedAgain ==
  ASSUME NEW s \in Seq(Chars)
  PROVE  format_filename(print_name(format_filename(s))) = format_filename(s)
<1>1. CASE s \in DotNames
  <2> DEFINE z == <<>>
  <2>1. /\ s \in Seq(Chars) /\ Len(s) \in {1, 2}
        /\ format_filename(s) = Pad(s, StemLen + ExtLen) /\ Pad(s, StemLen + ExtLen) = PaddedName(s, z)
    BY <1>1, DotsStored, Zenon
  <2>2. z \in Seq(Chars) /\ Len(s) <= StemLen /\ Len(z) <= ExtLen
    <3>1. Len(s) = 1 \/ Len(s) = 2
      BY <2>1, Zenon
    <3>2. 1 <= StemLen /\ 2 <= StemLen /\ 0 <= ExtLen
      BY Widths
    <3>3. z \in Seq(Chars) /\ Len(z) = 0
      OBVIOUS
    <3> QED
      BY <3>1, <3>2, <3>3, Zenon
  <2>3. print_name(PaddedName(s, z)) = AsPrinted(s, z)
    BY <2>2, StoredFacts
  <2>4. AsPrinted(s, z) = s
    BY Zenon DEF AsPrinted
  <2> QED
    BY <2>1, <2>3, <2>4, Zenon
<1>2. CASE s \notin DotNames
  <2> DEFINE a == UpperCase(SubSeq(s, 1, StemOf(s)))  e == UpperCase(ExtOf(s))
  <2>1. Fields(a, e) /\ format_filename(s) = PaddedName(a, e)
    BY <1>2, Formatted, Zenon
  <2> HIDE DEF a, e
  <2>2. a \in Seq(Chars) /\ e \in Seq(Chars) /\ Len(a) <= StemLen /\ Len(e) <= ExtLen
    BY <2>1, Zenon DEF Fields
  <2>3. print_name(PaddedName(a, e)) = AsPrinted(a, e)
    BY <2>2, StoredFacts, Zenon
  <2>4. format_filename(AsPrinted(a, e)) = PaddedName(a, e)
    BY <2>1, ShownIsStored, Zenon
  <2> QED
    BY <2>1, <2>3, <2>4, Zenon
<1> QED
  BY <1>1, <1>2

(* An 8.3 name is listed in upper case.                                    *)
LEMMA ShortNameListed ==
  ASSUME NEW s \in Seq(Chars), IsShortName(s)
  PROVE  print_name(format_filename(s)) = UpperCase(s)
<1> DEFINE dots == {i \in DOMAIN s : s[i] = "."}
<1>0. /\ StemLen \in Nat /\ ExtLen \in Nat /\ StemLen >= 2 /\ ExtLen >= 2 /\ Len(s) \in Nat
      /\ DOMAIN s = 1 .. Len(s)
  BY Widths
<1>1. s \notin DotNames
  <2> SUFFICES ASSUME s \in DotNames PROVE FALSE
    OBVIOUS
  <2>1. s[1] = "." /\ Len(s) \in {1, 2}
    BY DotsStored, Zenon
  <2>2. 1 \in 1 .. Len(s)
    <3>1. Len(s) = 1 \/ Len(s) = 2
      BY <2>1, Zenon
    <3> QED
      BY <3>1
  <2>3. 1 \in dots
    BY <2>1, <2>2, <1>0, Zenon
  <2>4. \A i \in 2 .. StemLen + 1 : i # 1
    OBVIOUS
  <2> QED
    BY <2>3, <2>4, Zenon DEF IsShortName
<1> DEFINE k == StemOf(s)  t == SubSeq(s, 1, k)  x == ExtOf(s)  a == UpperCase(t)  e == UpperCase(x)
<1>2. Fields(a, e) /\ format_filename(s) = PaddedName(a, e)
  BY <1>1, Formatted, Zenon
<1>3. print_name(PaddedName(a, e)) = AsPrinted(a, e)
  <2> HIDE DEF a, e
  <2>1. a \in Seq(Chars) /\ e \in Seq(Chars) /\ Len(a) <= StemLen /\ Len(e) <= ExtLen
    BY <1>2, Zenon DEF Fields
  <2> QED
    BY <2>1, StoredFacts, Zenon
<1>4. CASE dots = {} /\ Len(s) \in 1 .. StemLen
  <2>1. EndsAt(s, Len(s))
    <3>1. \A i \in 1 .. Len(s) : s[i] # "."
      BY <1>0, <1>4, Zenon
    <3>2. Len(s) \in 0 .. Len(s) /\ Len(s) <= StemLen
      BY <1>0, <1>4
    <3> QED
      BY <3>1, <3>2, Zenon DEF EndsAt
  <2>2. k = Len(s) /\ ~(Len(s) < Len(s))
    BY <2>1, <1>0, StemEnds
  <2>3. x = <<>>
    BY <2>1, <2>2, ExtIs, Zenon
  <2>4. SubSeq(s, 1, Len(s)) = s
    OBVIOUS
  <2>5. a = UpperCase(s)
    BY <2>2, <2>4, Zenon
  <2>6. e = <<>>
    <3>1. UpperCase(<<>>) = <<>>
      BY DEF UpperCase
    <3> QED
      BY <2>3, <3>1, Zenon
  <2> QED
    BY <2>5, <2>6, <1>2, <1>3, Zenon DEF AsPrinted
<1>5. ASSUME NEW i \in 2 .. StemLen + 1, dots = {i}, Len(s) \in i + 1 .. i + ExtLen
      PROVE  print_name(format_filename(s)) = UpperCase(s)
  <2>1. s[i] = "." /\ \A j \in 1 .. Len(s) : s[j] = "." => j = i
    BY <1>0, <1>5, Zenon
  <2>2. i - 1 \in 0 .. Len(s) /\ i - 1 <= StemLen /\ (i - 1) + 1 = i /\ i - 1 < Len(s) /\ i - 1 \in Nat
    BY <1>0, <1>5
  <2>23. i \in Nat /\ Len(s) <= i + ExtLen /\ Len(s) \in Nat /\ ExtLen \in Nat
    BY <1>0, <1>5
  <2>3. \A j \in 1 .. i - 1 : j \in 1 .. Len(s) /\ j # i
    BY <1>0, <1>5
  <2>4. EndsAt(s, i - 1)
    BY <2>1, <2>2, <2>3, Zenon DEF EndsAt
  <2>5. k = i - 1
    BY <2>4, StemEnds, Zenon
  <2> DEFINE n == IF (i - 1) + 1 + ExtLen <= Len(s) THEN (i - 1) + 1 + ExtLen ELSE Len(s)
  <2>6. x = SubSeq(s, (i - 1) + 2, n)
    BY <2>1, <2>2, <2>4, ExtIs, Zenon
  <2>7. n = Len(s) /\ (i - 1) + 2 = i + 1
    <3> HIDE <1>5
    <3> QED
      BY <2>23
  <2>8. x = SubSeq(s, i + 1, Len(s))
    BY <2>6, <2>7, Zenon
  <2>9. t = SubSeq(s, 1, i - 1)
    BY <2>5, Zenon
  <2> HIDE DEF x, t, n, k
  <2>10. /\ t \in Seq(Chars) /\ Len(t) = i - 1 /\ \A j \in 1 .. i - 1 : t[j] = s[j]
    BY <2>2, <2>9, <1>0
  <2>11. /\ x \in Seq(Chars) /\ Len(x) = Len(s) - i /\ \A j \in 1 .. Len(s) - i : x[j] = s[i + j]
    BY <2>2, <2>8, <1>0, <1>5
  <2>12. /\ a \in Seq(Chars) /\ Len(a) = i - 1 /\ \A j \in 1 .. i - 1 : a[j] = Upper[s[j]]
    <3>1. /\ a \in Seq(Chars) /\ Len(a) = Len(t)
          /\ \A j \in 1 .. Len(t) : a[j] = Upper[t[j]]
      BY <2>10, UpperFacts, Zenon
    <3> HIDE DEF a
    <3> QED
      BY <2>10, <3>1, Zenon
  <2>13. /\ e \in Seq(Chars) /\ Len(e) = Len(s) - i /\ \A j \in 1 .. Len(s) - i : e[j] = Upper[s[i + j]]
    <3>1. /\ e \in Seq(Chars) /\ Len(e) = Len(x)
          /\ \A j \in 1 .. Len(x) : e[j] = Upper[x[j]]
      BY <2>11, UpperFacts, Zenon
    <3> HIDE DEF e
    <3> QED
      BY <2>11, <3>1, Zenon
  <2> HIDE DEF a, e
  <2>14. e # <<>>
    BY <2>13, <1>0, <1>5
  <2> DEFINE d == <<".">>  p == (a \o d) \o e  u == UpperCase(s)
  <2>15. d \in Seq(Chars) /\ Len(d) = 1 /\ d[1] = "."
    <3>1. "." \in Chars
      BY NamesAssumption, Zenon
    <3> QED
      BY <3>1
  <2>16. AsPrinted(a, e) = p
    BY <2>14, Zenon DEF AsPrinted
  <2> HIDE DEF d
  <2>17. Rows(Chars, a, d, e, p)
    BY <2>12, <2>13, <2>15, ThreeParts
  <2> HIDE DEF p
  <2>18. /\ p \in Seq(Chars) /\ Len(p) = (i - 1) + 1 + (Len(s) - i) /\ p[(i - 1) + 1] = d[1]
         /\ \A j \in 1 .. i - 1 : p[j] = a[j]
         /\ \A j \in 1 .. Len(s) - i : p[(i - 1) + 1 + j] = e[j]
    BY <2>17, <2>12, <2>13, Zenon DEF Rows
  <2>19. u \in Seq(Chars) /\ Len(u) = Len(s) /\ \A j \in 1 .. Len(s) : u[j] = Upper[s[j]]
    BY UpperFacts, Zenon
  <2> HIDE DEF u
  <2>20. Len(p) = Len(u)
    <3>1. (i - 1) + 1 + (Len(s) - i) = Len(s)
      BY <1>0
    <3> QED
      BY <3>1, <2>18, <2>19, Zenon
  <2>21. ASSUME NEW j \in 1 .. Len(s) PROVE p[j] = u[j]
    <3>1. CASE j < i
      <4>1. j \in 1 .. i - 1
        BY <3>1
      <4> QED
        BY <4>1, <2>12, <2>18, <2>19, Zenon
    <3>2. CASE j = i
      <4>1. p[j] = "." /\ s[j] = "."
        BY <3>2, <2>1, <2>2, <2>15, <2>18, Zenon
      <4>2. Upper["."] = "."
        BY NamesAssumption, Zenon
      <4> QED
        BY <4>1, <4>2, <2>19, Zenon
    <3>3. CASE j > i
      <4> DEFINE h == j - i
      <4>1. h \in 1 .. Len(s) - i /\ (i - 1) + 1 + h = j /\ i + h = j
        BY <3>3, <1>0
      <4> HIDE DEF h
      <4>2. p[j] = e[h] /\ e[h] = Upper[s[j]]
        BY <4>1, <2>13, <2>18, Zenon
      <4> QED
        BY <4>2, <2>19, Zenon
    <3> QED
      BY <3>1, <3>2, <3>3
  <2>22. p = u
    <3>1. Len(p) = Len(s)
      BY <2>19, <2>20, Zenon
    <3>2. \A j \in 1 .. Len(p) : p[j] = u[j]
      BY <3>1, <2>21, Zenon
    <3> QED
      BY <3>2, <2>18, <2>19, <2>20, SeqEqual, Zenon
  <2> QED
    BY <2>16, <2>22, <1>2, <1>3, Zenon DEF u
<1> QED
  BY <1>4, <1>5, Zenon DEF IsShortName

LEMMA TypedIsCharacters == NamesSpec => [](typed \in Seq(Chars))
<1> DEFINE Inv == typed \in Seq(Chars)
<1>1. NamesInit => Inv
  BY DEF NamesInit
<1>2. Inv /\ [NamesNext]_typed => Inv'
  <2> SUFFICES ASSUME Inv, [NamesNext]_typed PROVE Inv'
    OBVIOUS
  <2>1. ASSUME NEW c \in Chars, typed' = Append(typed, c) PROVE Inv'
    BY <2>1
  <2>2. CASE typed' = <<>>
    BY <2>2
  <2>3. CASE UNCHANGED typed
    BY <2>3
  <2> QED
    BY <2>1, <2>2, <2>3 DEF NamesNext
<1> QED
  BY <1>1, <1>2, PTL DEF NamesSpec

(* For name and extension fields of any width, at least two: whatever name *)
(* was typed to create a file, what print_name lists of it leads           *)
(* format_filename to the same entry, and an 8.3 name is listed as typed,  *)
(* in upper case.                                                          *)
THEOREM WhatIsListedIsFound == NamesSpec => []ListedNameFindsFile
<1>1. typed \in Seq(Chars) => ListedNameFindsFile
  BY ListedAgain, ShortNameListed, Zenon DEF ListedNameFindsFile
<1> QED
  BY <1>1, TypedIsCharacters, PTL

(* No name but '.' and '..' is formatted as theirs is, so that no file can *)
(* be created, found or removed in the place of a dot entry.               *)
THEOREM DotNamesAreReserved == NamesSpec => []DotsAreReserved
<1>1. typed \in Seq(Chars) => DotsAreReserved
  BY DotsApart, Zenon DEF DotsAreReserved, DotNames
<1> QED
  BY <1>1, TypedIsCharacters, PTL
=============================================================================
