------------------------------ MODULE Numerals ------------------------------
(***************************************************************************)
(* Numbers to text and back: atoi and itoa of src/kernel/libc/string.c, %d *)
(* of console_printf, and the calculator.  A string is a sequence of       *)
(* characters, the digits being the numbers 0 to 9.  An int has IntMod     *)
(* values (2^32 in the code), a byte of an address Octet (256).            *)
(***************************************************************************)
EXTENDS Integers, Sequences, SequencesExt, FiniteSetsExt

CONSTANTS IntMod, Octet,
          Numbers,    \* operands typed into the calculator
          Octets,     \* bytes of the addresses given to ping
          Minus, Dot, Plus, Times, Slash

ASSUME NumeralsAssumption ==
  /\ IntMod \in Nat /\ IntMod % 2 = 0 /\ IntMod > 20 /\ Octet \in Nat /\ Octet > 1
  /\ Octets \subseteq 0 .. Octet - 1
  /\ Numbers \subseteq 0 .. (IntMod \div 2) - 1
  /\ {Minus, Dot, Plus, Times, Slash} \cap (0 .. 9) = {}

VARIABLE job   \* what is converted

INT_MIN == -(IntMod \div 2)
Ints == INT_MIN .. -INT_MIN - 1

(* Sums and products of ints wrap in this build.                           *)
ToInt(n) == ((n - INT_MIN) % IntMod) + INT_MIN

Prefix(s) == Min({i \in 0 .. Len(s) : i = Len(s) \/ s[i + 1] \notin 0 .. 9})

atoi(s) ==
  LET value[i \in 0 .. Prefix(s)] == IF i = 0 THEN 0 ELSE ToInt(value[i - 1] * 10 + s[i])
  IN value[Prefix(s)]

(* The digits of a number as the loops find them, the lowest first.        *)
LowFirst(n) ==
  LET digits[k \in 0 .. n] == IF k = 0 THEN <<>> ELSE <<k % 10>> \o digits[k \div 10]
  IN digits[n]

(* itoa negates in an unsigned number, and turns the string around.        *)
itoa(n) ==
  IF n = 0 THEN <<0>>
  ELSE IF n < 0 THEN Reverse(Append(LowFirst((-n) % IntMod), Minus))
  ELSE Reverse(LowFirst(n))

(* num = -num.  For INT_MIN this overflows: a loop that tests num > 0 ends *)
(* at once, and one that is compiled for positive numbers only divides the *)
(* same bits as an unsigned number.                                        *)
Negated(n) == IF n = INT_MIN THEN {0, -INT_MIN} ELSE {-n}

PrintDecimalUnsigned(n) ==   \* mutant: the sign is not looked at
  IF n = 0 THEN {<<0>>} ELSE {Reverse(LowFirst(n % IntMod))}

(* The texts that %d of console_printf, and the end of the calculator, may *)
(* print: the number itself is negated.                                    *)
PrintDecimal(n) ==
  IF n = 0 THEN {<<0>>}
  ELSE IF n < 0 THEN {<<Minus>> \o Reverse(LowFirst(m)) : m \in Negated(n)}
  ELSE {Reverse(LowFirst(n))}
-----------------------------------------------------------------------------
OperatorAtStart(s) == 1   \* mutant: op_ptr is not moved

OperatorAt(s) == Prefix(s) + 1

Apply(op, a, b) ==
  CASE op = Plus  -> ToInt(a + b)
    [] op = Minus -> ToInt(a - b)
    [] op = Times -> ToInt(a * b)
    [] op = Slash -> IF b = 0 THEN 0 ELSE a \div b
    [] OTHER -> 0

(* What the calculator may print; without an operator it prints 0.         *)
calculator_app(s) ==
  LET at == OperatorAt(s)
  IN PrintDecimal(IF at > Len(s) THEN 0
                  ELSE Apply(s[at], atoi(s), atoi(SubSeq(s, at + 1, Len(s)))))
-----------------------------------------------------------------------------
Jobs == [kind : {"number"}, n : Ints]
   \cup [kind : {"address"}, q : [1 .. 4 -> Octets]]
   \cup [kind : {"calc"}, a : Numbers, op : {Plus, Minus, Times, Slash}, b : Numbers]

NoJob == [kind |-> "none"]

JobInit == job = NoJob
JobNext == \/ job = NoJob /\ job' \in Jobs
           \/ job # NoJob /\ job' = NoJob
JobSpec == JobInit /\ [][JobNext]_job
-----------------------------------------------------------------------------
(* The value of a string of digits with an optional sign.                  *)
Value(s) ==
  LET digits == IF s[1] = Minus THEN Tail(s) ELSE s
      sum[i \in 0 .. Len(digits)] == IF i = 0 THEN 0 ELSE 10 * sum[i - 1] + digits[i]
  IN IF s[1] = Minus THEN -sum[Len(digits)] ELSE sum[Len(digits)]

(* itoa writes every int so that it reads as that number, the smallest     *)
(* included, with no leading zero, and atoi reads back what is not         *)
(* negative; %d and the calculator print the same, except that of INT_MIN  *)
(* they may print the sign alone.                                          *)
IntIsText ==
  job.kind = "number" =>
    /\ Value(itoa(job.n)) = job.n
    /\ Len(itoa(job.n)) > 1 => itoa(job.n)[1] # 0
    /\ job.n >= 0 => atoi(itoa(job.n)) = job.n
    /\ PrintDecimal(job.n) = {itoa(job.n)} \cup (IF job.n = INT_MIN THEN {<<Minus>>} ELSE {})

(* The calculator prints the value of the line, with an int's wrap-around. *)
CalculatorRight ==
  job.kind = "calc" =>
    LET value == Apply(job.op, job.a, job.b)
    IN value # INT_MIN => calculator_app(itoa(job.a) \o <<job.op>> \o itoa(job.b)) = {itoa(value)}
=============================================================================
