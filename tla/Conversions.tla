---------------------------- MODULE Conversions ----------------------------
(***************************************************************************)
(* Dotted addresses: parse_ip of src/kernel/libc/string.c, with which the  *)
(* shell's ping reads what is typed, and MAKE_IP of the network stack.     *)
(***************************************************************************)
EXTENDS Numerals, Bitwise

CutAt(s, c) == IF Contains(s, c) THEN Min({i \in DOMAIN s : s[i] = c}) ELSE 0

(* The first part of what is left of the string, and what comes after it;  *)
(* the last part is read again when there is no dot left.                  *)
Part(s) == IF CutAt(s, Dot) = 0 THEN s ELSE SubSeq(s, 1, CutAt(s, Dot) - 1)
Rest(s) == IF CutAt(s, Dot) = 0 THEN s ELSE SubSeq(s, CutAt(s, Dot) + 1, Len(s))

Shift(i) == Octet ^ i

parse_ip(s) ==
  LET left[i \in 0 .. 4] == IF i = 0 THEN s ELSE Rest(left[i - 1])
      res[i \in 0 .. 4] == IF i = 0 THEN 0
                           ELSE res[i - 1] | ((atoi(Part(left[i - 1])) * Shift(i - 1)) % Octet ^ 4)
  IN res[4]

MAKE_IP(q) == q[1] + q[2] * Octet + q[3] * Octet ^ 2 + q[4] * Octet ^ 3
-----------------------------------------------------------------------------
Dotted(q) == itoa(q[1]) \o <<Dot>> \o itoa(q[2]) \o <<Dot>> \o itoa(q[3]) \o <<Dot>> \o itoa(q[4])

(* Ints are printed and read back (IntIsText), and a dotted address given  *)
(* to ping becomes the number that MAKE_IP makes of it, in the byte order  *)
(* of ARP cache and packets.                                               *)
TextIsNumber ==
  /\ IntIsText
  /\ job.kind = "address" => parse_ip(Dotted(job.q)) = MAKE_IP(job.q)
=============================================================================
