------------------------------ MODULE Checksum ------------------------------
(***************************************************************************)
(* net_checksum of src/kernel/net/ipv4.c, with which IPv4 headers and ICMP *)
(* messages are sealed.  A byte has Byte values (256 in the code) and a    *)
(* word two bytes, the low one first.                                      *)
(***************************************************************************)
EXTENDS Integers, Sequences

CONSTANTS Byte,      \* values of a byte
          Samples,   \* the bytes that packets are made of
          MaxBytes   \* bound on the length of a packet

ASSUME ChecksumAssumption ==
  /\ Byte \in Nat /\ Byte > 1 /\ MaxBytes \in Nat /\ Samples \subseteq 0 .. Byte - 1

VARIABLE packet

Word == Byte * Byte
WordCount(p) == Len(p) \div 2
WordAt(p, i) == p[2 * i - 1] + Byte * p[2 * i]

(* The sum of the first n words.                                           *)
SumWords(p, n) == LET sum[i \in 0 .. n] == IF i = 0 THEN 0 ELSE sum[i - 1] + WordAt(p, i) IN sum[n]

SumOf(p) == SumWords(p, WordCount(p)) + (IF Len(p) % 2 = 1 THEN p[Len(p)] ELSE 0)

FoldOnce(s) == ((s % Word) + s \div Word) % Word   \* mutant: IF instead of WHILE

(* The loop that adds the carries back in.                                 *)
Fold(s) == LET fold[n \in 0 .. s] == IF n < Word THEN n ELSE fold[(n % Word) + n \div Word] IN fold[s]

net_checksum(p) == Word - 1 - Fold(SumOf(p))

(* The sender clears bytes 3 and 4, and stores the sum there.              *)
Seal(p) == LET c == net_checksum([p EXCEPT ![3] = 0, ![4] = 0])
           IN [p EXCEPT ![3] = c % Byte, ![4] = c \div Byte]

(* A packet is put together byte by byte.                                  *)
PacketInit == packet = <<>>
PacketNext == \/ /\ Len(packet) < MaxBytes
                 /\ \E b \in Samples : packet' = Append(packet, b)
              \/ packet # <<>> /\ packet' = <<>>     \* and sent
PacketSpec == PacketInit /\ [][PacketNext]_packet
-----------------------------------------------------------------------------
(* "Standard Internet Checksum (RFC 1071)": the complement of the sum of   *)
(* all bytes, a last odd one included, modulo 2^16 - 1.  And "Verify       *)
(* Checksum (Should result in 0 if correct)": whoever receives a packet    *)
(* that ipv4_send, icmp_handle or ping has sealed accepts it, whatever     *)
(* carries the sum makes.                                                  *)
ReceiverAccepts ==
  LET padded == IF Len(packet) % 2 = 1 THEN Append(packet, 0) ELSE packet
  IN /\ (net_checksum(packet) + SumWords(padded, WordCount(padded))) % (Word - 1) = 0
     /\ Len(packet) >= 4 => net_checksum(Seal(packet)) = 0
=============================================================================
