------------------------------ MODULE Rtl8139 ------------------------------
(***************************************************************************)
(* The network driver of src/kernel/drivers/net/rtl8139.c and the card it  *)
(* drives.  Card and driver run side by side: they share the receive ring, *)
(* the interrupt status register and the read pointer CAPR.  The card is   *)
(* external; it is modelled as the driver sets it up: only good frames are *)
(* accepted, and a frame that begins in the ring may run past its end.     *)
(* Addresses and lengths are bytes.  rtl8139_poll is three steps (read the *)
(* header, hand the frame over, advance), because the card goes on         *)
(* receiving between them.                                                 *)
(***************************************************************************)
EXTENDS Integers, Sequences, FiniteSets, Functions

CONSTANTS RxBufSize,   \* RX_BUF_SIZE
          Mtu,         \* the 1500 of RX_TOTAL_SIZE
          Lengths,     \* packet_len of the frames on the wire, CRC included
          Tags,        \* what distinguishes frames otherwise
          Replies,     \* the tags whose handler sends an answer
          Pings,       \* TRUE: the user also sends
          QueueBound,  \* bound on the frames in the ring
          Garbage,     \* the tag of bytes the card did not write as a frame
          NoFrame

ASSUME Rtl8139Assumption ==
  /\ RxBufSize \in Nat /\ RxBufSize > 16 /\ RxBufSize % 8 = 0 /\ 65536 % RxBufSize = 0
  /\ Mtu \in Nat /\ Mtu % 8 = 4 /\ QueueBound \in Nat
  /\ Lengths \subseteq 4 .. Mtu + 18 /\ \A l \in Lengths : l + 8 < RxBufSize
  /\ Replies \subseteq Tags /\ Garbage \notin Tags /\ Pings \in BOOLEAN

VARIABLES mem,        \* the frames in the ring that were not given back, in
                      \* the order of their arrival
          addr,       \* card: where the next frame goes
          ptr,        \* card: up to where the driver has read
          isr,        \* the bits set in the interrupt status register
          owed,       \* the descriptors the card has still to transmit
          rx_offset, current_tx_descriptor,
          pc,         \* where the kernel is
          resume,     \* where it goes on once a send returns
          hdr,        \* the frame rtl8139_poll is looking at
          last        \* what was handed to ethernet_handle_packet last

card == <<addr, owed>>
driver == <<rx_offset, current_tx_descriptor, pc, resume, hdr, last>>
vars == <<mem, ptr, isr, card, driver>>

ROK == 0
TOK == 2
RXOVW == 4

Align(n, a) == ((n + a - 1) \div a) * a

RX_TOTAL_UNPADDED == RxBufSize + 16   \* mutant: no room behind the ring

RX_TOTAL_SIZE == RxBufSize + 16 + Mtu

(* What kmalloc makes of the request (ALIGN in Heap.tla).                  *)
BlockBytes == Align(RX_TOTAL_SIZE, 8)

(* The ring bytes of a frame: header, data and CRC, to a multiple of 4.    *)
Space(len) == Align(len + 4, 4)

Frame == [len : Lengths, tag : Tags]
Content(f) == [len |-> f.len, tag |-> f.tag]

EndOf(f) == f.at + 4 + f.len

Overlap(f, g) == f.at < EndOf(g) /\ g.at < EndOf(f)

(* rtl8139_init.                                                           *)
Init == /\ mem = <<>> /\ addr = 0 /\ ptr = 0 /\ isr = {} /\ owed = {}
        /\ rx_offset = 0 /\ current_tx_descriptor = 0
        /\ pc = "idle" /\ resume = "idle" /\ hdr = NoFrame /\ last = NoFrame
-----------------------------------------------------------------------------
(* The card.                                                               *)

(* The room the card sees, 0 standing for an empty ring.                   *)
Avail == (RxBufSize + ptr - addr) % RxBufSize

Fits(len) == Avail = 0 \/ Space(len) < Avail

(* A frame that another is written over is lost.                           *)
Spoilt(f) == [i \in 1 .. Len(mem) |->
                IF Overlap(f, mem[i]) THEN [mem[i] EXCEPT !.tag = Garbage] ELSE mem[i]]

CardReceive(len, tag) ==
  LET f == [at |-> addr, len |-> len, tag |-> tag]
  IN /\ Len(mem) < QueueBound
     /\ Fits(len)
     /\ mem' = Append(Spoilt(f), f)
     /\ addr' = Align(EndOf(f), 4) % RxBufSize
     /\ isr' = isr \cup {ROK}
     /\ UNCHANGED <<ptr, owed, driver>>

CardDrop(len) ==
  /\ ~Fits(len)
  /\ isr' = isr \cup {RXOVW}
  /\ UNCHANGED <<mem, ptr, card, driver>>

CardTransmit ==
  /\ \E d \in owed : owed' = owed \ {d}
  /\ isr' = isr \cup {TOK}
  /\ UNCHANGED <<mem, addr, ptr, driver>>

(* The BUFE bit of the command register.                                   *)
BufferEmpty == addr = ptr
-----------------------------------------------------------------------------
(* The driver.                                                             *)

(* rtl8139_send_packet up to the wait; then goes on at ret.                *)
StartSend(ret) ==
  /\ owed' = owed \cup {current_tx_descriptor}
  /\ pc' = "sending" /\ resume' = ret

(* command_ping: a send that no received frame asked for.                  *)
command_ping ==
  /\ Pings /\ pc = "idle"
  /\ StartSend("idle")
  /\ UNCHANGED <<mem, addr, ptr, isr, rx_offset, current_tx_descriptor, hdr, last>>

WaitBitAsROK == current_tx_descriptor   \* mutant: the wrong bits

(* The bit of ISR that rtl8139_send_packet waits for and acknowledges.     *)
WaitBit == current_tx_descriptor + 2

SendReturns ==
  /\ pc = "sending" /\ WaitBit \in isr
  /\ isr' = isr \ {WaitBit}
  /\ current_tx_descriptor' = (current_tx_descriptor + 1) % 4
  /\ pc' = resume
  /\ UNCHANGED <<mem, card, ptr, rx_offset, resume, hdr, last>>

(* What the driver finds at an offset: the frame the card put there, or    *)
(* old bytes, which may look like any header.                              *)
HeaderAt(o) ==
  LET found == {f \in Range(mem) : f.at = o /\ f.tag # Garbage}
  IN IF found # {} THEN found ELSE [at : {o}, len : Lengths, tag : {Garbage}]

(* One turn of the loop of rtl8139_poll up to the test of the status.      *)
(* Frames with errors never reach the ring: init leaves AER and AR off.    *)
PollHeader ==
  /\ pc = "idle" /\ ~BufferEmpty
  /\ hdr' \in HeaderAt(rx_offset)
  /\ pc' = "handling"
  /\ UNCHANGED <<mem, ptr, isr, card, rx_offset, current_tx_descriptor, resume, last>>

(* ethernet_handle_packet sees what is in the ring by now.                 *)
HandlePacket ==
  /\ pc = "handling"
  /\ last' = IF hdr \in Range(mem) THEN Content(hdr) ELSE [len |-> hdr.len, tag |-> Garbage]
  /\ \/ /\ hdr.tag \in Replies
        /\ StartSend("advance")
     \/ /\ hdr.tag \notin Replies
        /\ pc' = "advance"
        /\ UNCHANGED <<owed, resume>>
  /\ UNCHANGED <<mem, addr, ptr, isr, rx_offset, current_tx_descriptor, hdr>>

OffsetUnaligned == (rx_offset + hdr.len + 4) % RxBufSize   \* mutant: no rounding

NextOffset == Align(rx_offset + hdr.len + 4, 4) % RxBufSize

PtrAsWritten(o) == (o + 16) % RxBufSize   \* mutant: CAPR without the - 0x10

PtrLeft(o) == ptr   \* mutant: CAPR is not written

(* outw to CAPR: 16 bits, and the card adds the 0x10 again.                *)
PtrAfter(o) == (((o - 16) % 65536) + 16) % RxBufSize

(* The rest of the turn: the frame is given back and ROK cleared.          *)
PollAdvance ==
  /\ pc = "advance"
  /\ rx_offset' = NextOffset
  /\ ptr' = PtrAfter(NextOffset)
  /\ mem' = IF mem # <<>> /\ Head(mem) = hdr THEN Tail(mem) ELSE mem
  /\ isr' = isr \ {ROK}
  /\ pc' = "idle"
  /\ UNCHANGED <<card, current_tx_descriptor, resume, hdr, last>>
-----------------------------------------------------------------------------
Driver == command_ping \/ SendReturns \/ PollHeader \/ HandlePacket \/ PollAdvance

Next == \/ \E l \in Lengths, t \in Tags : CardReceive(l, t)
        \/ \E l \in Lengths : CardDrop(l)
        \/ CardTransmit
        \/ Driver

Spec == Init /\ [][Next]_vars

(* The shell polls once for every line and ping two thousand times, the    *)
(* loops run on, and the card transmits what it was told to.  Nobody has   *)
(* to ping.                                                                *)
FairSpec == /\ Spec /\ WF_vars(CardTransmit)
            /\ WF_vars(SendReturns) /\ WF_vars(PollHeader)
            /\ WF_vars(HandlePacket) /\ WF_vars(PollAdvance)
-----------------------------------------------------------------------------
(* The frame the kernel looks at was handed to the protocols already.      *)
Handed == pc = "advance" \/ (pc = "sending" /\ resume = "advance")

(* What was received and not handed over, in the order of arrival.         *)
Waiting == LET k == IF Handed THEN 1 ELSE 0
           IN [i \in 1 .. Len(mem) - k |-> Content(mem[i + k])]

Abstract == INSTANCE FrameQueue WITH Frames <- Frame, queue <- Waiting

(* rtl8139_poll hands the frames over in the order of arrival, each once   *)
(* and intact, while the card keeps writing into the same ring: offset,    *)
(* wrap-around and CAPR agree with what the card does.                     *)
InOrder == Abstract!Spec

(* The kernel waits for a bit of ISR that the card does not set when a     *)
(* frame is out (see SendsReturn): nothing runs any more.                  *)
Hung == pc = "sending" /\ WaitBit # TOK

(* The frames are handed over in order, each once and intact and, unless a *)
(* send hangs, every frame in the ring is handed over in the end.          *)
InOrderEventually == InOrder /\ (<>[]Hung \/ Abstract!Progress)

(* What the card writes stays inside the block that kmalloc gave to        *)
(* rtl8139_init, for a frame of any length at any offset of the ring.      *)
StaysInBlock == \A i \in 1 .. Len(mem) : EndOf(mem[i]) <= BlockBytes

(* The bytes of the ring that a frame takes up.                            *)
RingBytes(f) == {(f.at + k) % RxBufSize : k \in 0 .. Space(f.len) - 1}

(* The driver gives back all it has read: the card refuses a frame only    *)
(* when the frames that were not read leave no room for it.                *)
LossOnlyWhenFull ==
  LET unread == UNION {RingBytes(mem[i]) : i \in 1 .. Len(mem)}
  IN \A l \in Lengths : Fits(l) \/ Cardinality(unread) + Space(l) >= RxBufSize

(* The frame on ethernet_send_packet's stack is left alone until the card  *)
(* has read it: rtl8139_send_packet never returns before.                  *)
BufferHeldUntilSent == owed # {} => pc = "sending"

(* "Wait for TOK (Transmit OK)" (rtl8139.c:72): a send returns once its    *)
(* frame is out.                                                           *)
SendsReturn == (pc = "sending") ~> (pc # "sending")
=============================================================================
