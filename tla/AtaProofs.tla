----------------------------- MODULE AtaProofs -----------------------------
(***************************************************************************)
(* The disk driver reads what it wrote and makes it durable, for every     *)
(* width of the address registers, every set of sectors and contents, and  *)
(* any number of power losses.  The argument: status bits, job and program *)
(* counter go together (InStep), so that driver and drive take turns; the  *)
(* registers hold the address of the call (Addressed); and what the drive  *)
(* would answer is what returned writes have put there (Agree), the sector *)
(* being written excepted.  That the medium has it too needs that the      *)
(* cache is empty outside of a write (Drained).                            *)
(***************************************************************************)
EXTENDS Ata, Arithmetic

Sectors == Values \cup {Blank}

(* The state of the disk and the arguments of the call have their types.   *)
Typed ==
  /\ takes \in BOOLEAN /\ bsy \in BOOLEAN /\ drq \in BOOLEAN /\ queued \in BOOLEAN
  /\ medium \in [Addresses -> Sectors] /\ want \in [Addresses -> Sectors]
  /\ cache \in [Addresses -> Sectors \cup {None}]
  /\ lba \in Addresses /\ losses \in Nat

(* Driver and drive take turns: what the drive is doing, and which bits it *)
(* shows, follow from where the driver is.                                 *)
InStep ==
  /\ pc \in {"idle", "select", "command", "fetch", "got", "offer", "flush", "settle"}
  /\ bsy <=> job # "none"
  /\ job \in {"none", "read", "write", "store", "flush"}
  /\ job = "read" => pc = "fetch"
  /\ job = "write" => pc = "offer"
  /\ job = "store" => pc \in {"flush", "settle"}
  /\ job = "flush" => pc = "settle"
  /\ drq => pc \in {"fetch", "offer"} /\ job = "none"
  /\ pc = "fetch" => job = "read" \/ drq
  /\ queued => job = "store" /\ pc = "settle"
  /\ pc \in {"select", "command"} => call \in {"read", "write"}
  /\ pc = "fetch" => call = "read"
  /\ pc \in {"offer", "flush", "settle"} => call = "write"
  /\ call = "write" /\ pc \in {"select", "command", "offer", "flush", "settle"} => buffer \in Values
  /\ job = "store" => port = buffer

(* The drive looks where the driver means.                                 *)
Addressed == pc \in {"command", "fetch", "offer", "flush", "settle"} => Address = lba

Storing == pc \in {"flush", "settle"}

(* The drive would answer a read with what was written last.               *)
Agree ==
  /\ \A a \in Addresses : Written(a) = IF a = lba /\ Storing /\ job # "store" THEN buffer ELSE want[a]
  /\ pc = "fetch" /\ drq => port = want[lba]

(* On a drive that takes a flush while busy, only the sector being written *)
(* is cached, and it is no longer when the drive has come to rest.         *)
Drained ==
  takes => /\ \A a \in Addresses : cache[a] # None => a = lba /\ Storing
           /\ pc = "settle" => (job = "store" /\ queued) \/ job = "flush"
                               \/ (job = "none" /\ cache[lba] = None)

IInv == Typed /\ InStep /\ Addressed /\ Agree /\ Drained /\ ReadsLastWritten
-----------------------------------------------------------------------------
(* The four registers that Select writes hold the whole address: none of   *)
(* its bits is lost or moved (ata.c, the outb calls before the command).   *)
LEMMA RegistersHoldAddress ==
  ASSUME NEW s \in Addresses
  PROVE  Regs(s)[1] + Byte * (Regs(s)[2] + Byte * (Regs(s)[3] + Byte * Regs(s)[4])) = s
<1> DEFINE q1 == s \div Byte
           q2 == q1 \div Byte
           q3 == q2 \div Byte
<1>0. Byte \in Nat \ {0} /\ Nibble \in Nat \ {0} /\ s \in Nat
  BY AtaAssumption DEF Addresses
<1>1. q1 \in Nat /\ s % Byte \in Nat /\ s = Byte * q1 + (s % Byte)
  BY <1>0, DivMod
<1>2. q2 \in Nat /\ q1 % Byte \in Nat /\ q1 = Byte * q2 + (q1 % Byte)
  BY <1>0, <1>1, DivMod
<1>3. q3 \in Nat /\ q2 % Byte \in Nat /\ q2 = Byte * q3 + (q2 % Byte)
  BY <1>0, <1>2, DivMod
<1>4. s \div (Byte * Byte) = q2
  BY <1>0, DivDiv
<1>5. s \div (Byte * Byte * Byte) = q3
  <2>1. Byte * Byte \in Nat \ {0}
    BY <1>0
  <2>2. s \div ((Byte * Byte) * Byte) = (s \div (Byte * Byte)) \div Byte
    BY <1>0, <2>1, DivDiv
  <2> QED
    BY <1>4, <2>2
<1> HIDE DEF q1, q2, q3
<1>6. q3 < Nibble
  <2> DEFINE B3 == Byte * Byte * Byte
  <2>1. B3 \in Nat \ {0}
    BY <1>0
  <2>2. s < B3 * Nibble
    BY <1>0 DEF Addresses
  <2>3. s = B3 * q3 + (s % B3) /\ s % B3 \in Nat
    BY <1>0, <1>5, <2>1, DivMod
  <2> HIDE DEF B3
  <2>4. Nibble <= q3 => B3 * Nibble <= B3 * q3
    BY <1>0, <1>3, <2>1, MulMono
  <2>5. B3 * q3 \in Nat /\ B3 * Nibble \in Nat
    BY <1>0, <1>3, <2>1
  <2> QED
    BY <1>0, <1>3, <2>2, <2>3, <2>4, <2>5
<1>7. q3 % Nibble = q3
  <2>1. q3 = Nibble * 0 + q3
    BY <1>0, <1>3
  <2> QED
    BY <1>0, <1>3, <1>6, <2>1, DivUnique
<1>8. Regs(s) = <<s % Byte, q1 % Byte, q2 % Byte, q3>>
  BY <1>4, <1>5, <1>7 DEF Regs, q1
<1>9. /\ Regs(s)[1] = s % Byte /\ Regs(s)[2] = q1 % Byte
      /\ Regs(s)[3] = q2 % Byte /\ Regs(s)[4] = q3
  BY <1>8
<1> QED
  BY <1>0, <1>1, <1>2, <1>3, <1>9

(* Sector 0 exists.                                                        *)
LEMMA ZeroIsAddress == 0 \in Addresses
<1>1. Byte * Byte * Byte * Nibble \in Nat \ {0}
  BY AtaAssumption
<1> QED
  BY <1>1 DEF Addresses

LEMMA InitIInv == Init => IInv
<1> SUFFICES ASSUME Init PROVE IInv
  OBVIOUS
<1>1. Typed
  BY ZeroIsAddress DEF Init, Typed, Sectors
<1>2. InStep /\ Addressed /\ ReadsLastWritten
  BY DEF Init, InStep, Addressed, ReadsLastWritten
<1>3. Agree
  BY DEF Init, Agree, Written, Storing
<1>4. Drained
  BY DEF Init, Drained
<1> QED
  BY <1>1, <1>2, <1>3, <1>4 DEF IInv
-----------------------------------------------------------------------------
(* One lemma for each step of the drive and of the driver.                 *)

LEMMA DriveReadKeeps == IInv /\ DriveRead => IInv'
<1> SUFFICES ASSUME IInv, DriveRead PROVE IInv'
  OBVIOUS
<1> USE DEF IInv, DriveRead, driver
<1>1. Address' = Address /\ \A a \in Addresses : Written(a)' = Written(a)
  BY DEF Address, Written
<1>2. pc = "fetch" /\ Address = lba /\ Written(lba) = want[lba]
  BY DEF InStep, Addressed, Agree, Storing, Typed
<1>3. Typed'
  BY DEF Typed
<1>4. InStep'
  BY <1>2 DEF InStep, Typed
<1>5. Addressed' /\ ReadsLastWritten'
  BY <1>1 DEF Addressed, ReadsLastWritten
<1>6. Agree'
  BY <1>1, <1>2 DEF Agree, Storing
<1>7. Drained'
  BY <1>2 DEF Drained, Storing
<1> QED
  BY <1>3, <1>4, <1>5, <1>6, <1>7

LEMMA DriveAcceptKeeps == IInv /\ DriveAccept => IInv'
<1> SUFFICES ASSUME IInv, DriveAccept PROVE IInv'
  OBVIOUS
<1> USE DEF IInv, DriveAccept, driver
<1>1. Address' = Address /\ \A a \in Addresses : Written(a)' = Written(a)
  BY DEF Address, Written
<1>2. pc = "offer"
  BY DEF InStep
<1>3. Typed'
  BY DEF Typed
<1>4. InStep'
  BY <1>2 DEF InStep, Typed
<1>5. Addressed' /\ ReadsLastWritten'
  BY <1>1 DEF Addressed, ReadsLastWritten
<1>6. Agree'
  BY <1>1, <1>2 DEF Agree, Storing
<1>7. Drained'
  BY <1>2 DEF Drained, Storing
<1> QED
  BY <1>3, <1>4, <1>5, <1>6, <1>7

LEMMA DriveStoreKeeps == IInv /\ DriveStore => IInv'
<1> SUFFICES ASSUME IInv, DriveStore PROVE IInv'
  OBVIOUS
<1> USE DEF IInv, DriveStore, driver
<1>1. Address' = Address
  BY DEF Address
<1>2. /\ pc \in {"flush", "settle"} /\ Address = lba /\ port = buffer /\ buffer \in Values
      /\ ~drq /\ buffer # None
  BY AtaAssumption DEF InStep, Addressed
<1>3. Typed'
  BY <1>2 DEF Typed, Sectors
<1>4. InStep'
  BY <1>2 DEF InStep, Typed
<1>5. Addressed' /\ ReadsLastWritten'
  BY <1>1, <1>2 DEF Addressed, ReadsLastWritten
<1>6. \A a \in Addresses : Written(a)' = IF a = lba THEN buffer ELSE Written(a)
  BY <1>2 DEF Written, Typed
<1>7. Agree'
  BY <1>2, <1>6 DEF Agree, Storing
<1>8. Drained'
  BY <1>2 DEF Drained, Storing, Typed
<1> QED
  BY <1>3, <1>4, <1>5, <1>7, <1>8

LEMMA DriveFlushKeeps == IInv /\ DriveFlush => IInv'
<1> SUFFICES ASSUME IInv, DriveFlush PROVE IInv'
  OBVIOUS
<1> USE DEF IInv, DriveFlush, driver
<1>1. Address' = Address /\ \A a \in Addresses : Written(a)' = Written(a)
  BY DEF Address, Written
<1>2. pc = "settle" /\ ~drq /\ ~queued
  BY DEF InStep
<1>3. Typed'
  <2>1. \A a \in Addresses : Written(a) \in Sectors
    BY DEF Typed, Written
  <2> QED
    BY <2>1 DEF Typed
<1>4. InStep'
  BY <1>2 DEF InStep, Typed
<1>5. Addressed' /\ ReadsLastWritten'
  BY <1>1 DEF Addressed, ReadsLastWritten
<1>6. Agree'
  BY <1>1, <1>2 DEF Agree, Storing
<1>7. Drained'
  BY <1>2 DEF Drained, Storing, Typed
<1> QED
  BY <1>3, <1>4, <1>5, <1>6, <1>7

LEMMA DriveEvictKeeps == ASSUME NEW b \in Addresses PROVE IInv /\ DriveEvict(b) => IInv'
<1> SUFFICES ASSUME IInv, DriveEvict(b) PROVE IInv'
  OBVIOUS
<1> USE DEF IInv, DriveEvict, driver
<1>1. Address' = Address /\ \A a \in Addresses : Written(a)' = Written(a)
  BY DEF Address, Written, Typed
<1>2. Typed'
  BY DEF Typed
<1>3. InStep'
  BY DEF InStep, Typed
<1>4. Addressed' /\ ReadsLastWritten'
  BY <1>1 DEF Addressed, ReadsLastWritten
<1>5. Agree'
  BY <1>1 DEF Agree, Storing
<1>6. Drained'
  BY DEF Drained, Storing, Typed
<1> QED
  BY <1>2, <1>3, <1>4, <1>5, <1>6

LEMMA PowerLossKeeps == IInv /\ PowerLoss => IInv'
<1> SUFFICES ASSUME IInv, PowerLoss PROVE IInv'
  OBVIOUS
<1> USE DEF IInv, PowerLoss
<1>1. Typed'
  <2>1. losses' \in Nat /\ cache' \in [Addresses -> Sectors \cup {None}]
    BY DEF Typed
  <2> QED
    BY <2>1 DEF Typed
<1>2. InStep' /\ Addressed' /\ ReadsLastWritten'
  BY DEF InStep, Addressed, ReadsLastWritten
<1>3. Agree'
  BY DEF Agree, Storing, Written
<1>4. Drained'
  BY DEF Drained
<1> QED
  BY <1>1, <1>2, <1>3, <1>4

(* ata_read_sector and ata_write_sector.                                   *)
LEMMA CallKeeps ==
  ASSUME NEW c, NEW s \in Lbas, NEW v,
         c = "read" \/ (c = "write" /\ v \in Values)
  PROVE  IInv /\ Call(c, s, v) => IInv'
<1> SUFFICES ASSUME IInv, Call(c, s, v) PROVE IInv'
  OBVIOUS
<1> USE DEF IInv, Call, drive
<1>1. \A a \in Addresses : Written(a)' = Written(a)
  BY DEF Written
<1>2. Typed'
  BY AtaAssumption DEF Typed
<1>3. InStep' /\ Addressed' /\ ReadsLastWritten'
  BY DEF InStep, Addressed, ReadsLastWritten, Typed
<1>4. Agree'
  BY <1>1 DEF Agree, Storing
<1>5. Drained'
  BY DEF Drained, Storing
<1> QED
  BY <1>2, <1>3, <1>4, <1>5

LEMMA SelectKeeps == IInv /\ Select => IInv'
<1> SUFFICES ASSUME IInv, Select PROVE IInv'
  OBVIOUS
<1> USE DEF IInv, Select, drive
<1>1. \A a \in Addresses : Written(a)' = Written(a)
  BY DEF Written
<1>2. Typed'
  BY DEF Typed
<1>3. InStep' /\ ReadsLastWritten'
  BY DEF InStep, ReadsLastWritten, Typed
<1>4. Addressed'
  BY RegistersHoldAddress DEF Addressed, Address, Typed
<1>5. Agree'
  BY <1>1 DEF Agree, Storing
<1>6. Drained'
  BY DEF Drained, Storing
<1> QED
  BY <1>2, <1>3, <1>4, <1>5, <1>6

LEMMA SendCommandKeeps == IInv /\ SendCommand => IInv'
<1> SUFFICES ASSUME IInv, SendCommand PROVE IInv'
  OBVIOUS
<1> USE DEF IInv, SendCommand
<1>1. Address' = Address /\ \A a \in Addresses : Written(a)' = Written(a)
  BY DEF Address, Written
<1>2. ~bsy /\ bsy' /\ job' = call /\ queued' = queued /\ job = "none" /\ ~queued
      /\ call \in {"read", "write"}
  BY DEF Command, InStep, Typed
<1>3. Typed'
  BY <1>2 DEF Typed, Command
<1>4. InStep' /\ ReadsLastWritten'
  BY <1>2 DEF InStep, ReadsLastWritten, Typed
<1>5. Addressed'
  BY <1>1, <1>2 DEF Addressed
<1>6. Agree'
  BY <1>1, <1>2 DEF Agree, Storing, InStep
<1>7. Drained'
  BY <1>2 DEF Drained, Storing
<1> QED
  BY <1>3, <1>4, <1>5, <1>6, <1>7

LEMMA FetchKeeps == IInv /\ Fetch => IInv'
<1> SUFFICES ASSUME IInv, Fetch PROVE IInv'
  OBVIOUS
<1> USE DEF IInv, Fetch
<1>1. Address' = Address /\ \A a \in Addresses : Written(a)' = Written(a)
  BY DEF Address, Written
<1>2. drq /\ buffer' = want[lba] /\ job = "none"
  BY DEF FetchReady, InStep, Agree
<1>3. Typed'
  BY DEF Typed
<1>4. InStep'
  BY <1>2 DEF InStep, Typed
<1>5. Addressed' /\ ReadsLastWritten'
  BY <1>1, <1>2 DEF Addressed, ReadsLastWritten
<1>6. Agree'
  BY <1>1 DEF Agree, Storing
<1>7. Drained'
  BY DEF Drained, Storing
<1> QED
  BY <1>3, <1>4, <1>5, <1>6, <1>7

LEMMA ReadReturnsKeeps == IInv /\ ReadReturns => IInv'
<1> SUFFICES ASSUME IInv, ReadReturns PROVE IInv'
  OBVIOUS
<1> USE DEF IInv, ReadReturns, drive
<1>1. \A a \in Addresses : Written(a)' = Written(a)
  BY DEF Written
<1>2. Typed'
  BY DEF Typed
<1>3. InStep' /\ Addressed' /\ ReadsLastWritten'
  BY DEF InStep, Addressed, ReadsLastWritten, Typed
<1>4. Agree'
  BY <1>1 DEF Agree, Storing
<1>5. Drained'
  BY DEF Drained, Storing
<1> QED
  BY <1>2, <1>3, <1>4, <1>5

LEMMA OfferKeeps == IInv /\ Offer => IInv'
<1> SUFFICES ASSUME IInv, Offer PROVE IInv'
  OBVIOUS
<1> USE DEF IInv, Offer
<1>1. Address' = Address /\ \A a \in Addresses : Written(a)' = Written(a)
  BY DEF Address, Written
<1>2. Typed'
  BY DEF Typed
<1>3. InStep'
  BY DEF InStep, Typed
<1>4. Addressed' /\ ReadsLastWritten'
  BY <1>1 DEF Addressed, ReadsLastWritten
<1>5. Agree'
  BY <1>1 DEF Agree, Storing
<1>6. Drained'
  BY DEF Drained, Storing
<1> QED
  BY <1>2, <1>3, <1>4, <1>5, <1>6

LEMMA SendFlushKeeps == IInv /\ SendFlush => IInv'
<1> SUFFICES ASSUME IInv, SendFlush PROVE IInv'
  OBVIOUS
<1> USE DEF IInv, SendFlush
<1>1. Address' = Address /\ \A a \in Addresses : Written(a)' = Written(a)
  BY DEF Address, Written
<1>2. /\ \/ job = "none" /\ job' = "flush" /\ bsy' /\ queued' = queued
         \/ job = "store" /\ job' = "store" /\ bsy' /\ queued' = takes
      /\ ~queued /\ ~drq
  BY DEF Command, InStep, Typed
<1>3. Typed'
  BY <1>2 DEF Typed, Command
<1>4. InStep' /\ ReadsLastWritten'
  BY <1>2 DEF InStep, ReadsLastWritten, Typed
<1>5. Addressed'
  BY <1>1, <1>2 DEF Addressed
<1>6. Agree'
  BY <1>1, <1>2 DEF Agree, Storing
<1>7. Drained'
  BY <1>2 DEF Drained, Storing
<1> QED
  BY <1>3, <1>4, <1>5, <1>6, <1>7

LEMMA WriteReturnsKeeps == IInv /\ WriteReturns => IInv'
<1> SUFFICES ASSUME IInv, WriteReturns PROVE IInv'
  OBVIOUS
<1> USE DEF IInv, WriteReturns, drive
<1>1. \A a \in Addresses : Written(a)' = Written(a)
  BY DEF Written
<1>2. job = "none" /\ ~drq /\ ~queued /\ buffer \in Values
  BY DEF Settled, InStep
<1>3. Typed'
  BY <1>2 DEF Typed, Sectors
<1>4. InStep' /\ Addressed' /\ ReadsLastWritten'
  BY <1>2 DEF InStep, Addressed, ReadsLastWritten, Typed
<1>5. Agree'
  BY <1>1, <1>2 DEF Agree, Storing, Typed
<1>6. Drained'
  BY <1>2 DEF Drained, Storing
<1> QED
  BY <1>3, <1>4, <1>5, <1>6

LEMMA StutterKeeps == IInv /\ UNCHANGED vars => IInv'
<1> SUFFICES ASSUME IInv, UNCHANGED vars PROVE IInv'
  OBVIOUS
<1> USE DEF IInv, vars, drive, driver
<1>1. Address' = Address /\ \A a \in Addresses : Written(a)' = Written(a)
  BY DEF Address, Written
<1> QED
  BY <1>1 DEF Typed, InStep, Addressed, Agree, Drained, Storing, ReadsLastWritten
-----------------------------------------------------------------------------
(* Every step of driver, drive and power supply keeps the invariant.       *)
LEMMA NextKeeps == IInv /\ [Next]_vars => IInv'
<1> SUFFICES ASSUME IInv, [Next]_vars PROVE IInv'
  OBVIOUS
<1>1. ASSUME NEW s \in Lbas, ata_read_sector(s) PROVE IInv'
  BY <1>1, CallKeeps DEF ata_read_sector
<1>2. ASSUME NEW s \in Lbas, NEW v \in Values, ata_write_sector(s, v) PROVE IInv'
  BY <1>2, CallKeeps DEF ata_write_sector
<1>3. CASE Driver
  BY <1>3, SelectKeeps, SendCommandKeeps, FetchKeeps, ReadReturnsKeeps, OfferKeeps,
     SendFlushKeeps, WriteReturnsKeeps DEF Driver
<1>4. CASE Drive
  BY <1>4, DriveReadKeeps, DriveAcceptKeeps, DriveStoreKeeps, DriveFlushKeeps DEF Drive
<1>5. CASE \E a \in Addresses : DriveEvict(a)
  BY <1>5, DriveEvictKeeps
<1>6. CASE PowerLoss
  BY <1>6, PowerLossKeeps
<1>7. CASE Wait \/ UNCHANGED vars
  BY <1>7, StutterKeeps DEF Wait
<1> QED
  BY <1>1, <1>2, <1>3, <1>4, <1>5, <1>6, <1>7 DEF Next

LEMMA IInvAlways == Spec => []IInv
  BY InitIInv, NextKeeps, PTL DEF Spec

(* A read gives what the last write at that address put there, or what a   *)
(* power loss has left: the ports, the registers and the waits of ata.c    *)
(* never let the driver take words of another sector or of an earlier      *)
(* transfer.                                                               *)
THEOREM ReadsAreRight == Spec => []ReadsLastWritten
<1>1. IInv => ReadsLastWritten
  BY DEF IInv
<1> QED
  BY <1>1, IInvAlways, PTL

(* On a drive that takes a flush while it is busy, what ata_write_sector   *)
(* has returned from is on the medium, and so is every other sector at any *)
(* moment: what Fat32.tla takes for granted of a sector write.             *)
THEOREM WritesAreDurable == Spec => []DurableOnReturn
<1>1. IInv => DurableOnReturn
  <2> SUFFICES ASSUME IInv, takes, NEW s \in Lbas, s # lba \/ pc \in {"idle", "got"}
               PROVE  medium[s] = want[s]
    BY DEF DurableOnReturn
  <2>1. s \in Addresses /\ cache[s] = None
    BY AtaAssumption DEF IInv, Drained, Storing
  <2>2. Written(s) = want[s]
    BY <2>1 DEF IInv, Agree, Storing
  <2> QED
    BY <2>1, <2>2 DEF Written
<1> QED
  BY <1>1, IInvAlways, PTL
=============================================================================
