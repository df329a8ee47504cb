-------------------------------- MODULE Ata --------------------------------
(***************************************************************************)
(* The disk driver of src/kernel/fs/ata.c and the drive behind its ports,  *)
(* which run side by side: the driver looks at the status register, the    *)
(* drive works, keeps what is written in a cache, and loses the cache when *)
(* the power fails.  The drive is external.  It shows BSY by the time the  *)
(* driver's next port access is over, moves a sector's words in one step,  *)
(* and takes or ignores a flush that comes while it is busy.               *)
(***************************************************************************)
EXTENDS Integers, FiniteSets

CONSTANTS Byte, Nibble,   \* values of an address register, of the last one
          Lbas, Values,   \* what the file system asks for
          Blank, Noise,   \* a sector never written, bytes that are no sector
          None,
          MaxLosses       \* bound on power losses

Addresses == 0 .. Byte * Byte * Byte * Nibble - 1

ASSUME AtaAssumption ==
  /\ Byte \in Nat \ {0, 1} /\ Nibble \in Nat \ {0} /\ Lbas \subseteq Addresses
  /\ MaxLosses \in Nat
  /\ Noise \notin Values \cup {Blank} /\ None \notin Values \cup {Blank}

VARIABLES takes,          \* the drive takes a flush while BSY is set
          medium, cache,  \* the drive: address -> sector; None: not cached
          bsy, drq,       \* its status bits
          job, queued,    \* what it does, and whether a flush follows
          regs, port,     \* its address registers and its sector buffer
          pc, call, lba, buffer,   \* the driver
          want,           \* what a returned write has put at an address
          losses

drive == <<takes, medium, cache, bsy, drq, job, queued, port>>
driver == <<regs, pc, call, lba, buffer, want>>
vars == <<drive, driver, losses>>

Init == /\ takes \in BOOLEAN
        /\ medium = [a \in Addresses |-> Blank] /\ cache = [a \in Addresses |-> None]
        /\ bsy = FALSE /\ drq = FALSE /\ job = "none" /\ queued = FALSE
        /\ regs = <<0, 0, 0, 0>> /\ port = Noise
        /\ pc = "idle" /\ call = "none" /\ lba = 0 /\ buffer = Noise
        /\ want = medium /\ losses = 0
-----------------------------------------------------------------------------
(* The drive.                                                              *)

Address == regs[1] + Byte * (regs[2] + Byte * (regs[3] + Byte * regs[4]))

(* What the drive has at an address.                                      *)
Written(a) == IF cache[a] # None THEN cache[a] ELSE medium[a]

DriveRead ==
  /\ job = "read"
  /\ port' = Written(Address)
  /\ bsy' = FALSE /\ drq' = TRUE /\ job' = "none"
  /\ UNCHANGED <<takes, medium, cache, queued, driver, losses>>

DriveAccept ==
  /\ job = "write"
  /\ bsy' = FALSE /\ drq' = TRUE /\ job' = "none"
  /\ UNCHANGED <<takes, medium, cache, queued, port, driver, losses>>

DriveStore ==
  /\ job = "store"
  /\ cache' = [cache EXCEPT ![Address] = port]
  /\ bsy' = queued /\ job' = IF queued THEN "flush" ELSE "none"
  /\ queued' = FALSE
  /\ UNCHANGED <<takes, medium, drq, port, driver, losses>>

DriveFlush ==
  /\ job = "flush"
  /\ medium' = [a \in Addresses |-> Written(a)]
  /\ cache' = [a \in Addresses |-> None]
  /\ bsy' = FALSE /\ job' = "none"
  /\ UNCHANGED <<takes, drq, queued, port, driver, losses>>

(* The drive empties its cache when it likes.                              *)
DriveEvict(a) ==
  /\ cache[a] # None
  /\ medium' = [medium EXCEPT ![a] = cache[a]]
  /\ cache' = [cache EXCEPT ![a] = None]
  /\ UNCHANGED <<takes, bsy, drq, job, queued, port, driver, losses>>

Drive == DriveRead \/ DriveAccept \/ DriveStore \/ DriveFlush

(* Power is lost; the machine boots again.                                 *)
PowerLoss ==
  /\ losses < MaxLosses /\ losses' = losses + 1
  /\ cache' = [a \in Addresses |-> None] /\ want' = medium
  /\ bsy' = FALSE /\ drq' = FALSE /\ job' = "none" /\ queued' = FALSE
  /\ pc' = "idle" /\ call' = "none"
  /\ UNCHANGED <<takes, medium, regs, port, lba, buffer>>

(* The command register.                                                   *)
Command(c) ==
  \/ /\ ~bsy
     /\ bsy' = TRUE /\ job' = c /\ UNCHANGED queued
  \/ /\ bsy /\ UNCHANGED <<bsy, job>>
     /\ queued' = takes
-----------------------------------------------------------------------------
(* The driver.                                                             *)

Call(c, s, v) ==
  /\ pc = "idle"
  /\ call' = c /\ lba' = s /\ buffer' = v /\ pc' = "select"
  /\ UNCHANGED <<drive, regs, want, losses>>

ata_read_sector(s) == Call("read", s, Noise)
ata_write_sector(s, v) == Call("write", s, v)

Regs(s) ==
  <<s % Byte, (s \div Byte) % Byte, (s \div (Byte * Byte)) % Byte, (s \div (Byte * Byte * Byte)) % Nibble>>

(* ata_wait and the registers.                                             *)
Select ==
  /\ pc = "select" /\ ~bsy
  /\ regs' = Regs(lba) /\ pc' = "command"
  /\ UNCHANGED <<drive, call, lba, buffer, want, losses>>

SendCommand ==
  /\ pc = "command"
  /\ Command(call)
  /\ pc' = IF call = "read" THEN "fetch" ELSE "offer"
  /\ UNCHANGED <<takes, medium, cache, drq, port, regs, call, lba, buffer, want, losses>>

FetchReadyAtOnce == TRUE   \* mutant: no ata_wait after the command

FetchReady == ~bsy

(* ata_read_sector looks at BSY only, and reads whatever the port gives.   *)
Fetch ==
  /\ pc = "fetch" /\ FetchReady
  /\ buffer' = IF drq THEN port ELSE Noise
  /\ drq' = FALSE /\ pc' = "got"
  /\ UNCHANGED <<takes, medium, cache, bsy, job, queued, port, regs, call, lba, want, losses>>

ReadReturns ==
  /\ pc = "got" /\ pc' = "idle"
  /\ UNCHANGED <<drive, regs, call, lba, buffer, want, losses>>

(* The words of the sector; with the last one the drive gets busy.         *)
Offer ==
  /\ pc = "offer" /\ drq
  /\ port' = buffer /\ drq' = FALSE /\ bsy' = TRUE /\ job' = "store"
  /\ pc' = "flush"
  /\ UNCHANGED <<takes, medium, cache, queued, regs, call, lba, buffer, want, losses>>

SendFlush ==
  /\ pc = "flush"
  /\ Command("flush")
  /\ pc' = "settle"
  /\ UNCHANGED <<takes, medium, cache, drq, port, regs, call, lba, buffer, want, losses>>

SettledOnData == drq   \* mutant: waits for DRQ once more

SettledAtOnce == TRUE   \* mutant: no ata_wait after the flush

Settled == ~bsy

WriteReturns ==
  /\ pc = "settle" /\ Settled
  /\ want' = [want EXCEPT ![lba] = buffer] /\ pc' = "idle"
  /\ UNCHANGED <<drive, regs, call, lba, buffer, losses>>

(* A turn of one of the loops that read the status register.               *)
Wait == pc \in {"select", "fetch", "offer", "settle"} /\ UNCHANGED vars

Driver == Select \/ SendCommand \/ Fetch \/ ReadReturns \/ Offer \/ SendFlush \/ WriteReturns
-----------------------------------------------------------------------------
Next == \/ \E s \in Lbas : ata_read_sector(s) \/ \E v \in Values : ata_write_sector(s, v)
        \/ Driver \/ Wait \/ Drive \/ \E a \in Addresses : DriveEvict(a)
        \/ PowerLoss

Spec == Init /\ [][Next]_vars

(* The driver's loops run on, and the drive completes what it has begun.   *)
FairSpec == Spec /\ WF_vars(Driver) /\ WF_vars(Drive)
-----------------------------------------------------------------------------
(* A read gives what the last write at that address put there, or what a   *)
(* power loss has left: driver and drive agree on the address and on the   *)
(* moment at which the words are in the port.                              *)
ReadsLastWritten == pc = "got" => buffer = want[lba]

(* "Flush the cache to ensure the physical disk updates" (ata.c:54): on a  *)
(* drive that takes a flush while it is still storing the sector, a write  *)
(* that has returned survives a power loss.                                *)
DurableOnReturn ==
  takes => \A s \in Lbas : s # lba \/ pc \in {"idle", "got"} => medium[s] = want[s]

(* Neither loop of the driver waits for a bit the drive never sets: every  *)
(* call returns.                                                           *)
CallsReturn == (pc # "idle") ~> (pc = "idle")
=============================================================================
