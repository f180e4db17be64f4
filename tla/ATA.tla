---------------------------------- MODULE ATA ----------------------------------
(***************************************************************************)
(* The polled ATA driver (Kernel/src/Driver/ATA.cpp): identify, read and   *)
(* readSector of the two objects kmain makes, which share the ports of one *)
(* channel, and the drives behind those ports.                             *)
(*                                                                         *)
(* The drives are external: what the code relies on is that a command sets *)
(* BSY, then ends in data or in an error, and that the data port yields    *)
(* the sector's words in order.  A drive may be `late' in showing BSY,     *)
(* which the code does not wait out.  A byte of a disk is named by where   *)
(* it is; Junk is what the data port yields when no data is due.           *)
(*                                                                         *)
(* `early' and `failed' are history variables: the data port was read      *)
(* before the data was due; a drive reported an error in this call.        *)
(***************************************************************************)
EXTENDS Integers, FiniteSets

CONSTANTS
  SectorSize,   \* ATA_SECTOR_SIZE, in bytes; the data port yields two at a time
  Sectors,      \* sectors of a drive
  Width,        \* 2^32: offset, size and sector numbers are u32
  Buffers,      \* sector buffers kmalloc yields before it answers nullptr
  Offsets, Sizes  \* what callers of read ask for

Drives == {"master", "slave"}
Junk == [drive |-> "none", lba |-> 0, at |-> 0]

ASSUME DiskAssumption ==
  /\ SectorSize \in Nat \ {0} /\ Sectors \in Nat \ {0} /\ Width \in Nat \ {0}
  /\ SectorSize % 2 = 0 /\ Width % SectorSize = 0 /\ SectorSize < Width
  /\ Buffers \in Nat
  /\ Offsets \cup Sizes \subseteq 0 .. Width - 1

\* No request reaches past the last byte that an offset can name.
ASSUME RequestAssumption == \A from \in Offsets, count \in Sizes : from + count <= Width

VARIABLES
  present, late, floating,  \* the machine: its drives, whether they may be late, what a
                            \* port nobody drives reads as: "zeros" or "ones"
  selected,                 \* the drive bit of the device register
  drive,                    \* what either drive is doing: [state, command, lba, word]
  pc, self, op,             \* where the driver is, whose method it runs, which
  offset, size,             \* read's parameters
  counter, currentBuffer,   \* read's loop: the sector, and how far buf is filled (total)
  word, ret,                \* readSector's loop and buffer
  buf,                      \* the caller's memory from buf on: the bytes written so far
  buffers,                  \* sector buffers used up
  early, failed

machine == <<present, late, floating>>
ports == <<selected, drive>>
call == <<self, op, offset, size>>
history == <<early, failed>>
vars == <<machine, ports, pc, call, counter, currentBuffer, word, ret, buf, buffers, history>>

Byte(d, sector, at) == [drive |-> d, lba |-> sector, at |-> at]
Fresh == [i \in 0 .. SectorSize - 1 |-> Junk]      \* a sector buffer nobody wrote yet
Done(state) == [state |-> state, command |-> "none", lba |-> 0, word |-> 0]

-----------------------------------------------------------------------------
\* The drives (external).  BSY and ERR as the status port shows them: an absent
\* drive beside a present one reads 0, an empty channel floats.
Absent == selected \notin present
Zero == Absent /\ (present # {} \/ floating = "zeros")
Busy == IF Absent THEN ~Zero ELSE drive[selected].state = "busy"
Error == IF Absent THEN ~Zero ELSE drive[selected].state = "error"
Listening == Absent \/ drive[selected].state \notin {"late", "busy"}

\* A command in the command port, taken unless the drive is at one.
Taken(command, sector) ==
  IF Absent \/ ~Listening THEN drive
  ELSE [drive EXCEPT ![selected] =
          [state |-> IF late THEN "late" ELSE "busy", command |-> command,
           lba |-> sector, word |-> 0]]

\* A word of the data port: its two bytes, and what it leaves of the transfer.
Due == ~Absent /\ drive[selected].state = "data"
WordBytes ==
  LET d == drive[selected]
  IN  IF ~Due \/ d.command = "identify" THEN <<Junk, Junk>>
      ELSE <<Byte(selected, d.lba, 2 * d.word), Byte(selected, d.lba, 2 * d.word + 1)>>
NextWord(d) == IF 2 * d.word + 2 = SectorSize THEN Done("idle") ELSE [d EXCEPT !.word = d.word + 1]
AfterWord == IF Due THEN [drive EXCEPT ![selected] = NextWord(drive[selected])] ELSE drive

ShowBusy(d) ==
  /\ drive[d].state = "late"
  /\ drive' = [drive EXCEPT ![d].state = "busy"]
  /\ UNCHANGED <<machine, selected, pc, call, counter, currentBuffer, word, ret, buf, buffers, history>>

\* A drive has the data, or reports an error, as it must for a sector it lacks.
Complete(d) ==
  /\ drive[d].state = "busy"
  /\ \/ /\ drive[d].lba < Sectors
        /\ drive' = [drive EXCEPT ![d].state = "data"]
        /\ failed' = failed
     \/ /\ drive' = [drive EXCEPT ![d] = Done("error")]
        /\ failed' = TRUE
  /\ UNCHANGED <<machine, selected, pc, call, counter, currentBuffer, word, ret, buf, buffers, early>>

-----------------------------------------------------------------------------
Init ==
  /\ present \in SUBSET Drives /\ late \in BOOLEAN /\ floating \in {"zeros", "ones"}
  /\ IF present = {} THEN ~late ELSE floating = "zeros"
  /\ selected = "master"
  /\ drive = [d \in Drives |-> Done("idle")]
  /\ pc = "idle" /\ self = "master" /\ op = "none"
  /\ offset = 0 /\ size = 0 /\ counter = 0 /\ currentBuffer = 0
  /\ word = 0 /\ ret = Fresh
  /\ buf = << >> /\ buffers = 0
  /\ early = FALSE /\ failed = FALSE

\* identify() is called; the loop of read and its parameters are gone.
Identify(d) ==
  /\ pc = "idle"
  /\ self' = d /\ op' = "identify"
  /\ offset' = 0 /\ size' = 0 /\ counter' = 0 /\ currentBuffer' = 0 /\ buf' = << >>
  /\ pc' = "select" /\ failed' = FALSE
  /\ UNCHANGED <<machine, ports, word, ret, buffers, early>>

\* read(file, offset, size, buf): its first lines.  Sums wrap at 32 bits.
LastByte == (offset + size - 1) % Width
End == LastByte \div SectorSize
Start == offset \div SectorSize

Read(d, from, count) ==
  /\ pc = "idle"
  /\ self' = d /\ op' = "read" /\ offset' = from /\ size' = count
  /\ counter' = from \div SectorSize
  /\ currentBuffer' = 0 /\ buf' = << >> /\ failed' = FALSE
  /\ pc' = "loop"
  /\ UNCHANGED <<machine, ports, word, ret, buffers, early>>

\* The loop's condition, and readSector's kmalloc; a nullptr is written through
\* after the command, and the page fault there never ends.
Loop ==
  /\ pc = "loop"
  /\ IF counter <= End
     THEN pc' = "select" /\ buffers' = buffers + 1
     ELSE pc' = "idle" /\ buffers' = buffers
  /\ UNCHANGED <<machine, ports, call, counter, currentBuffer, word, ret, buf, history>>

\* The device register, then the other registers and the command.
Select ==
  /\ pc = "select"
  /\ selected' = IF Listening THEN self ELSE selected
  /\ pc' = "command"
  /\ UNCHANGED <<machine, drive, call, counter, currentBuffer, word, ret, buf, buffers, history>>

Command ==
  /\ pc = "command"
  /\ drive' = Taken(op, IF op = "read" THEN counter ELSE 0)
  /\ pc' = "status"
  /\ UNCHANGED <<machine, selected, call, counter, currentBuffer, word, ret, buf, buffers, history>>

\* The loop's condition without ERR, and as it is.
PollBusy == Busy

Poll == Busy /\ ~Error

\* The first status: identify leaves when it is 0.  Then while BSY and not ERR.
Status ==
  /\ pc = "status"
  /\ pc' = CASE op = "identify" /\ Zero -> "idle" [] Poll -> "poll" [] OTHER -> "transfer"
  /\ UNCHANGED <<machine, ports, call, counter, currentBuffer, word, ret, buf, buffers, history>>

PollStatus ==
  /\ pc = "poll" /\ ~Poll
  /\ pc' = "transfer"
  /\ UNCHANGED <<machine, ports, call, counter, currentBuffer, word, ret, buf, buffers, history>>

\* The words read by the loops of identify and readSector, from 0 on: one less,
\* one more, and as it is.
WordsButLast == SectorSize \div 2 - 1
WordsAndOne == SectorSize \div 2 + 1

Words == SectorSize \div 2

\* One word: readSector stores its two bytes, identify drops them.
Stored == [ret EXCEPT ![2 * word] = WordBytes[1], ![2 * word + 1] = WordBytes[2]]

Transfer ==
  /\ pc = "transfer"
  /\ early' = (early \/ (~Absent /\ drive[selected].state \in {"late", "busy"}))
  /\ IF op = "read" /\ buffers > Buffers
     THEN pc' = "fault" /\ drive' = AfterWord /\ UNCHANGED <<word, ret>>
     ELSE /\ word' = IF word = Words - 1 THEN 0 ELSE word + 1
          /\ drive' = AfterWord
          /\ ret' = IF op = "read" THEN Stored ELSE ret
          /\ pc' = IF word' # 0 THEN "transfer" ELSE IF op = "read" THEN "copy" ELSE "idle"
  /\ UNCHANGED <<machine, selected, call, counter, currentBuffer, buf, buffers, failed>>

\* What the last sector contributes, from the sector's start on and as it is.
LastPartWhole(sectorOffset) == (LastByte % SectorSize) + 1

LastPart(sectorOffset) == ((LastByte % SectorSize) - sectorOffset + 1) % Width

\* The rest of read's loop: memcpy of the part of the sector that is asked for.
Copy ==
  LET sectorOffset == IF counter = Start THEN offset % SectorSize ELSE 0
      readSize == IF counter = End THEN LastPart(sectorOffset) ELSE SectorSize - sectorOffset
      written == currentBuffer .. currentBuffer + readSize - 1
  IN  /\ pc = "copy"
      /\ buf' = [i \in DOMAIN buf \cup written |->
                   IF i \in written THEN ret[(i - currentBuffer + sectorOffset) % SectorSize] ELSE buf[i]]
      /\ currentBuffer' = currentBuffer + readSize
      /\ counter' = counter + 1
      /\ ret' = Fresh      \* the sector's buffer is left behind
      /\ pc' = "loop"
      /\ UNCHANGED <<machine, ports, call, word, buffers, history>>

Driver == Loop \/ Select \/ Command \/ Status \/ PollStatus \/ Transfer \/ Copy

Next ==
  \/ \E d \in Drives : Identify(d) \/ ShowBusy(d) \/ Complete(d)
  \/ \E d \in Drives, from \in Offsets, count \in Sizes : Read(d, from, count)
  \/ Driver

\* The kernel runs on, and a drive gets done with a command in the end.
Spec ==
  /\ Init /\ [][Next]_vars
  /\ WF_vars(Driver)
  /\ \A d \in Drives : WF_vars(ShowBusy(d)) /\ WF_vars(Complete(d))

-----------------------------------------------------------------------------
Bytes == [drive : Drives, lba : Nat, at : 0 .. SectorSize - 1] \cup {Junk}

TypeOK ==
  /\ present \subseteq Drives /\ selected \in Drives /\ self \in Drives
  /\ counter \in Nat /\ currentBuffer \in Nat
  /\ \A d \in Drives :
       /\ drive[d].state \in {"idle", "late", "busy", "data", "error"}
       /\ drive[d].command \in {"none", "identify", "read"}
       /\ drive[d].word \in 0 .. SectorSize \div 2
  /\ pc \in {"idle", "loop", "select", "command", "status", "poll", "transfer", "copy", "fault"}
  /\ \A i \in DOMAIN ret : ret[i] \in Bytes
  /\ DOMAIN buf = 0 .. currentBuffer - 1 /\ \A i \in DOMAIN buf : buf[i] \in Bytes
  /\ word \in 0 .. SectorSize \div 2 - 1
  /\ buffers \in 0 .. Buffers + 1 /\ (buffers > Buffers => pc \notin {"idle", "loop", "copy"})

\* ATA implements Disk.  A read of nothing at 0 takes 2^32 - 1 for its last byte
\* and so asks for everything; an absent drive, a drive read too early and one
\* that reported an error have spoilt the answer.
ByteAt(d, at) == Byte(d, at \div SectorSize, at % SectorSize)
Reading == op = "read" /\ pc # "idle"
Total == IF offset + size = 0 THEN Width ELSE size
Request == [drive |-> IF Reading THEN self ELSE "none",
            offset |-> IF Reading THEN offset ELSE 0, size |-> IF Reading THEN Total ELSE 0]
Answer == [i \in 1 .. currentBuffer |-> buf[i - 1]]
Spoilt == early \/ failed \/ self \notin present

Disks == INSTANCE Disk
           WITH Sizes <- Sizes \cup {Width}, At <- ByteAt,
                request <- Request, answer <- Answer, spoilt <- Spoilt
ImplementsDisk == Disks!Spec

\* Between two calls neither drive owes data, so that the next command finds it
\* idle, unless the data port was read early.
NothingOwed ==
  (pc = "idle" /\ ~early) => \A d \in Drives : drive[d].state \in {"idle", "error"}

\* Every call returns, on every machine, or stops at the page fault of a kernel
\* out of sector buffers.
CallsEnd == (pc # "idle") ~> (pc \in {"idle", "fault"})
=============================================================================
