-------------------------------- MODULE ATAProofs --------------------------------
(***************************************************************************)
(* Proof that the ATA driver settles with the drives before a call         *)
(* returns, on every machine, whatever fails, for sectors of any size.     *)
(***************************************************************************)
EXTENDS ATA, Sequences, Arithmetic

Settled == {"idle", "error"}
Working == {"late", "busy"}
States == Settled \cup Working \cup {"data"}
Transfers == [state : States, command : {"none", "identify", "read"}, lba : Nat, word : 0 .. Words - 1]

\* The part of TypeOK that the proof needs, with the counter of the sectors.
Types ==
  /\ present \subseteq Drives /\ selected \in Drives /\ self \in Drives
  /\ late \in BOOLEAN /\ early \in BOOLEAN
  /\ drive \in [Drives -> Transfers]
  /\ op \in {"none", "identify", "read"}
  /\ pc # "idle" => op # "none"
  /\ counter \in Nat
  /\ word \in 0 .. Words - 1

\* An absent drive does nothing, and a drive nobody speaks to is settled.
Quiet ==
  /\ \A d \in Drives : drive[d].state \notin Settled => d \in present
  /\ \A d \in Drives \ {selected} : drive[d].state \in Settled

\* Outside a transfer no word has been read; between calls, and until the
\* command is written, the selected drive is settled, too; while the driver
\* polls, it has read nothing; and in the transfer driver and drive are at one
\* word, if the drive had the data when the first word was read.
InStep ==
  LET d == drive[selected]
  IN  /\ pc \in {"idle", "loop", "select", "command", "status", "poll", "transfer", "copy", "fault"}
      /\ pc \notin {"transfer", "fault"} => word = 0
      /\ pc \in {"idle", "loop", "select", "command", "copy"} => d.state \in Settled
      /\ d.state \in Working => d.word = 0
      /\ pc \in {"status", "poll"} /\ d.state = "data" => d.word = 0
      /\ pc = "transfer" /\ d.state = "data" => d.word = word
      /\ pc = "transfer" /\ word > 0 => d.state \notin Working

IInv == Types /\ (~early => Quiet /\ InStep)

-----------------------------------------------------------------------------
\* A sector has a whole number of words, one at least.
LEMMA WordsOfSector == Words \in Nat \ {0} /\ 2 * Words = SectorSize
BY DiskAssumption DEF Words

\* The two drives of the channel.
LEMMA DrivesAre == "master" \in Drives /\ "slave" \in Drives
BY DEF Drives

\* A command leaves the drive a state that has its type.
LEMMA TakenTypes ==
  ASSUME Types, NEW command \in {"identify", "read"}, NEW sector \in Nat
  PROVE  Taken(command, sector) \in [Drives -> Transfers]
<1>1. [state |-> IF late THEN "late" ELSE "busy", command |-> command, lba |-> sector, word |-> 0] \in Transfers
  BY WordsOfSector DEF Transfers, States, Working
<1> QED BY <1>1 DEF Types, Taken

\* A drive is done behind its last word, and otherwise one word on.
LEMMA NextWordCases ==
  ASSUME NEW d \in Transfers
  PROVE  /\ NextWord(d) \in Transfers
         /\ 2 * d.word + 2 = SectorSize => NextWord(d).state = "idle"
         /\ 2 * d.word + 2 # SectorSize =>
              /\ NextWord(d).state = d.state /\ NextWord(d).word = d.word + 1
              /\ NextWord(d).command = d.command /\ NextWord(d).lba = d.lba
<1> DEFINE on == [d EXCEPT !.word = d.word + 1]
<1>1. /\ on.word = d.word + 1 /\ on.state = d.state /\ on.command = d.command /\ on.lba = d.lba
      /\ 2 * d.word + 2 # SectorSize => on \in Transfers
  BY WordsOfSector DEF Transfers
<1>2. Done("idle") \in Transfers /\ Done("idle").state = "idle"
  BY WordsOfSector DEF Done, Transfers, States, Settled
<1>3. NextWord(d) = IF 2 * d.word + 2 = SectorSize THEN Done("idle") ELSE on
  BY DEF NextWord
<1> HIDE DEF on
<1> QED BY <1>1, <1>2, <1>3

\* A drive that is done is settled.
LEMMA DoneTypes ==
  ASSUME NEW state \in Settled
  PROVE  Done(state) \in Transfers /\ Done(state).state = state
BY WordsOfSector DEF Done, Transfers, States

\* A change of state keeps the transfer's type and word.
LEMMA StateTypes ==
  ASSUME NEW d \in Transfers, NEW s \in States
  PROVE  /\ [d EXCEPT !.state = s] \in Transfers
         /\ [d EXCEPT !.state = s].state = s
         /\ [d EXCEPT !.state = s].word = d.word
         /\ [d EXCEPT !.state = s].command = d.command
         /\ [d EXCEPT !.state = s].lba = d.lba
BY DEF Transfers

\* The invariant holds at first: both drives are idle.
LEMMA InitSettled == Init => IInv
<1> SUFFICES ASSUME Init PROVE IInv
  OBVIOUS
<1>1. Done("idle") \in Transfers /\ Done("idle").state = "idle"
  BY DoneTypes DEF Settled
<1>2. 0 \in 0 .. Words - 1
  BY WordsOfSector
<1>3. Types
  BY <1>1, <1>2, DrivesAre DEF Init, Types
<1>4. Quiet /\ InStep
  BY <1>1, DrivesAre DEF Init, Quiet, InStep, Settled, Working
<1> QED BY <1>3, <1>4 DEF IInv

\* Every step of the driver and of a drive preserves the invariant; the transfer
\* of a word is where driver and drive have to move together.
LEMMA NextSettled == IInv /\ [Next]_vars => IInv'
<1> SUFFICES ASSUME IInv, [Next]_vars PROVE IInv'
  OBVIOUS
<1>0. Types /\ (~early => Quiet /\ InStep) /\ Words \in Nat \ {0}
  BY WordsOfSector DEF IInv
<1>1. ASSUME NEW d \in Drives, Identify(d) PROVE IInv'
  BY <1>0, <1>1 DEF Identify, machine, ports, IInv, Types, Quiet, InStep
<1>2. ASSUME NEW d \in Drives, NEW from \in Offsets, NEW count \in Sizes, Read(d, from, count) PROVE IInv'
  <2>1. from \div SectorSize \in Nat
    BY DiskAssumption
  <2> QED BY <1>0, <1>2, <2>1 DEF Read, machine, ports, IInv, Types, Quiet, InStep
<1>3. ASSUME NEW d \in Drives, ShowBusy(d) PROVE IInv'
  <2> DEFINE shown == [drive[d] EXCEPT !.state = "busy"]
  <2>1. drive[d] \in Transfers /\ "busy" \in States
    BY <1>0 DEF Types, States, Working
  <2>2. shown \in Transfers /\ shown.state = "busy" /\ shown.word = drive[d].word
    BY <2>1, StateTypes
  <2>3. drive' = [drive EXCEPT ![d] = shown] /\ drive[d].state = "late"
    BY <1>3 DEF ShowBusy
  <2>4. drive' \in [Drives -> Transfers]
    BY <1>0, <2>2, <2>3 DEF Types
  <2> HIDE DEF shown
  <2>5. UNCHANGED <<present, late, selected, self, op, pc, counter, word, early>>
    BY <1>3 DEF ShowBusy, machine, call, history
  <2>6. Types'
    BY <1>0, <2>4, <2>5 DEF Types
  <2>7. ~early => Quiet' /\ InStep'
    BY <1>0, <1>3, <2>2, <2>3 DEF ShowBusy, machine, call, Types, Quiet, InStep, Settled, Working
  <2> QED BY <1>3, <2>6, <2>7 DEF IInv, ShowBusy, history
<1>4. ASSUME NEW d \in Drives, Complete(d) PROVE IInv'
  <2> DEFINE ready == [drive[d] EXCEPT !.state = "data"]
  <2>1. drive[d] \in Transfers /\ "data" \in States
    BY <1>0 DEF Types, States
  <2>2. ready \in Transfers /\ ready.state = "data" /\ ready.word = drive[d].word
    BY <2>1, StateTypes
  <2>3. Done("error") \in Transfers /\ Done("error").state = "error"
    BY DoneTypes DEF Settled
  <2>4. /\ drive' = [drive EXCEPT ![d] = ready] \/ drive' = [drive EXCEPT ![d] = Done("error")]
        /\ drive[d].state = "busy"
    BY <1>4 DEF Complete
  <2>5. drive' \in [Drives -> Transfers]
    BY <1>0, <2>2, <2>3, <2>4 DEF Types
  <2> HIDE DEF ready
  <2>6. Types'
    BY <1>0, <1>4, <2>5 DEF Complete, machine, call, Types
  <2>7. ~early => Quiet' /\ InStep'
    BY <1>0, <1>4, <2>2, <2>3, <2>4 DEF Complete, machine, call, Types, Quiet, InStep, Settled, Working
  <2> QED BY <1>4, <2>6, <2>7 DEF IInv, Complete
<1>5. CASE Loop
  BY <1>0, <1>5 DEF Loop, machine, ports, call, history, IInv, Types, Quiet, InStep
<1>6. CASE Select
  <2>1. selected' \in Drives /\ drive' = drive /\ pc = "select" /\ pc' = "command"
    BY <1>0, <1>6 DEF Select, Types
  <2>2. op # "none"
    BY <1>0, <2>1 DEF Types
  <2>3. UNCHANGED <<present, late, self, op, counter, word, early>>
    BY <1>6 DEF Select, machine, call, history
  <2>4. ~early => \A d \in Drives : drive[d].state \in Settled
    BY <1>0, <2>1 DEF Types, Quiet, InStep
  <2>5. Types'
    BY <1>0, <2>1, <2>2, <2>3 DEF Types
  <2>6. ~early => Quiet' /\ InStep'
    BY <1>0, <2>1, <2>3, <2>4 DEF Types, Quiet, InStep, Settled, Working
  <2> QED BY <2>3, <2>5, <2>6 DEF IInv
<1>7. CASE Command
  BY <1>0, <1>7, TakenTypes DEF Command, Taken, Listening, Absent, machine, call, history, IInv, Types, Quiet, InStep, Settled, Working
<1>8. CASE Status
  BY <1>0, <1>8 DEF Status, Zero, Absent, machine, ports, call, history, IInv, Types, Quiet, InStep, Settled, Working
<1>9. CASE PollStatus
  BY <1>0, <1>9 DEF PollStatus, machine, ports, call, history, IInv, Types, Quiet, InStep
<1>10. CASE Transfer
  <2> DEFINE d == drive[selected]
  <2>1. /\ pc = "transfer" /\ drive' = AfterWord
        /\ early' = (early \/ (~Absent /\ d.state \in Working))
    BY <1>10 DEF Transfer, Working
  <2>2. UNCHANGED <<present, late, selected, self, op, counter>>
    BY <1>10 DEF Transfer, machine, call
  <2>3. \/ pc' = "fault" /\ word' = word
        \/ word = Words - 1 /\ word' = 0 /\ pc' \in {"copy", "idle"}
        \/ word # Words - 1 /\ word' = word + 1 /\ pc' = "transfer"
    <3>1. \/ pc' = "fault" /\ word' = word
          \/ /\ word' = IF word = Words - 1 THEN 0 ELSE word + 1
             /\ pc' = IF word' # 0 THEN "transfer" ELSE IF op = "read" THEN "copy" ELSE "idle"
      BY <1>10 DEF Transfer
    <3>2. word + 1 # 0 /\ word \in Nat
      BY <1>0 DEF Types
    <3> QED BY <3>1, <3>2
  <2>4. d \in Transfers /\ selected \in Drives /\ d.word \in Nat /\ d.state \in States
    BY <1>0 DEF Types, Transfers
  <2>5. word' \in 0 .. Words - 1
    BY <1>0, <2>3 DEF Types
  <2>6. AfterWord \in [Drives -> Transfers]
    BY <1>0, <2>4, NextWordCases DEF AfterWord, Types
  <2>7. op # "none"
    BY <1>0, <2>1 DEF Types
  <2>8. early' \in BOOLEAN
    BY <1>0, <2>1 DEF Types
  <2>9. Types'
    BY <1>0, <2>1, <2>2, <2>5, <2>6, <2>7, <2>8 DEF Types
  <2>10. ASSUME ~early' PROVE Quiet' /\ InStep'
    <3>1. ~early /\ Quiet /\ InStep
      BY <1>0, <2>1, <2>10
    <3>2. Absent => d.state \in Settled
      BY <2>4, <3>1 DEF Absent, Quiet
    <3>3. d.state \in Settled \/ (Due /\ d.word = word)
      BY <2>1, <2>4, <2>10, <3>1, <3>2 DEF States, Due, InStep
    <3>4. CASE d.state \in Settled
      <4>1. drive' = drive
        BY <2>1, <3>4 DEF AfterWord, Due, Settled
      <4> QED BY <1>0, <2>2, <2>3, <3>1, <3>4, <4>1 DEF Types, Quiet, InStep, Settled, Working
    <3>5. CASE Due /\ d.word = word
      <4> DEFINE next == NextWord(d)
      <4>1. drive' = [drive EXCEPT ![selected] = next]
        BY <2>1, <3>5 DEF AfterWord
      <4>2. d.state = "data" /\ selected \in present
        BY <3>5 DEF Due, Absent
      <4>3. \/ next.state = "idle" /\ (word' = 0 \/ pc' = "fault")
            \/ next.state = "data" /\ pc' = "fault"
            \/ next.state = "data" /\ pc' = "transfer" /\ next.word = word'
        <5> HIDE DEF next
        <5>1. 2 * d.word + 2 = SectorSize <=> word = Words - 1
          BY <1>0, <3>5, WordsOfSector DEF Types
        <5>2. /\ word = Words - 1 => next.state = "idle"
              /\ word # Words - 1 => next.state = "data" /\ next.word = word + 1
          BY <2>4, <3>5, <4>2, <5>1, NextWordCases DEF next
        <5>3. word \in Nat
          BY <1>0 DEF Types
        <5> QED BY <2>3, <5>2, <5>3
      <4> HIDE DEF next, d
      <4> QED BY <1>0, <2>2, <2>3, <3>1, <4>1, <4>2, <4>3 DEF Types, Quiet, InStep, Settled, Working
    <3> QED BY <3>3, <3>4, <3>5
  <2> QED BY <2>9, <2>10 DEF IInv
<1>11. CASE Copy
  BY <1>0, <1>11 DEF Copy, machine, ports, call, history, IInv, Types, Quiet, InStep
<1>12. CASE UNCHANGED vars
  BY <1>0, <1>12 DEF vars, machine, ports, call, history, IInv, Types, Quiet, InStep
<1> QED BY <1>1, <1>2, <1>3, <1>4, <1>5, <1>6, <1>7, <1>8, <1>9, <1>10, <1>11, <1>12 DEF Next, Driver

\* Unless the data port was read before the data was due, no drive owes data to
\* the next command once identify or read has returned.
THEOREM DrivesSettled == Spec => []NothingOwed
<1>1. IInv => NothingOwed
  BY DEF IInv, Quiet, InStep, NothingOwed, Settled, Types
<1> QED BY <1>1, InitSettled, NextSettled, PTL DEF Spec

-----------------------------------------------------------------------------
(***************************************************************************)
(* The data.                                                               *)
(***************************************************************************)
\* Where in the sector at hand the request begins.
SectorOffset == IF counter = Start THEN offset % SectorSize ELSE 0

\* The driver's memory: what has been filled, and the sector buffers used up.
Memory ==
  /\ ret \in [0 .. SectorSize - 1 -> Bytes]
  /\ currentBuffer \in Nat
  /\ DOMAIN buf = 0 .. currentBuffer - 1 /\ \A i \in DOMAIN buf : buf[i] \in Bytes
  /\ buffers \in 0 .. Buffers + 1
  /\ buffers = Buffers + 1 =>
       op = "read" /\ pc \in {"select", "command", "status", "poll", "transfer", "fault"}
  /\ pc \in {"idle", "loop", "select", "command", "status", "poll", "transfer", "copy", "fault"}
  /\ pc \in {"loop", "copy"} => op = "read"
  /\ failed \in BOOLEAN

\* How far read has come: the buffer is filled up to the sector at hand, and
\* behind the last sector it holds all that was asked for.
Place ==
  Reading =>
    /\ offset \in Offsets /\ size \in Sizes
    /\ counter \in Start .. End + 1
    /\ pc # "loop" => counter <= End
    /\ counter <= End => offset + currentBuffer = counter * SectorSize + SectorOffset
    /\ counter > End => currentBuffer = Total

\* As long as nothing has spoilt the answer: the buffer holds the disk's bytes,
\* and drive, sector buffer and word belong to the sector at hand.
FromDisk(sector, i) == ret[i] = Byte(self, sector, i)
Faithful ==
  (Reading /\ ~Spoilt) =>
    /\ \A i \in 0 .. currentBuffer - 1 :
         buf[i] = ByteAt(self, offset + i)
    /\ pc \in {"command", "status", "poll", "transfer"} => selected = self
    /\ pc \in {"status", "poll", "transfer"} =>
         /\ drive[self].state \in Working \cup {"data"}
         /\ drive[self].command = "read" /\ drive[self].lba = counter
    /\ pc = "transfer" => \A i \in 0 .. 2 * word - 1 : FromDisk(counter, i)
    /\ pc = "copy" => \A i \in 0 .. SectorSize - 1 : FromDisk(counter, i)

\* The two bytes of a word are bytes, the disk's own if they are due to a read.
LEMMA WordBytesAre ==
  ASSUME Types
  PROVE  /\ WordBytes[1] \in Bytes /\ WordBytes[2] \in Bytes
         /\ Due /\ drive[selected].command = "read" =>
              /\ WordBytes[1] = Byte(selected, drive[selected].lba, 2 * drive[selected].word)
              /\ WordBytes[2] = Byte(selected, drive[selected].lba, 2 * drive[selected].word + 1)
<1> DEFINE d == drive[selected]
           first == Byte(selected, d.lba, 2 * d.word)
           second == Byte(selected, d.lba, 2 * d.word + 1)
<1>1. d \in Transfers /\ selected \in Drives
  BY DEF Types
<1>2. 2 * d.word \in 0 .. SectorSize - 1 /\ 2 * d.word + 1 \in 0 .. SectorSize - 1 /\ d.lba \in Nat
  BY <1>1, WordsOfSector DEF Transfers
<1>3. first \in Bytes /\ second \in Bytes
  BY <1>1, <1>2 DEF Byte, Bytes
<1>4. Junk \in Bytes
  BY DEF Bytes
<1>5. WordBytes = IF ~Due \/ d.command = "identify" THEN <<Junk, Junk>> ELSE <<first, second>>
  BY DEF WordBytes
<1> HIDE DEF first, second, d
<1>6. /\ WordBytes[1] \in Bytes /\ WordBytes[2] \in Bytes
      /\ Due /\ d.command = "read" => WordBytes[1] = first /\ WordBytes[2] = second
  BY <1>3, <1>4, <1>5
<1> QED BY <1>6 DEF first, second, d

\* Two bytes of the sector buffer are written.
LEMMA StoredIs ==
  ASSUME Types, ret \in [0 .. SectorSize - 1 -> Bytes]
  PROVE  /\ Stored \in [0 .. SectorSize - 1 -> Bytes]
         /\ Stored[2 * word] = WordBytes[1] /\ Stored[2 * word + 1] = WordBytes[2]
         /\ \A i \in 0 .. 2 * word - 1 : Stored[i] = ret[i]
<1>1. WordBytes[1] \in Bytes /\ WordBytes[2] \in Bytes
  BY WordBytesAre
<1>2. word \in Nat /\ 2 * word \in 0 .. SectorSize - 1 /\ 2 * word + 1 \in 0 .. SectorSize - 1
  BY WordsOfSector DEF Types
<1>3. PICK a \in Bytes, b \in Bytes : a = WordBytes[1] /\ b = WordBytes[2]
  BY <1>1
<1>4. PICK x \in 0 .. SectorSize - 1, y \in 0 .. SectorSize - 1 : x = 2 * word /\ y = 2 * word + 1
  BY <1>2
<1>5. Stored = [ret EXCEPT ![x] = a, ![y] = b]
  BY <1>3, <1>4, Zenon DEF Stored
<1>6. x # y /\ \A i \in 0 .. 2 * word - 1 : i # x /\ i # y /\ i \in 0 .. SectorSize - 1
  BY <1>2, <1>4, DiskAssumption
<1>7. /\ Stored \in [0 .. SectorSize - 1 -> Bytes] /\ Stored[x] = a /\ Stored[y] = b
      /\ \A i \in 0 .. SectorSize - 1 : i # x /\ i # y => Stored[i] = ret[i]
  BY <1>5, <1>6
<1> QED BY <1>3, <1>4, <1>6, <1>7

\* A sector buffer nobody wrote holds no byte of a disk.
LEMMA FreshTypes == Fresh \in [0 .. SectorSize - 1 -> Bytes]
BY DEF Fresh, Bytes

\* The part of the sector at hand that Copy takes, and where it takes it from.
ReadSize == IF counter = End THEN LastPart(SectorOffset) ELSE SectorSize - SectorOffset
CopiedByte(i) == ret[(i - currentBuffer + SectorOffset) % SectorSize]

\* The buffer of a call that has just begun.
LEMMA NothingYet == DOMAIN << >> = 0 .. 0 - 1 /\ 0 .. 0 - 1 = {}
OBVIOUS

\* A sector's part goes behind what is in the buffer.
LEMMA CopyIs ==
  ASSUME Types, Place, pc = "copy", op = "read", currentBuffer \in Nat, Copy
  PROVE  /\ ReadSize \in Nat /\ SectorOffset \in 0 .. SectorSize - 1
         /\ currentBuffer' = currentBuffer + ReadSize
         /\ buf' = [i \in DOMAIN buf \cup currentBuffer .. currentBuffer + ReadSize - 1 |->
                      IF i \in currentBuffer .. currentBuffer + ReadSize - 1
                      THEN CopiedByte(i) ELSE buf[i]]
<1>1. SectorSize \in Nat \ {0} /\ Width \in Nat \ {0}
  BY DiskAssumption
<1>2. offset \in Nat /\ size \in Nat
  BY DiskAssumption DEF Place, Reading
<1>3. SectorOffset \in 0 .. SectorSize - 1
  BY <1>1, <1>2 DEF SectorOffset
<1>4. LastByte \in Nat
  BY <1>1, <1>2 DEF LastByte
<1>5. LastPart(SectorOffset) \in Nat
  <2>1. LastByte % SectorSize \in Int
    BY <1>1, <1>4
  <2> QED BY <1>1, <1>3, <2>1 DEF LastPart
<1>6. ReadSize \in Nat
  BY <1>1, <1>3, <1>5 DEF ReadSize
<1>7. /\ currentBuffer' = currentBuffer + ReadSize
      /\ buf' = [i \in DOMAIN buf \cup currentBuffer .. currentBuffer + ReadSize - 1 |->
                   IF i \in currentBuffer .. currentBuffer + ReadSize - 1
                   THEN CopiedByte(i) ELSE buf[i]]
  BY DEF Copy, ReadSize, SectorOffset, CopiedByte
<1> QED BY <1>3, <1>6, <1>7

LEMMA MemoryInductive == IInv /\ Memory /\ Place /\ [Next]_vars => Memory'
<1> SUFFICES ASSUME IInv, Memory, Place, [Next]_vars PROVE Memory'
  OBVIOUS
<1>0. Types /\ Buffers \in Nat /\ SectorSize \in Nat \ {0}
  BY DiskAssumption DEF IInv
<1>1. ASSUME NEW d \in Drives, Identify(d) PROVE Memory'
  <2>1. /\ buf' = << >> /\ currentBuffer' = 0 /\ pc' = "select" /\ failed' = FALSE
        /\ ret' = ret /\ buffers' = buffers /\ pc = "idle"
    BY <1>1 DEF Identify
  <2>2. buffers \in 0 .. Buffers
    BY <1>0, <2>1 DEF Memory
  <2>3. failed' \in BOOLEAN
    BY <2>1, Zenon
  <2> QED BY <1>0, <2>1, <2>2, <2>3, NothingYet DEF Memory
<1>2. ASSUME NEW d \in Drives, NEW from \in Offsets, NEW count \in Sizes, Read(d, from, count) PROVE Memory'
  <2>1. /\ buf' = << >> /\ currentBuffer' = 0 /\ pc' = "loop" /\ failed' = FALSE
        /\ ret' = ret /\ buffers' = buffers /\ pc = "idle" /\ op' = "read"
    BY <1>2 DEF Read
  <2>2. buffers \in 0 .. Buffers
    BY <1>0, <2>1 DEF Memory
  <2>3. failed' \in BOOLEAN
    BY <2>1, Zenon
  <2> QED BY <1>0, <2>1, <2>2, <2>3, NothingYet DEF Memory
<1>3. ASSUME NEW d \in Drives, ShowBusy(d) PROVE Memory'
  BY <1>0, <1>3 DEF ShowBusy, Memory, history, call
<1>4. ASSUME NEW d \in Drives, Complete(d) PROVE Memory'
  BY <1>0, <1>4 DEF Complete, Memory, history, call
<1>5. CASE Loop
  BY <1>0, <1>5 DEF Loop, Memory, history, call
<1>6. CASE Select
  BY <1>0, <1>6 DEF Select, Memory, history, call
<1>7. CASE Command
  BY <1>0, <1>7 DEF Command, Memory, history, call
<1>8. CASE Status
  BY <1>0, <1>8 DEF Status, Memory, history, call, machine, ports
<1>9. CASE PollStatus
  BY <1>0, <1>9 DEF PollStatus, Memory, history, call, machine, ports
<1>10. CASE Transfer
  <2>1. ret' \in [0 .. SectorSize - 1 -> Bytes]
    BY <1>0, <1>10, StoredIs DEF Transfer, Memory
  <2>2. UNCHANGED <<op, currentBuffer, buf, buffers, failed>>
    BY <1>10 DEF Transfer, call
  <2>3. /\ pc = "transfer"
        /\ \/ op = "read" /\ pc' = "fault"
           \/ ~(op = "read" /\ buffers > Buffers) /\ pc' = "transfer"
           \/ ~(op = "read" /\ buffers > Buffers) /\ pc' = "copy" /\ op = "read"
           \/ ~(op = "read" /\ buffers > Buffers) /\ pc' = "idle" /\ op # "read"
    BY <1>10 DEF Transfer
  <2> QED BY <1>0, <2>1, <2>2, <2>3 DEF Memory
<1>11. CASE Copy
  <2>1. pc = "copy" /\ op = "read" /\ currentBuffer \in Nat
    BY <1>11 DEF Copy, Memory
  <2>2. /\ ReadSize \in Nat /\ SectorOffset \in 0 .. SectorSize - 1
        /\ currentBuffer' = currentBuffer + ReadSize
        /\ buf' = [i \in DOMAIN buf \cup currentBuffer .. currentBuffer + ReadSize - 1 |->
                     IF i \in currentBuffer .. currentBuffer + ReadSize - 1
                     THEN CopiedByte(i) ELSE buf[i]]
    BY <1>0, <1>11, <2>1, CopyIs
  <2>3. DOMAIN buf' = 0 .. currentBuffer' - 1
    BY <2>1, <2>2 DEF Memory
  <2>4. ASSUME NEW i \in DOMAIN buf' PROVE buf'[i] \in Bytes
    <3>1. CASE i \in currentBuffer .. currentBuffer + ReadSize - 1
      <4>1. (i - currentBuffer + SectorOffset) % SectorSize \in 0 .. SectorSize - 1
        BY <1>0, <2>1, <2>2, <3>1
      <4> QED BY <2>2, <3>1, <4>1 DEF Memory, CopiedByte
    <3>2. CASE i \notin currentBuffer .. currentBuffer + ReadSize - 1
      BY <2>2, <3>2 DEF Memory
    <3> QED BY <3>1, <3>2
  <2>5. currentBuffer' \in Nat /\ ret' \in [0 .. SectorSize - 1 -> Bytes]
    BY <1>11, <2>1, <2>2, FreshTypes DEF Copy
  <2>6. UNCHANGED <<op, buffers, failed>> /\ pc' = "loop"
    BY <1>11 DEF Copy, call, history
  <2> QED BY <2>1, <2>3, <2>4, <2>5, <2>6 DEF Memory
<1>12. CASE UNCHANGED vars
  BY <1>0, <1>12 DEF vars, machine, ports, call, history, Memory
<1> QED BY <1>1, <1>2, <1>3, <1>4, <1>5, <1>6, <1>7, <1>8, <1>9, <1>10, <1>11, <1>12 DEF Next, Driver

-----------------------------------------------------------------------------
(***************************************************************************)
(* The arithmetic of read.                                                 *)
(***************************************************************************)
\* The last byte of a request, and the sectors of its first and last bytes.
LEMMA Requested ==
  ASSUME NEW from \in Offsets, NEW count \in Sizes, NEW last,
         last = (from + count - 1) % Width
  PROVE  /\ last \in Nat /\ last \div SectorSize \in Nat /\ from \div SectorSize \in Nat
         /\ from + (IF from + count = 0 THEN Width ELSE count) = last + 1
         /\ from \div SectorSize <= last \div SectorSize + 1
         /\ from \div SectorSize > last \div SectorSize => count = 0 /\ from + count # 0
<1>1. /\ SectorSize \in Nat \ {0} /\ Width \in Nat \ {0} /\ from \in Nat /\ count \in Nat
      /\ from + count <= Width
  BY DiskAssumption, RequestAssumption
<1>2. last \in Nat /\ from + (IF from + count = 0 THEN Width ELSE count) = last + 1
  <2>1. CASE from + count = 0
    <3>1. from + count - 1 = -1 /\ (-1) % Width = Width - 1
      BY <1>1, <2>1
    <3> QED BY <1>1, <2>1, <3>1
  <2>2. CASE from + count # 0
    <3>1. PICK x \in 0 .. Width - 1 : x = from + count - 1
      BY <1>1, <2>2
    <3>2. x % Width = x
      BY <1>1
    <3> QED BY <1>1, <2>2, <3>1, <3>2
  <2> QED BY <2>1, <2>2
<1>3. last \div SectorSize \in Nat /\ from \div SectorSize \in Nat
  BY <1>1, <1>2, DivIs
<1>4. from <= last + SectorSize /\ (last + SectorSize) \div SectorSize = last \div SectorSize + 1
  <2>1. PICK q \in Nat, r \in 0 .. SectorSize - 1 :
          q = last \div SectorSize /\ last = q * SectorSize + r
    <3>1. /\ last \div SectorSize \in Nat /\ last % SectorSize \in 0 .. SectorSize - 1
          /\ last = (last \div SectorSize) * SectorSize + (last % SectorSize)
      BY <1>1, <1>2, DivIs
    <3> QED BY <3>1, Zenon
  <2>2. PICK p \in Nat : p = q + 1
    OBVIOUS
  <2>3. p * SectorSize = q * SectorSize + SectorSize /\ q * SectorSize \in Nat
    BY <1>1, <2>2
  <2>4. last + SectorSize = p * SectorSize + r
    <3>1. PICK a \in Int, b \in Int : a = q * SectorSize /\ b = p * SectorSize
      BY <1>1
    <3>2. last = a + r /\ b = a + SectorSize
      BY <2>1, <2>3, <3>1
    <3> QED BY <1>1, <3>1, <3>2
  <2>5. (p * SectorSize + r) \div SectorSize = p
    BY <1>1, DivMod
  <2>6. from <= last + SectorSize
    BY <1>1, <1>2
  <2> QED BY <2>1, <2>2, <2>4, <2>5, <2>6
<1>5. from \div SectorSize <= last \div SectorSize + 1
  <2>1. last + SectorSize \in Nat
    BY <1>1, <1>2
  <2>2. from \div SectorSize <= (last + SectorSize) \div SectorSize
    BY <1>1, <1>4, <2>1, DivMonotone
  <2> QED BY <1>4, <2>2
<1>6. ASSUME from \div SectorSize > last \div SectorSize PROVE count = 0 /\ from + count # 0
  <2>1. ~(from <= last)
    BY <1>1, <1>2, <1>3, <1>6, DivMonotone
  <2> QED BY <1>1, <1>2, <2>1
<1> QED BY <1>2, <1>3, <1>5, <1>6

\* The same of the request being read.
LEMMA RequestIs ==
  ASSUME Place, Reading
  PROVE  /\ LastByte \in Nat /\ Start \in Nat /\ End \in Nat /\ Total \in Nat /\ offset \in Nat
         /\ offset + Total = LastByte + 1 /\ counter \in Nat
         /\ offset = Start * SectorSize + (offset % SectorSize)
         /\ LastByte = End * SectorSize + (LastByte % SectorSize)
         /\ offset % SectorSize \in 0 .. SectorSize - 1
         /\ LastByte % SectorSize \in 0 .. SectorSize - 1
<1>1. /\ SectorSize \in Nat \ {0} /\ Width \in Nat /\ offset \in Offsets /\ size \in Sizes
      /\ offset \in Nat /\ size \in Nat /\ counter \in Start .. End + 1
  BY DiskAssumption DEF Place
<1>2. /\ LastByte \in Nat /\ End \in Nat /\ Start \in Nat /\ offset + Total = LastByte + 1
  <2>1. PICK last : last = (offset + size - 1) % Width
    OBVIOUS
  <2>2. /\ last \in Nat /\ last \div SectorSize \in Nat /\ offset \div SectorSize \in Nat
        /\ offset + (IF offset + size = 0 THEN Width ELSE size) = last + 1
    BY <1>1, <2>1, Requested
  <2> QED BY <2>1, <2>2 DEF LastByte, End, Start, Total
<1>3. Total \in Nat
  BY <1>1 DEF Total
<1>4. /\ offset = Start * SectorSize + (offset % SectorSize)
      /\ LastByte = End * SectorSize + (LastByte % SectorSize)
      /\ offset % SectorSize \in 0 .. SectorSize - 1
      /\ LastByte % SectorSize \in 0 .. SectorSize - 1
  BY <1>1, <1>2, DivIs DEF Start, End
<1> QED BY <1>1, <1>2, <1>3, <1>4

\* What Copy takes ends inside the sector, and it fills the caller's buffer up
\* to the next sector or to the last byte asked for.
LEMMA CopyPlace ==
  ASSUME Types, Memory, Place, pc = "copy", op = "read"
  PROVE  /\ SectorOffset \in 0 .. SectorSize - 1 /\ ReadSize \in 0 .. SectorSize - SectorOffset
         /\ offset + currentBuffer = counter * SectorSize + SectorOffset
         /\ counter < End => offset + currentBuffer + ReadSize = counter * SectorSize + SectorSize
         /\ counter = End => currentBuffer + ReadSize = Total
         /\ counter <= End /\ currentBuffer + ReadSize <= Total
<1>1. Reading /\ SectorSize \in Nat \ {0} /\ Width \in Nat /\ SectorSize < Width /\ currentBuffer \in Nat
  BY DiskAssumption DEF Reading, Memory
<1>2. /\ LastByte \in Nat /\ Start \in Nat /\ End \in Nat /\ Total \in Nat /\ offset \in Nat
      /\ offset + Total = LastByte + 1 /\ counter \in Nat
      /\ offset = Start * SectorSize + (offset % SectorSize)
      /\ LastByte = End * SectorSize + (LastByte % SectorSize)
      /\ offset % SectorSize \in 0 .. SectorSize - 1
      /\ LastByte % SectorSize \in 0 .. SectorSize - 1
  BY <1>1, RequestIs
<1>3. /\ counter >= Start /\ counter <= End
      /\ offset + currentBuffer = counter * SectorSize + SectorOffset
  BY <1>1, <1>2 DEF Place
<1>4. SectorOffset \in 0 .. SectorSize - 1
  BY <1>1, <1>2 DEF SectorOffset
<1>5. PICK so \in 0 .. SectorSize - 1, eo \in 0 .. SectorSize - 1 :
        so = SectorOffset /\ eo = LastByte % SectorSize
  BY <1>2, <1>4
<1>6. counter # End => ReadSize = SectorSize - so
  BY <1>5 DEF ReadSize
<1>7. ASSUME counter = End
      PROVE  /\ ReadSize = eo - so + 1 /\ ReadSize \in 0 .. SectorSize - so
             /\ currentBuffer + ReadSize = Total
  <2>1. eo - so + 1 >= 0
    <3>1. CASE counter = Start
      <4>1. so = offset % SectorSize
        BY <1>5, <3>1 DEF SectorOffset
      <4>2. PICK y \in Int : y = Start * SectorSize
        BY <1>1, <1>2
      <4>3. offset = y + so /\ LastByte = y + eo
        BY <1>2, <1>5, <1>7, <3>1, <4>1, <4>2
      <4> QED BY <1>2, <4>3
    <3>2. CASE counter # Start
      BY <1>5, <3>2 DEF SectorOffset
    <3> QED BY <3>1, <3>2
  <2>2. LastPart(SectorOffset) = (eo - so + 1) % Width
    BY <1>5 DEF LastPart
  <2>3. PICK x \in 0 .. Width - 1 : x = eo - so + 1
    BY <1>1, <2>1
  <2>4. x % Width = x
    BY <1>1
  <2>5. ReadSize = eo - so + 1 /\ ReadSize \in 0 .. SectorSize - so
    BY <1>1, <1>7, <2>1, <2>2, <2>3, <2>4 DEF ReadSize
  <2>6. PICK y \in Int : y = End * SectorSize
    BY <1>1, <1>2
  <2>7. offset + currentBuffer = y + so /\ LastByte = y + eo
    BY <1>2, <1>3, <1>5, <1>7, <2>6
  <2> QED BY <1>1, <1>2, <2>5, <2>7
<1>8. ASSUME counter < End
      PROVE  /\ ReadSize \in 0 .. SectorSize - so
             /\ offset + currentBuffer + ReadSize = counter * SectorSize + SectorSize
             /\ currentBuffer + ReadSize <= Total
  <2>1. ReadSize = SectorSize - so
    BY <1>2, <1>6, <1>8
  <2>2. PICK y \in Int : y = counter * SectorSize
    BY <1>1, <1>2
  <2>3. offset + currentBuffer + ReadSize = y + SectorSize
    BY <1>1, <1>2, <1>3, <1>5, <2>1, <2>2
  <2>4. PICK d \in Nat : End = counter + 1 + d
    <3>1. End - counter - 1 \in Nat /\ End = counter + 1 + (End - counter - 1)
      BY <1>2, <1>8
    <3> QED BY <3>1
  <2>5. End * SectorSize = counter * SectorSize + SectorSize + d * SectorSize /\ d * SectorSize \in Nat
    BY <1>1, <1>2, <2>4
  <2>6. LastByte >= y + SectorSize
    BY <1>1, <1>2, <1>5, <2>2, <2>5
  <2> QED BY <1>1, <1>2, <1>5, <2>1, <2>2, <2>3, <2>6
<1> QED BY <1>2, <1>3, <1>4, <1>5, <1>7, <1>8

\* Steps that leave the request and the loop's variables alone.
LEMMA PlaceKept ==
  ASSUME Place, UNCHANGED <<op, offset, size, counter, currentBuffer>>,
         Reading' => Reading, Reading' /\ pc' # "loop" => counter <= End
  PROVE  Place'
<1>1. /\ Start' = Start /\ End' = End /\ Total' = Total /\ SectorOffset' = SectorOffset
  BY DEF Start, End, LastByte, Total, SectorOffset
<1> QED BY <1>1 DEF Place

LEMMA PlaceInductive == IInv /\ Memory /\ Place /\ [Next]_vars => Place'
<1> SUFFICES ASSUME IInv, Memory, Place, [Next]_vars PROVE Place'
  OBVIOUS
<1>0. Types
  BY DEF IInv
<1>1. ASSUME NEW d \in Drives, Identify(d) PROVE Place'
  BY <1>1 DEF Identify, Place, Reading
<1>2. ASSUME NEW d \in Drives, NEW from \in Offsets, NEW count \in Sizes, Read(d, from, count) PROVE Place'
  <2>1. /\ op' = "read" /\ offset' = from /\ size' = count /\ counter' = from \div SectorSize
        /\ currentBuffer' = 0 /\ pc' = "loop"
    BY <1>2 DEF Read
  <2>2. PICK last : last = (from + count - 1) % Width
    OBVIOUS
  <2>3. /\ from \div SectorSize \in Nat /\ last \div SectorSize \in Nat
        /\ from \div SectorSize <= last \div SectorSize + 1
        /\ from \div SectorSize > last \div SectorSize => count = 0 /\ from + count # 0
    BY <2>2, Requested
  <2>4. Start' = from \div SectorSize /\ End' = last \div SectorSize
    BY <2>1, <2>2 DEF Start, End, LastByte
  <2>5. counter' \in Start' .. End' + 1
    BY <2>1, <2>3, <2>4
  <2>6. offset' + currentBuffer' = counter' * SectorSize + SectorOffset'
    <3>1. from \in Nat /\ SectorSize \in Nat \ {0}
      BY DiskAssumption
    <3>2. from = (from \div SectorSize) * SectorSize + (from % SectorSize)
      BY <3>1, DivIs
    <3>3. SectorOffset' = from % SectorSize
      BY <2>1, <2>4 DEF SectorOffset
    <3>4. offset' + currentBuffer' = from
      BY <2>1, <3>1
    <3> QED BY <2>1, <3>2, <3>3, <3>4
  <2>7. counter' > End' => currentBuffer' = Total'
    BY <2>1, <2>3, <2>4 DEF Total
  <2> QED BY <2>1, <2>5, <2>6, <2>7 DEF Place
<1>3. ASSUME NEW d \in Drives, ShowBusy(d) PROVE Place'
  BY <1>3, PlaceKept DEF ShowBusy, call, Reading, Place
<1>4. ASSUME NEW d \in Drives, Complete(d) PROVE Place'
  BY <1>4, PlaceKept DEF Complete, call, Reading, Place
<1>5. CASE Loop
  BY <1>5, PlaceKept DEF Loop, call, Reading, Place
<1>6. CASE Select
  BY <1>6, PlaceKept DEF Select, call, Reading, Place
<1>7. CASE Command
  BY <1>7, PlaceKept DEF Command, call, Reading, Place
<1>8. CASE Status
  BY <1>8, PlaceKept DEF Status, call, Reading, Place
<1>9. CASE PollStatus
  BY <1>9, PlaceKept DEF PollStatus, call, Reading, Place
<1>10. CASE Transfer
  BY <1>10, PlaceKept DEF Transfer, call, Reading, Place
<1>11. CASE Copy
  <2>1. pc = "copy" /\ op = "read" /\ currentBuffer \in Nat /\ Reading
    BY <1>11 DEF Copy, Memory, Reading
  <2>2. /\ UNCHANGED <<op, offset, size>> /\ counter' = counter + 1 /\ pc' = "loop"
        /\ currentBuffer' = currentBuffer + ReadSize
    BY <1>0, <1>11, <2>1, CopyIs DEF Copy, call
  <2>3. /\ ReadSize \in 0 .. SectorSize - SectorOffset /\ counter <= End
        /\ counter < End => offset + currentBuffer + ReadSize = counter * SectorSize + SectorSize
        /\ counter = End => currentBuffer + ReadSize = Total
    BY <1>0, <2>1, CopyPlace
  <2>4. Start \in Nat /\ End \in Nat /\ offset \in Nat /\ counter \in Start .. End /\ SectorSize \in Nat
    BY <2>1, <2>3, RequestIs, DiskAssumption DEF Place
  <2>5. Start' = Start /\ End' = End /\ Total' = Total
    BY <2>2 DEF Start, End, LastByte, Total
  <2>6. SectorOffset' = 0
    BY <2>2, <2>4, <2>5 DEF SectorOffset
  <2>7. counter' * SectorSize = counter * SectorSize + SectorSize
    BY <2>2, <2>4
  <2>8. counter' <= End => offset' + currentBuffer' = counter' * SectorSize + SectorOffset'
    <3>1. PICK y \in Int : y = counter * SectorSize
      BY <2>4
    <3> QED BY <2>1, <2>2, <2>3, <2>4, <2>6, <2>7, <3>1
  <2>9. counter' > End => currentBuffer' = Total
    BY <2>2, <2>3, <2>4
  <2>10. counter' \in Start .. End + 1
    BY <2>2, <2>4
  <2> QED BY <2>1, <2>2, <2>5, <2>8, <2>9, <2>10 DEF Place
<1>12. CASE UNCHANGED vars
  BY <1>12, PlaceKept DEF vars, call, Reading, Place
<1> QED BY <1>1, <1>2, <1>3, <1>4, <1>5, <1>6, <1>7, <1>8, <1>9, <1>10, <1>11, <1>12 DEF Next, Driver

-----------------------------------------------------------------------------
(***************************************************************************)
(* The bytes.                                                              *)
(***************************************************************************)
\* Steps of others leave the bytes alone.
LEMMA FaithfulKept ==
  ASSUME Faithful, Reading, ~Spoilt,
         UNCHANGED <<op, offset, size, self, counter, currentBuffer, ret, buf, word, selected>>,
         pc' = pc,
         drive'[self].state \in {drive[self].state} \cup Working \cup {"data"},
         drive'[self].command = drive[self].command, drive'[self].lba = drive[self].lba
  PROVE  Faithful'
BY DEF Faithful, FromDisk

LEMMA FaithfulInductive == IInv /\ Memory /\ Place /\ Faithful /\ [Next]_vars => Faithful'
<1> SUFFICES ASSUME IInv, Memory, Place, Faithful, [Next]_vars, Reading', ~Spoilt'
             PROVE  Faithful'
  BY DEF Faithful
<1>0. Types /\ (~early => Quiet /\ InStep) /\ Words \in Nat \ {0} /\ SectorSize \in Nat \ {0} /\ 2 * Words = SectorSize
  BY WordsOfSector, DiskAssumption DEF IInv
<1>1. ~early' /\ ~failed' /\ self' \in present' /\ op' = "read" /\ pc' # "idle"
  BY DEF Spoilt, Reading
<1>2. ASSUME NEW d \in Drives, Identify(d) PROVE Faithful'
  BY <1>1, <1>2 DEF Identify
<1>3. ASSUME NEW d \in Drives, NEW from \in Offsets, NEW count \in Sizes, Read(d, from, count) PROVE Faithful'
  <2>1. currentBuffer' = 0 /\ pc' = "loop"
    BY <1>3 DEF Read
  <2> QED BY <2>1 DEF Faithful
<1>4. ASSUME NEW d \in Drives, ShowBusy(d) PROVE Faithful'
  <2> DEFINE shown == [drive[d] EXCEPT !.state = "busy"]
  <2>1. drive[d] \in Transfers /\ "busy" \in States
    BY <1>0 DEF Types, States, Working
  <2>2. shown.state = "busy" /\ shown.command = drive[d].command /\ shown.lba = drive[d].lba
    BY <2>1, StateTypes
  <2>3. drive' = [drive EXCEPT ![d] = shown]
    BY <1>4 DEF ShowBusy
  <2> HIDE DEF shown
  <2>4. /\ drive'[self].state \in {drive[self].state} \cup Working
        /\ drive'[self].command = drive[self].command /\ drive'[self].lba = drive[self].lba
    BY <1>0, <2>2, <2>3 DEF Types, Working
  <2>5. /\ UNCHANGED <<op, offset, size, self, counter, currentBuffer, ret, buf, word, selected>>
        /\ pc' = pc /\ UNCHANGED <<early, failed, present>>
    BY <1>4 DEF ShowBusy, machine, call, history
  <2> QED BY <1>1, <2>4, <2>5, FaithfulKept DEF Reading, Spoilt
<1>5. ASSUME NEW d \in Drives, Complete(d) PROVE Faithful'
  <2> DEFINE ready == [drive[d] EXCEPT !.state = "data"]
  <2>1. drive[d] \in Transfers /\ "data" \in States
    BY <1>0 DEF Types, States
  <2>2. ready.state = "data" /\ ready.command = drive[d].command /\ ready.lba = drive[d].lba
    BY <2>1, StateTypes
  <2>3. drive' = [drive EXCEPT ![d] = ready] /\ failed' = failed
    BY <1>1, <1>5 DEF Complete
  <2> HIDE DEF ready
  <2>4. /\ drive'[self].state \in {drive[self].state} \cup {"data"}
        /\ drive'[self].command = drive[self].command /\ drive'[self].lba = drive[self].lba
    BY <1>0, <2>2, <2>3 DEF Types
  <2>5. /\ UNCHANGED <<op, offset, size, self, counter, currentBuffer, ret, buf, word, selected>>
        /\ pc' = pc /\ UNCHANGED <<early, present>>
    BY <1>5 DEF Complete, machine, call
  <2> QED BY <1>1, <2>3, <2>4, <2>5, FaithfulKept DEF Reading, Spoilt
<1>6. CASE Loop
  <2>1. /\ pc' = "select" /\ pc = "loop"
        /\ UNCHANGED <<early, failed, present, op, offset, size, self, counter, currentBuffer, buf>>
    BY <1>1, <1>6 DEF Loop, machine, call, history
  <2> QED BY <1>1, <2>1 DEF Faithful, Reading, Spoilt
<1>7. CASE Select
  <2>1. /\ pc' = "command" /\ pc = "select" /\ selected' = IF Listening THEN self ELSE selected
        /\ UNCHANGED <<early, failed, present, op, offset, size, self, counter, currentBuffer, buf>>
    BY <1>1, <1>7 DEF Select, machine, call, history
  <2>2. Listening
    BY <1>0, <1>1, <2>1 DEF InStep, Listening, Settled
  <2> QED BY <1>1, <2>1, <2>2 DEF Faithful, Reading, Spoilt
<1>8. CASE Command
  <2>1. /\ pc' = "status" /\ pc = "command" /\ op = "read" /\ drive' = Taken("read", counter)
        /\ UNCHANGED <<early, failed, present, op, offset, size, self, counter, currentBuffer, buf, selected>>
    BY <1>1, <1>8 DEF Command, machine, call, history
  <2>2. selected = self /\ self \in present /\ drive[self].state \in Settled
    BY <1>0, <1>1, <2>1 DEF Faithful, Reading, Spoilt, InStep
  <2>3. Listening /\ ~Absent
    BY <2>2 DEF Listening, Absent, Settled
  <2>4. drive'[self] = [state |-> IF late THEN "late" ELSE "busy", command |-> "read",
                        lba |-> counter, word |-> 0]
    BY <1>0, <2>1, <2>2, <2>3 DEF Taken, Types
  <2>5. /\ drive'[self].state \in Working /\ drive'[self].command = "read"
        /\ drive'[self].lba = counter
    BY <2>4 DEF Working
  <2> QED BY <1>1, <2>1, <2>2, <2>5 DEF Faithful, Reading, Spoilt
<1>9. CASE Status \/ PollStatus
  <2>1. /\ pc' \in {"poll", "transfer"} /\ pc \in {"status", "poll"}
        /\ UNCHANGED <<early, failed, present, op, offset, size, self, counter, currentBuffer, buf, selected,
                       drive, word>>
    BY <1>1, <1>9 DEF Status, PollStatus, machine, ports, call, history
  <2>2. word' = 0
    BY <1>0, <1>1, <2>1 DEF InStep
  <2>3. 0 .. 2 * word' - 1 = {}
    BY <2>2
  <2> QED BY <1>1, <2>1, <2>3 DEF Faithful, Reading, Spoilt
<1>10. CASE Transfer
  <2> DEFINE d == drive[self]
             next == NextWord(d)
  <2>1. /\ pc = "transfer" /\ drive' = AfterWord /\ op = "read"
        /\ early' = (early \/ (~Absent /\ drive[selected].state \in Working))
        /\ UNCHANGED <<failed, present, op, offset, size, self, counter, currentBuffer, buf, selected>>
    BY <1>1, <1>10 DEF Transfer, machine, call, Working
  <2>2. ~early /\ ~failed /\ self \in present /\ selected = self
    BY <1>1, <2>1 DEF Faithful, Reading, Spoilt
  <2>3. d.state = "data" /\ d.command = "read" /\ d.lba = counter /\ Due
    BY <1>1, <2>1, <2>2 DEF Faithful, Reading, Spoilt, Absent, Due
  <2>4. d.word = word /\ word \in 0 .. Words - 1 /\ d \in Transfers /\ self \in Drives
    BY <1>0, <2>1, <2>2, <2>3 DEF InStep, Types
  <2>5. drive' = [drive EXCEPT ![self] = next]
    BY <2>1, <2>2, <2>3 DEF AfterWord
  <2>6. CASE pc' = "fault"
    BY <1>1, <2>1, <2>2, <2>6 DEF Faithful, Reading, Spoilt
  <2>7. CASE pc' # "fault"
    <3>1. /\ ret' = Stored
          /\ word' = IF word = Words - 1 THEN 0 ELSE word + 1
          /\ pc' = IF word' # 0 THEN "transfer" ELSE "copy"
      BY <1>10, <2>1, <2>7 DEF Transfer
    <3>2. /\ Stored[2 * word] = Byte(self, counter, 2 * word)
          /\ Stored[2 * word + 1] = Byte(self, counter, 2 * word + 1)
          /\ \A i \in 0 .. 2 * word - 1 : Stored[i] = ret[i]
      BY <1>0, <2>2, <2>3, <2>4, StoredIs, WordBytesAre DEF Memory
    <3>3. \A i \in 0 .. 2 * word - 1 : FromDisk(counter, i)
      BY <2>1, <2>2 DEF Faithful, Reading, Spoilt
    <3>4. ASSUME NEW i \in 0 .. 2 * word + 1 PROVE ret'[i] = Byte(self, counter, i)
      <4>1. i \in 0 .. 2 * word - 1 \/ i = 2 * word \/ i = 2 * word + 1
        BY <2>4
      <4> QED BY <3>1, <3>2, <3>3, <4>1 DEF FromDisk
    <3>5. CASE word = Words - 1
      <4>1. pc' = "copy" /\ 2 * word + 1 = SectorSize - 1
        BY <1>0, <3>1, <3>5
      <4>2. \A i \in 0 .. SectorSize - 1 : ret'[i] = Byte(self, counter, i)
        BY <3>4, <4>1
      <4> QED BY <1>1, <2>1, <2>2, <4>1, <4>2 DEF Faithful, Reading, Spoilt, FromDisk
    <3>6. CASE word # Words - 1
      <4>1. pc' = "transfer" /\ word' = word + 1 /\ 2 * word' - 1 = 2 * word + 1
        BY <2>4, <3>1, <3>6
      <4>2. \A i \in 0 .. 2 * word' - 1 : ret'[i] = Byte(self, counter, i)
        BY <3>4, <4>1
      <4>3. 2 * d.word + 2 # SectorSize
        <5>1. 2 * word + 2 # SectorSize
          <6> HIDE DEF d
          <6> QED BY <1>0, <2>4, <3>6
        <5> QED BY <2>4, <5>1, Zenon
      <4>4. next.state = "data" /\ next.command = "read" /\ next.lba = counter
        BY <2>3, <2>4, <4>3, NextWordCases
      <4> HIDE DEF next
      <4>5. drive'[self] = next
        BY <1>0, <2>4, <2>5 DEF Types
      <4> QED BY <1>1, <2>1, <2>2, <4>1, <4>2, <4>4, <4>5 DEF Faithful, Reading, Spoilt, FromDisk
    <3> QED BY <3>5, <3>6
  <2> QED BY <2>6, <2>7
<1>11. CASE Copy
  <2>1. /\ pc = "copy" /\ pc' = "loop" /\ op = "read" /\ currentBuffer \in Nat
        /\ UNCHANGED <<early, failed, present, op, offset, size, self>>
    BY <1>11 DEF Copy, Memory, machine, call, history
  <2>2. /\ ReadSize \in Nat /\ SectorOffset \in 0 .. SectorSize - 1
        /\ currentBuffer' = currentBuffer + ReadSize
        /\ buf' = [i \in DOMAIN buf \cup currentBuffer .. currentBuffer + ReadSize - 1 |->
                     IF i \in currentBuffer .. currentBuffer + ReadSize - 1
                     THEN CopiedByte(i) ELSE buf[i]]
    BY <1>0, <1>11, <2>1, CopyIs
  <2>3. /\ ReadSize \in 0 .. SectorSize - SectorOffset
        /\ offset + currentBuffer = counter * SectorSize + SectorOffset
    BY <1>0, <2>1, CopyPlace
  <2>4. /\ offset \in Nat /\ counter \in Nat /\ DOMAIN buf = 0 .. currentBuffer - 1
    BY <2>1, RequestIs DEF Memory, Reading
  <2>5. /\ \A i \in 0 .. SectorSize - 1 : ret[i] = Byte(self, counter, i)
        /\ \A i \in 0 .. currentBuffer - 1 :
             buf[i] = ByteAt(self, offset + i)
    BY <1>1, <2>1 DEF Faithful, Reading, Spoilt, FromDisk
  <2>6. ASSUME NEW i \in 0 .. currentBuffer' - 1
        PROVE  buf'[i] = ByteAt(self, offset + i)
    <3>1. CASE i \in 0 .. currentBuffer - 1
      <4>1. i \notin currentBuffer .. currentBuffer + ReadSize - 1 /\ i \in DOMAIN buf
        BY <2>1, <2>4, <3>1
      <4> QED BY <2>2, <2>5, <3>1, <4>1
    <3>2. CASE i \notin 0 .. currentBuffer - 1
      <4>1. i \in currentBuffer .. currentBuffer + ReadSize - 1
        BY <2>1, <2>2, <2>6, <3>2
      <4>2. PICK k \in 0 .. SectorSize - 1 : k = i - currentBuffer + SectorOffset
        BY <1>0, <2>1, <2>2, <2>3, <4>1
      <4>3. offset + i = counter * SectorSize + k
        <5>1. PICK y \in Int : y = counter * SectorSize
          BY <1>0, <2>4
        <5> QED BY <2>1, <2>2, <2>3, <2>4, <4>1, <4>2, <5>1
      <4>4. (offset + i) \div SectorSize = counter /\ (offset + i) % SectorSize = k
        BY <1>0, <2>4, <4>3, DivMod
      <4>5. k % SectorSize = k
        BY <1>0
      <4>6. buf'[i] = CopiedByte(i)
        BY <2>2, <4>1
      <4> QED BY <2>5, <4>2, <4>4, <4>5, <4>6 DEF CopiedByte, ByteAt
    <3> QED BY <3>1, <3>2
  <2> QED BY <2>1, <2>6 DEF Faithful
<1>12. CASE UNCHANGED vars
  <2>1. UNCHANGED <<op, offset, size, self, counter, currentBuffer, ret, buf, word, selected, drive,
                    pc, early, failed, present>>
    BY <1>12 DEF vars, machine, ports, call, history
  <2> QED BY <1>1, <2>1, FaithfulKept DEF Reading, Spoilt
<1> QED BY <1>2, <1>3, <1>4, <1>5, <1>6, <1>7, <1>8, <1>9, <1>10, <1>11, <1>12 DEF Next, Driver

-----------------------------------------------------------------------------
(***************************************************************************)
(* The theorems.                                                           *)
(***************************************************************************)
DInv == IInv /\ Memory /\ Place /\ Faithful

LEMMA DataInvariant == Spec => []DInv
<1>1. Init => DInv
  <2> SUFFICES ASSUME Init PROVE Memory /\ Place /\ Faithful
    BY InitSettled DEF DInv
  <2>1. pc = "idle" /\ op = "none" /\ currentBuffer = 0 /\ buf = << >> /\ ret = Fresh /\ buffers = 0 /\ failed = FALSE
    BY DEF Init
  <2>2. failed \in BOOLEAN
    BY <2>1, Zenon
  <2>3. Memory
    BY <2>1, <2>2, FreshTypes, NothingYet, DiskAssumption DEF Memory
  <2>4. ~Reading
    BY <2>1 DEF Reading
  <2> QED BY <2>3, <2>4 DEF Place, Faithful
<1>2. DInv /\ [Next]_vars => DInv'
  BY NextSettled, MemoryInductive, PlaceInductive, FaithfulInductive DEF DInv
<1> QED BY <1>1, <1>2, PTL DEF Spec

\* The driver stays inside the sector buffer, fills the caller's from the front,
\* and uses no sector buffer behind kmalloc's last, whatever the drives do.
THEOREM TypeCorrect == Spec => []TypeOK
<1>1. DInv => TypeOK
  <2> SUFFICES ASSUME Types, Memory PROVE TypeOK
    BY DEF DInv, IInv
  <2>1. Words = SectorSize \div 2 /\ Words \in Nat
    BY WordsOfSector DEF Words
  <2>2. \A d \in Drives : /\ drive[d].state \in {"idle", "late", "busy", "data", "error"}
                          /\ drive[d].command \in {"none", "identify", "read"}
                          /\ drive[d].word \in 0 .. Words - 1
    BY DEF Types, Transfers, States, Settled, Working
  <2>3. buffers > Buffers => pc \notin {"idle", "loop", "copy"}
    BY DiskAssumption DEF Memory
  <2> HIDE DEF Words
  <2> QED BY <2>1, <2>2, <2>3 DEF Types, Memory, TypeOK
<1> QED BY <1>1, DataInvariant, PTL

\* The refinement mapping outside the steps that change it.
LEMMA Unanswered ==
  ASSUME DInv, UNCHANGED <<op, self, offset, size, currentBuffer, buf>>, Reading' <=> Reading
  PROVE  Request' = Request /\ Answer' = Answer
BY DEF Request, Answer, Total

\* What the mapping has of a call at its start and at its end.
LEMMA NoRequest ==
  /\ ~Reading => Request = Disks!Idle
  /\ Reading => Request = [drive |-> self, offset |-> offset, size |-> Total]
BY DEF Request, Disks!Idle

LEMMA NoRequestNext ==
  /\ ~Reading' => Request' = Disks!Idle
  /\ Reading' => Request' = [drive |-> self', offset |-> offset', size |-> Total']
BY DEF Request, Disks!Idle

\* A buffer that is numbered from 0, as a sequence.
LEMMA AsSequence ==
  ASSUME NEW n \in Nat, NEW b, \A i \in 0 .. n - 1 : b[i] \in Bytes,
         NEW a, a = [i \in 1 .. n |-> b[i - 1]]
  PROVE  a \in Seq(Bytes) /\ Len(a) = n /\ \A i \in 1 .. n : a[i] = b[i - 1]
<1>1. \A i \in 1 .. n : b[i - 1] \in Bytes
  OBVIOUS
<1> QED BY <1>1

LEMMA Implements == DInv /\ [Next]_vars => [Disks!Next]_(Disks!diskVars)
<1> SUFFICES ASSUME DInv, [Next]_vars PROVE [Disks!Next]_(Disks!diskVars)
  OBVIOUS
<1>0. Types /\ Memory /\ Place /\ Faithful
  BY DEF DInv, IInv
<1>1. Spoilt \in BOOLEAN /\ Spoilt' \in BOOLEAN
  BY DEF Spoilt
<1>2. ASSUME NEW d \in Drives, Identify(d) PROVE Disks!OtherUse
  <2>1. ~Reading /\ ~Reading' /\ currentBuffer' = 0
    BY <1>2 DEF Identify, Reading
  <2>2. Answer' = << >>
    BY <2>1 DEF Answer
  <2> QED BY <1>1, <2>1, <2>2, NoRequest, NoRequestNext DEF Disks!OtherUse
<1>3. ASSUME NEW d \in Drives, NEW from \in Offsets, NEW count \in Sizes, Read(d, from, count) PROVE Disks!Ask
  <2>1. /\ ~Reading /\ Reading' /\ currentBuffer' = 0 /\ self' = d /\ offset' = from /\ size' = count
    BY <1>3 DEF Read, Reading
  <2>2. Answer' = << >>
    BY <2>1 DEF Answer
  <2>3. Total' \in Sizes \cup {Width}
    BY <2>1 DEF Total
  <2>4. Request' = [drive |-> d, offset |-> from, size |-> Total']
    BY <2>1, NoRequestNext
  <2> QED BY <1>1, <2>1, <2>2, <2>3, <2>4, NoRequest DEF Disks!Ask
<1>4. ASSUME NEW d \in Drives, ShowBusy(d) PROVE UNCHANGED Disks!diskVars
  <2>1. UNCHANGED <<op, pc, self, offset, size, currentBuffer, buf, early, failed, present>>
    BY <1>4 DEF ShowBusy, machine, call, history
  <2> QED BY <2>1, Unanswered DEF Disks!diskVars, Reading, Spoilt
<1>5. ASSUME NEW d \in Drives, Complete(d) PROVE Disks!Spoil \/ UNCHANGED Disks!diskVars
  <2>1. /\ UNCHANGED <<op, pc, self, offset, size, currentBuffer, buf, early, present>>
        /\ failed' = failed \/ failed' = TRUE
    BY <1>5 DEF Complete, machine, call
  <2>2. Request' = Request /\ Answer' = Answer
    BY <2>1, Unanswered DEF Reading
  <2> QED BY <1>1, <2>1, <2>2 DEF Disks!diskVars, Disks!Spoil, Spoilt
<1>6. CASE Loop
  <2>1. /\ op = "read" /\ pc = "loop"
        /\ UNCHANGED <<op, self, offset, size, currentBuffer, buf, early, failed, present>>
    BY <1>0, <1>6 DEF Loop, Memory, machine, call, history
  <2>2. Answer' = Answer /\ Spoilt' = Spoilt /\ Reading
    BY <2>1 DEF Answer, Spoilt, Reading
  <2>3. CASE pc' = "select"
    BY <2>1, <2>2, <2>3, Unanswered DEF Reading, Disks!diskVars
  <2>4. CASE pc' = "idle" /\ ~(counter <= End)
    <3>1. currentBuffer = Total /\ currentBuffer \in Nat
      <4>1. counter \in Nat /\ End \in Nat
        BY <1>0, <2>2, RequestIs
      <4> QED BY <1>0, <2>2, <2>4, <4>1 DEF Place, Memory
    <3>2. Len(Answer) = currentBuffer
      BY <3>1 DEF Answer
    <3>3. ~Reading' /\ Request.size = Total /\ Request.drive = self /\ self \in Drives
      BY <1>0, <2>2, <2>4, NoRequest DEF Reading, Types
    <3>4. Request # Disks!Idle
      BY <3>3 DEF Disks!Idle, Drives
    <3> QED BY <2>2, <3>1, <3>2, <3>3, <3>4, NoRequestNext DEF Disks!Return, Disks!Next
  <2>5. QED BY <1>6, <2>3, <2>4 DEF Loop, Disks!Next
<1>7. CASE Select \/ Command \/ Status \/ PollStatus
  <2>1. /\ UNCHANGED <<op, self, offset, size, currentBuffer, buf, early, failed, present>>
        /\ pc # "idle" /\ (pc' = "idle" => op # "read")
    BY <1>7 DEF Select, Command, Status, PollStatus, machine, call, history
  <2> QED BY <2>1, Unanswered DEF Disks!diskVars, Reading, Spoilt
<1>8. CASE Transfer
  <2>1. /\ UNCHANGED <<op, self, offset, size, currentBuffer, buf, failed, present>>
        /\ early' = (early \/ (~Absent /\ drive[selected].state \in {"late", "busy"}))
        /\ pc # "idle" /\ (pc' = "idle" => op # "read")
    BY <1>8 DEF Transfer, machine, call
  <2>2. Request' = Request /\ Answer' = Answer
    BY <2>1, Unanswered DEF Reading
  <2>3. Spoilt' = Spoilt \/ Spoilt' = TRUE
    BY <1>1, <2>1 DEF Spoilt
  <2> QED BY <2>2, <2>3 DEF Disks!diskVars, Disks!Spoil, Disks!Next
<1>9. CASE Copy
  <2>1. /\ pc = "copy" /\ pc' = "loop" /\ op = "read" /\ currentBuffer \in Nat
        /\ UNCHANGED <<early, failed, present, op, offset, size, self>>
    BY <1>0, <1>9 DEF Copy, Memory, machine, call, history
  <2>2. Reading /\ Reading' /\ Spoilt' = Spoilt /\ Total' = Total
    BY <2>1 DEF Reading, Spoilt, Total
  <2>3. /\ ReadSize \in Nat /\ currentBuffer' = currentBuffer + ReadSize
        /\ buf' = [i \in DOMAIN buf \cup currentBuffer .. currentBuffer + ReadSize - 1 |->
                     IF i \in currentBuffer .. currentBuffer + ReadSize - 1
                     THEN CopiedByte(i) ELSE buf[i]]
    BY <1>0, <1>9, <2>1, CopyIs
  <2>4. currentBuffer + ReadSize <= Total /\ Total \in Nat
    BY <1>0, <2>1, <2>2, CopyPlace, RequestIs
  <2>5. /\ Request' = Request /\ Request.size = Total /\ Request.drive = self
        /\ Request.offset = offset /\ self \in Drives
    BY <1>0, <2>1, <2>2, NoRequest, NoRequestNext DEF Types
  <2>6. Request # Disks!Idle
    BY <2>5 DEF Disks!Idle, Drives
  <2>7. /\ Answer \in Seq(Bytes) /\ Len(Answer) = currentBuffer
        /\ \A i \in 1 .. currentBuffer : Answer[i] = buf[i - 1]
    <3>1. \A i \in 0 .. currentBuffer - 1 : buf[i] \in Bytes
      BY <1>0 DEF Memory
    <3>2. PICK n \in Nat : n = currentBuffer
      BY <2>1
    <3>3. PICK b : b = buf
      OBVIOUS
    <3>4. Answer = [i \in 1 .. n |-> b[i - 1]]
      BY <3>2, <3>3 DEF Answer
    <3> QED BY <3>1, <3>2, <3>3, <3>4, AsSequence
  <2>8. DInv'
    BY NextSettled, MemoryInductive, PlaceInductive, FaithfulInductive DEF DInv
  <2>9. /\ Answer' \in Seq(Bytes) /\ Len(Answer') = currentBuffer'
        /\ \A i \in 1 .. currentBuffer' : Answer'[i] = buf'[i - 1]
    <3>1. currentBuffer' \in Nat
      BY <2>8 DEF DInv, Memory
    <3>2. \A i \in 0 .. currentBuffer' - 1 : buf'[i] \in Bytes
      BY <2>8 DEF DInv, Memory
    <3>3. PICK n \in Nat : n = currentBuffer'
      BY <3>1
    <3>4. PICK b : b = buf'
      OBVIOUS
    <3>5. PICK a : a = Answer' /\ a = [i \in 1 .. n |-> b[i - 1]]
      BY <3>3, <3>4 DEF Answer
    <3>6. \A i \in 0 .. n - 1 : b[i] \in Bytes
      BY <3>2, <3>3, <3>4
    <3>7. a \in Seq(Bytes) /\ Len(a) = n /\ \A i \in 1 .. n : a[i] = b[i - 1]
      BY <3>5, <3>6, AsSequence
    <3> QED BY <3>3, <3>4, <3>5, <3>7
  <2>10. \A i \in 1 .. currentBuffer : Answer'[i] = Answer[i]
    <3>1. ASSUME NEW i \in 1 .. currentBuffer PROVE Answer'[i] = Answer[i]
      <4>1. /\ i - 1 \in DOMAIN buf /\ i - 1 \notin currentBuffer .. currentBuffer + ReadSize - 1
            /\ i \in 1 .. currentBuffer'
        BY <1>0, <2>1, <2>3 DEF Memory
      <4> QED BY <2>3, <2>7, <2>9, <4>1
    <3> QED BY <3>1
  <2>11. SubSeq(Answer', 1, Len(Answer)) = Answer
    <3>1. PICK s \in Seq(Bytes), t \in Seq(Bytes) : s = Answer /\ t = Answer'
      BY <2>7, <2>9
    <3>2. Len(s) <= Len(t) /\ \A i \in 1 .. Len(s) : t[i] = s[i]
      BY <2>1, <2>3, <2>7, <2>9, <2>10, <3>1
    <3>3. SubSeq(t, 1, Len(s)) = s
      BY <3>2
    <3> QED BY <3>1, <3>3
  <2>12. Len(Answer') \in Len(Answer) .. Request.size
    BY <2>1, <2>3, <2>4, <2>5, <2>7, <2>9
  <2>13. Spoilt \/ \A i \in Len(Answer) + 1 .. Len(Answer') :
                      Answer'[i] = ByteAt(Request.drive, Request.offset + i - 1)
    <3> SUFFICES ASSUME ~Spoilt, NEW i \in Len(Answer) + 1 .. Len(Answer')
                 PROVE  Answer'[i] = ByteAt(self, offset + i - 1)
      BY <2>5
    <3>1. i \in 1 .. currentBuffer' /\ i - 1 \in 0 .. currentBuffer' - 1
      BY <2>1, <2>3, <2>7, <2>9
    <3>2. buf'[i - 1] = ByteAt(self, offset + (i - 1))
      BY <2>1, <2>2, <2>8, <3>1 DEF DInv, Faithful
    <3>3. offset + (i - 1) = offset + i - 1
      BY <1>0, <2>2, <3>1, RequestIs
    <3> QED BY <2>9, <3>1, <3>2, <3>3
  <2>14. Disks!Deliver
    BY <2>2, <2>5, <2>6, <2>11, <2>12, <2>13 DEF Disks!Deliver
  <2> QED BY <2>14 DEF Disks!Next
<1>10. CASE UNCHANGED vars
  <2>1. UNCHANGED <<op, pc, self, offset, size, currentBuffer, buf, early, failed, present>>
    BY <1>10 DEF vars, machine, call, history
  <2> QED BY <2>1, Unanswered DEF Disks!diskVars, Reading, Spoilt
<1> QED
  BY <1>2, <1>3, <1>4, <1>5, <1>6, <1>7, <1>8, <1>9, <1>10 DEF Next, Driver, Disks!Next

\* read implements the abstract disk: on every machine and for every request
\* that ends inside 4 GB, the caller's buffer receives exactly the bytes asked
\* for, each in its place and none behind them, and as long as the drive is
\* there, shows BSY in time and reports no error, they are the disk's.
THEOREM Refinement == Spec => ImplementsDisk
<1>1. Init => Disks!Init
  <2> SUFFICES ASSUME Init PROVE Disks!Init
    OBVIOUS
  <2>1. ~Reading /\ currentBuffer = 0
    BY DEF Init, Reading
  <2>2. Answer = << >>
    BY <2>1 DEF Answer
  <2>3. Spoilt \in BOOLEAN
    BY DEF Spoilt
  <2> QED BY <2>1, <2>2, <2>3, NoRequest DEF Disks!Init
<1> QED BY <1>1, Implements, DataInvariant, PTL DEF Spec, ImplementsDisk, Disks!Spec
=============================================================================
