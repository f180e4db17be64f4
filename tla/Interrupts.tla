------------------------------ MODULE Interrupts ------------------------------
(***************************************************************************)
(* Interrupts from the device's line to iret: the constructor of           *)
(* InterruptManager programs the two 8259 controllers, init loads the      *)
(* descriptor table and executes sti, and from then on the stubs of        *)
(* interrupts.asm and handleInterrupt run between any two instructions of  *)
(* the kernel (Kernel/src/Hardware/IDT.cpp, interrupts.asm).               *)
(*                                                                         *)
(* The controllers, the lines and the processor's own part are external,   *)
(* modelled from what the code relies on: edge triggered lines, fixed      *)
(* priorities, the slave on a line of the master, and a spurious vector    *)
(* when a line falls before it is acknowledged.                            *)
(***************************************************************************)
EXTENDS Integers, Sequences, SequencesExt, FiniteSets, FiniteSetsExt

CONSTANTS
  PerPic,      \* lines of one controller (8); lines are numbered as on the PC
  Cascade,     \* the master's line the slave is on (2)
  Exceptions,  \* vectors the processor keeps for itself (32)
  BiosOffset,  \* where the BIOS left the vectors of both controllers
  MaxNmis      \* bound: non-maskable interrupts

Master == 0 .. PerPic - 1
Slave == PerPic .. 2 * PerPic - 1
LinesOf == [master |-> Master, slave |-> Slave]
DeviceLines == (Master \cup Slave) \ {Cascade}

HARDWARE_INTERRUPT_OFFSET == Exceptions
NMI == 2
PageFault == 14

ASSUME WiringAssumption ==
  /\ PerPic \in Nat /\ Cascade \in 0 .. PerPic - 2
  /\ Exceptions \in Nat /\ PageFault < Exceptions
  /\ BiosOffset \in Nat /\ MaxNmis \in Nat

VARIABLES
  pc,             \* the main program: a write of the constructor, "idt", "sti", "run"
  written,        \* how many writes the constructor has done
  pic,            \* [expects, offset, icw3, mask] of either controller
  level,          \* the lines the devices hold high
  irr, isr,       \* lines requested and lines in service; Cascade can be in isr
  inta,           \* the processor's acknowledge cycle: "none", "first", "second" pulse
  stack,          \* the stubs running, innermost last: [vector, at, flag]
  interruptFlag,  \* IF
  shadow,         \* whether the last instruction was sti
  nmis            \* [blocked, count]

cpu == <<inta, stack, interruptFlag, shadow, nmis>>
vars == <<pc, written, pic, level, irr, isr, cpu>>

-----------------------------------------------------------------------------
\* The controllers (external).  A line is presented if nothing of its own or a
\* higher priority is in service there.
Presented(p, lines) == {l \in lines \ pic[p].mask : \A s \in isr \cap LinesOf[p] : l < s}
SlaveRequests == Presented("slave", irr \cap Slave)
MasterRequests ==
  Presented("master", (irr \cap Master) \cup {l \in {Cascade} : SlaveRequests # {}})

\* The board is wired as ICW3 must tell both controllers.
SlaveAnswers == pic.master.icw3 = 2^Cascade /\ pic.slave.icw3 = Cascade

\* A non-specific end of interrupt ends the highest line in service.
EndOfInterrupt(p) ==
  LET mine == isr \cap LinesOf[p] IN isr' = IF mine = {} THEN isr ELSE isr \ {Min(mine)}

\* A write of a command byte, ICW1 here, and of a data byte.
MaskOf(p, value) == {l \in LinesOf[p] : (value \div 2^(l % PerPic)) % 2 = 1}
Following == [icw2 |-> "icw3", icw3 |-> "icw4", icw4 |-> "mask", mask |-> "mask"]
Programmed(p, port, value) ==
  LET Takes(word) == port = "data" /\ pic[p].expects = word
  IN  [expects |-> IF port = "command" THEN "icw2" ELSE Following[pic[p].expects],
       offset |-> IF Takes("icw2") THEN value ELSE pic[p].offset,
       icw3 |-> IF Takes("icw3") THEN value ELSE pic[p].icw3,
       mask |-> IF port = "command" THEN {} ELSE IF Takes("mask") THEN MaskOf(p, value) ELSE pic[p].mask]

-----------------------------------------------------------------------------
\* The constructor's writes, with the two offsets swapped and as they are.
WritesWith(masterOffset, slaveOffset) ==
  << <<"master", "command", 17>>, <<"slave", "command", 17>>,
     <<"master", "data", masterOffset>>, <<"slave", "data", slaveOffset>>,
     <<"master", "data", 2^Cascade>>, <<"slave", "data", Cascade>>,
     <<"master", "data", 1>>, <<"slave", "data", 1>>,
     <<"master", "data", 0>>, <<"slave", "data", 0>> >>

WritesSwapped == WritesWith(HARDWARE_INTERRUPT_OFFSET + PerPic, HARDWARE_INTERRUPT_OFFSET)

Writes == WritesWith(HARDWARE_INTERRUPT_OFFSET, HARDWARE_INTERRUPT_OFFSET + PerPic)

Init ==
  /\ pc = "pic" /\ written = 0
  /\ \E masked \in SUBSET {"master", "slave"} :
       pic = [p \in {"master", "slave"} |->
                [expects |-> "mask", offset |-> BiosOffset, icw3 |-> 0,
                 mask |-> IF p \in masked THEN LinesOf[p] ELSE {}]]
  /\ level = {} /\ irr = {} /\ isr = {}
  /\ inta = "none" /\ stack = <<>> /\ interruptFlag = FALSE /\ shadow = FALSE
  /\ nmis = [blocked |-> FALSE, count |-> 0]

WritePort ==
  LET write == Writes[written + 1]
      p == write[1]
  IN  /\ pc = "pic"
      /\ pic' = [pic EXCEPT ![p] = Programmed(p, write[2], write[3])]
      \* ICW1 resets the controller's edge latches
      /\ irr' = IF write[2] = "command" THEN irr \ LinesOf[p] ELSE irr
      /\ written' = written + 1
      /\ pc' = IF written' = Len(Writes) THEN "idt" ELSE pc
      /\ UNCHANGED <<level, isr, cpu>>

\* InterruptManager::init: the descriptor table, then sti.
LoadTable ==
  /\ pc = "idt"
  /\ pc' = "sti"
  /\ UNCHANGED <<written, pic, level, irr, isr, cpu>>

EnableInterrupts ==
  /\ pc = "sti"
  /\ pc' = "run"
  /\ interruptFlag' = TRUE
  /\ shadow' = TRUE
  /\ UNCHANGED <<written, pic, level, irr, isr, inta, stack, nmis>>

-----------------------------------------------------------------------------
\* Devices (external): an edge requests, and a request falls with its line.
Raise(l) ==
  /\ l \notin level
  /\ level' = level \cup {l}
  /\ irr' = irr \cup {l}
  /\ UNCHANGED <<pc, written, pic, isr, cpu>>

Drop(l) ==
  /\ l \in level
  /\ level' = level \ {l}
  /\ irr' = irr \ {l}
  /\ UNCHANGED <<pc, written, pic, isr, cpu>>

-----------------------------------------------------------------------------
\* What setEntry's flags make of IF in the stub: a trap gate (0x8F) and the
\* interrupt gate (0x8E) of the code.
TrapGate == interruptFlag
Gate == FALSE

\* The processor pushes the flags and enters the stub of the vector.
Enter(vector) ==
  /\ stack' = Append(stack, [vector |-> vector, at |-> "eoi", flag |-> interruptFlag])
  /\ interruptFlag' = Gate
  /\ shadow' = FALSE

\* The processor sees a request and asks the master for it, then the slave.
\* Between the pulses lines move, and what is gone answers as the last line.
Notice ==
  /\ interruptFlag /\ ~shadow /\ inta = "none"
  /\ MasterRequests # {}
  /\ inta' = "first"
  /\ UNCHANGED <<pc, written, pic, level, irr, isr, stack, interruptFlag, shadow, nmis>>

Acknowledge(p, requests) ==
  /\ isr' = IF requests = {} THEN isr ELSE isr \cup {Min(requests)}
  /\ irr' = IF requests = {} THEN irr ELSE irr \ {Min(requests)}
  /\ IF requests # {} /\ Min(requests) = Cascade /\ SlaveAnswers
     THEN inta' = "second" /\ UNCHANGED <<stack, interruptFlag, shadow>>
     ELSE /\ Enter(pic[p].offset + (IF requests = {} THEN PerPic - 1 ELSE Min(requests) % PerPic))
          /\ inta' = "none"
  /\ UNCHANGED <<pc, written, pic, level, nmis>>

FirstPulse == inta = "first" /\ Acknowledge("master", MasterRequests)
SecondPulse == inta = "second" /\ Acknowledge("slave", SlaveRequests)

\* A non-maskable interrupt between any two instructions once there is a table.
NonMaskable ==
  /\ pc \in {"sti", "run"} /\ inta = "none"
  /\ ~nmis.blocked /\ nmis.count < MaxNmis
  /\ Enter(NMI)
  /\ nmis' = [blocked |-> TRUE, count |-> nmis.count + 1]
  /\ UNCHANGED <<pc, written, pic, level, irr, isr, inta>>

\* An instruction of the main program faults; its stub returns to it.  What is
\* executed between the loading of the table and sti does not fault.
Fault ==
  /\ pc = "run" /\ inta = "none" /\ stack = <<>>
  /\ Enter(PageFault)
  /\ UNCHANGED <<pc, written, pic, level, irr, isr, inta, nmis>>

-----------------------------------------------------------------------------
Running(at) == inta = "none" /\ stack # <<>> /\ Last(stack).at = at
GoTo(at) == stack' = [stack EXCEPT ![Len(stack)].at = at]

\* registers.interrupt >= 40, one vector too late and as it is.
OfSlaveLate(vector) == vector > HARDWARE_INTERRUPT_OFFSET + PerPic

OfSlave(vector) == vector >= HARDWARE_INTERRUPT_OFFSET + PerPic

\* handleInterrupt: an end of interrupt to the master whatever the vector, and
\* to the slave.
HandleInterrupt ==
  /\ Running("eoi")
  /\ EndOfInterrupt("master")
  /\ GoTo(IF OfSlave(Last(stack).vector) THEN "slave" ELSE "sti")
  /\ UNCHANGED <<pc, written, pic, level, irr, inta, interruptFlag, shadow, nmis>>

HandleInterruptSlave ==
  /\ Running("slave")
  /\ EndOfInterrupt("slave")
  /\ GoTo("sti")
  /\ UNCHANGED <<pc, written, pic, level, irr, inta, interruptFlag, shadow, nmis>>

\* The end of the stubs: sti, which lets no interrupt in before the next
\* instruction is over, and iret, which ends the blocking of NMIs as well.
StubSti ==
  /\ Running("sti")
  /\ GoTo("iret")
  /\ interruptFlag' = TRUE
  /\ shadow' = TRUE
  /\ UNCHANGED <<pc, written, pic, level, irr, isr, inta, nmis>>

\* The flags iret leaves, those of sti and, as it is, those that were pushed.
FlagsOfSti == interruptFlag
FlagsPushed == Last(stack).flag

StubIret ==
  /\ Running("iret")
  /\ stack' = Front(stack)
  /\ interruptFlag' = FlagsPushed
  /\ shadow' = FALSE
  /\ nmis' = [nmis EXCEPT !.blocked = FALSE]
  /\ UNCHANGED <<pc, written, pic, level, irr, isr, inta>>

\* The instruction after the first sti.
MainStep ==
  /\ pc = "run" /\ stack = <<>> /\ shadow /\ inta = "none"
  /\ shadow' = FALSE
  /\ UNCHANGED <<pc, written, pic, level, irr, isr, inta, stack, interruptFlag, nmis>>

Stub == HandleInterrupt \/ HandleInterruptSlave \/ StubSti \/ StubIret
Program == WritePort \/ ((LoadTable \/ EnableInterrupts) /\ stack = <<>>) \/ MainStep

Next ==
  \/ Program \/ Stub
  \/ Notice \/ FirstPulse \/ SecondPulse \/ NonMaskable \/ Fault
  \/ \E l \in DeviceLines : Raise(l) \/ Drop(l)

\* The processor executes instructions, completes a cycle it began, and looks
\* at its interrupt pin between any two instructions while IF is set.
Spec ==
  /\ Init /\ [][Next]_vars
  /\ WF_vars(Program) /\ WF_vars(Stub) /\ WF_vars(FirstPulse \/ SecondPulse)
  /\ SF_vars(Notice)

-----------------------------------------------------------------------------
Line(f) == f.vector - HARDWARE_INTERRUPT_OFFSET

TypeOK ==
  /\ pc \in {"pic", "idt", "sti", "run"} /\ written \in 0 .. Len(Writes)
  /\ pic \in [{"master", "slave"} ->
       [expects : {"icw2", "icw3", "icw4", "mask"}, offset : Nat, icw3 : {0, 2^Cascade, Cascade},
        mask : SUBSET (Master \cup Slave)]]
  /\ level \subseteq DeviceLines /\ irr \subseteq level
  /\ isr \subseteq Master \cup Slave
  /\ inta \in {"none", "first", "second"}
  /\ \A i \in DOMAIN stack :
       /\ stack[i].vector \in {NMI, PageFault} \cup {HARDWARE_INTERRUPT_OFFSET + l : l \in DeviceLines}
       /\ stack[i].at \in {"eoi", "slave", "sti", "iret"} /\ stack[i].flag \in BOOLEAN
  /\ interruptFlag \in BOOLEAN /\ shadow \in BOOLEAN
  /\ nmis \in [blocked : BOOLEAN, count : 0 .. MaxNmis]

\* Whatever is in service has a stub of its own on the stack that will still
\* end it, so no line is left in service for good; spurious interrupts, NMIs
\* and faults, which send an end of interrupt too, change nothing about it.
InServiceIsHandled ==
  \A l \in isr :
    \/ l = Cascade /\ inta = "second"
    \/ \E i \in DOMAIN stack :
         \/ Line(stack[i]) = l /\ stack[i].at \in {"eoi"} \cup {a \in {"slave"} : l \in Slave}
         \/ l = Cascade /\ Line(stack[i]) \in Slave /\ stack[i].at = "eoi"

\* An end of interrupt that a device's stub sends takes its own line out of
\* service and never another's: IF is clear until both have been sent.
EndsOnlyItsOwn ==
  [][\A l \in isr \ isr' :
       LET mine == Line(Last(stack))
       IN  Last(stack).vector # NMI => mine = l \/ (l = Cascade /\ mine \in Slave)]_vars

\* A stub is interrupted by NMIs only, until nothing but its iret is left: two
\* devices' stubs are never both between entry and end of interrupt.
StubsDoNotNest ==
  \A i \in 2 .. Len(stack) : stack[i].vector # NMI => stack[i - 1].at = "iret"

\* Priorities are fixed, so a line is promised service only while those above
\* it are quiet; then no request waits for ever, slave's or master's.
Rank(l) == IF l \in Slave THEN 2 * PerPic * Cascade + l ELSE 2 * PerPic * l
Quiet(l) == \A other \in irr : Rank(other) >= Rank(l)
EveryoneServed == \A l \in DeviceLines : <>[]Quiet(l) => []<>(l \notin irr)
=============================================================================
