---------------------------- MODULE InterruptsProofs ----------------------------
(***************************************************************************)
(* Proofs about the interrupt path, for controllers of any size, any       *)
(* number of NMIs and every order of the devices' edges.                   *)
(***************************************************************************)
EXTENDS Interrupts, WellFoundedInduction, SequenceTheorems, TLAPS

Controllers == {"master", "slave"}
Registers ==
  [expects : {"icw2", "icw3", "icw4", "mask"}, offset : Nat, icw3 : {0, 2^Cascade, Cascade},
   mask : SUBSET (Master \cup Slave)]
Vectors == {NMI, PageFault} \cup {HARDWARE_INTERRUPT_OFFSET + l : l \in DeviceLines}
Frames == [vector : Vectors, at : {"eoi", "slave", "sti", "iret"}, flag : BOOLEAN]

Types ==
  /\ pc \in {"pic", "idt", "sti", "run"} /\ written \in 0 .. 10
  /\ pic \in [Controllers -> Registers]
  /\ level \subseteq DeviceLines /\ irr \subseteq level
  /\ isr \subseteq Master \cup Slave
  /\ inta \in {"none", "first", "second"}
  /\ stack \in Seq(Frames)
  /\ interruptFlag \in BOOLEAN /\ shadow \in BOOLEAN
  /\ nmis \in [blocked : BOOLEAN, count : 0 .. MaxNmis]

\* What a controller holds after the first `count' of its five writes.
Stage(registers, count, offset, icw3) ==
  /\ count = 1 => registers.expects = "icw2"
  /\ count = 2 => registers.expects = "icw3"
  /\ count = 3 => registers.expects = "icw4"
  /\ count >= 4 => registers.expects = "mask"
  /\ count >= 2 => registers.offset = offset
  /\ count >= 3 => registers.icw3 = icw3

\* The constructor writes to the master first and to either in turn; nothing
\* else happens until it is done and the table is loaded, and nothing but an
\* NMI until sti.
Programming ==
  /\ Stage(pic.master, (written + 1) \div 2, HARDWARE_INTERRUPT_OFFSET, 2^Cascade)
  /\ Stage(pic.slave, written \div 2, HARDWARE_INTERRUPT_OFFSET + PerPic, Cascade)
  /\ pc # "pic" => written = 10
  /\ pc = "pic" => written < 10
  /\ pc \in {"pic", "idt"} => stack = <<>> /\ ~interruptFlag
  /\ pc = "sti" =>
       /\ inta = "none" /\ (stack = <<>> => ~interruptFlag)
       /\ \A i \in DOMAIN stack : stack[i].vector = NMI /\ ~stack[i].flag

\* Only an NMI's stub, which is the innermost one then, runs above one that has
\* more to do than its iret.  Until that the innermost stub keeps IF clear, and
\* what it has pushed says so of the stub below.
Nesting ==
  /\ \A i \in DOMAIN stack : i > 1 /\ stack[i].vector # NMI => stack[i - 1].at = "iret"
  /\ \A i \in DOMAIN stack : stack[i].vector = NMI =>
       /\ i = Len(stack) /\ nmis.blocked
       /\ stack[i].at = "iret" => shadow
  /\ stack # <<>> /\ interruptFlag => Last(stack).at = "iret"
  /\ \A i \in DOMAIN stack : i > 1 /\ stack[i].flag => stack[i - 1].at = "iret"
  /\ \A i \in DOMAIN stack : stack[i].at = "slave" => Line(stack[i]) \in Slave
  /\ inta # "none" => interruptFlag /\ ~shadow

\* A stub that will still end the line.
Ends(f, l) ==
  \/ Line(f) = l /\ f.at \in {"eoi"} \cup {a \in {"slave"} : l \in Slave}
  \/ l = Cascade /\ Line(f) \in Slave /\ f.at = "eoi"

IInv == Types /\ Programming /\ Nesting /\ InServiceIsHandled

-----------------------------------------------------------------------------
\* Every set of naturals that is not empty has a least element, and Min is it.
LEMMA MinIsLeast ==
  ASSUME NEW T \in SUBSET Nat, T # {}
  PROVE  Min(T) \in T /\ \A y \in T : Min(T) <= y
<1> DEFINE R == OpToRel(<, Nat)
<1>1. PICK x \in T : \A y \in T : ~ (<<y, x>> \in R)
  <2> HIDE DEF R
  <2>1. IsWellFoundedOn(R, Nat)
    BY NatLessThanWellFounded DEF R
  <2> QED BY <2>1, WFMin
<1>2. ASSUME NEW y \in T PROVE x <= y
  <2>1. ~(y < x)
    BY <1>1 DEF OpToRel
  <2> QED BY <2>1
<1> QED BY <1>2 DEF Min

\* The lines of the two controllers, and what a device's line is.
LEMMA Lines ==
  /\ Master \subseteq Nat /\ Slave \subseteq Nat /\ Master \cap Slave = {}
  /\ PerPic \in Nat /\ Cascade \in Nat /\ Cascade \in Master /\ Cascade # PerPic - 1
  /\ PerPic - 1 \in DeviceLines \cap Master /\ 2 * PerPic - 1 \in DeviceLines \cap Slave
  /\ DeviceLines \subseteq Nat /\ Cascade \notin DeviceLines
  /\ LinesOf.master = Master /\ LinesOf.slave = Slave
BY WiringAssumption DEF Master, Slave, DeviceLines, LinesOf

\* A vector belongs to one line at most: NMI and faults have none.
LEMMA VectorLines ==
  /\ \A l \in DeviceLines : HARDWARE_INTERRUPT_OFFSET + l \in Vectors
  /\ \A f \in Frames :
       /\ f.vector \in {NMI, PageFault} => Line(f) \notin Master \cup Slave /\ ~OfSlave(f.vector)
       /\ f.vector \notin {NMI, PageFault} => Line(f) \in DeviceLines
       /\ OfSlave(f.vector) <=> Line(f) \in Slave
BY Lines, WiringAssumption DEF Vectors, Frames, Line, OfSlave, HARDWARE_INTERRUPT_OFFSET, NMI, PageFault,
   DeviceLines, Master, Slave

\* A device's vector gives its line back.
LEMMA VectorOf ==
  ASSUME NEW l \in DeviceLines
  PROVE  LET vector == HARDWARE_INTERRUPT_OFFSET + l
         IN  vector \in Vectors /\ vector # NMI /\ Line([vector |-> vector]) = l
<1>1. l \in Nat /\ Exceptions \in Nat /\ 14 < Exceptions
  BY Lines, WiringAssumption DEF PageFault
<1>2. HARDWARE_INTERRUPT_OFFSET + l # NMI /\ HARDWARE_INTERRUPT_OFFSET + l - HARDWARE_INTERRUPT_OFFSET = l
  BY <1>1 DEF HARDWARE_INTERRUPT_OFFSET, NMI
<1>3. HARDWARE_INTERRUPT_OFFSET + l \in Vectors
  BY VectorLines
<1>4. Line([vector |-> HARDWARE_INTERRUPT_OFFSET + l]) = l
  BY <1>1 DEF Line, HARDWARE_INTERRUPT_OFFSET
<1> QED BY <1>2, <1>3, <1>4

\* The constructor's writes.
LEMMA WritesAre ==
  /\ Len(Writes) = 10
  /\ Writes[1] = <<"master", "command", 17>> /\ Writes[2] = <<"slave", "command", 17>>
  /\ Writes[3] = <<"master", "data", HARDWARE_INTERRUPT_OFFSET>>
  /\ Writes[4] = <<"slave", "data", HARDWARE_INTERRUPT_OFFSET + PerPic>>
  /\ Writes[5] = <<"master", "data", 2^Cascade>> /\ Writes[6] = <<"slave", "data", Cascade>>
  /\ Writes[7] = <<"master", "data", 1>> /\ Writes[8] = <<"slave", "data", 1>>
  /\ Writes[9] = <<"master", "data", 0>> /\ Writes[10] = <<"slave", "data", 0>>
BY DEF Writes, WritesWith

\* Frames are entered and left at the top.
LEMMA EnteredStack ==
  ASSUME Types, NEW vector \in Vectors, Enter(vector)
  PROVE  /\ stack' \in Seq(Frames) /\ Len(stack') = Len(stack) + 1
         /\ DOMAIN stack = 1 .. Len(stack) /\ DOMAIN stack' = 1 .. Len(stack) + 1
         /\ \A i \in DOMAIN stack : stack'[i] = stack[i]
         /\ stack'[Len(stack')] = [vector |-> vector, at |-> "eoi", flag |-> interruptFlag]
         /\ Last(stack') = stack'[Len(stack')]
         /\ ~interruptFlag' /\ ~shadow'
         /\ interruptFlag' \in BOOLEAN /\ shadow' \in BOOLEAN
<1>1. interruptFlag' \in BOOLEAN /\ shadow' \in BOOLEAN
  BY Zenon DEF Enter, Gate
<1> QED BY <1>1 DEF Types, Enter, Gate, Frames, Last

LEMMA Advanced ==
  ASSUME NEW f \in Frames, NEW at \in {"eoi", "slave", "sti", "iret"}
  PROVE  LET g == [f EXCEPT !.at = at]
         IN  g \in Frames /\ g.vector = f.vector /\ g.flag = f.flag /\ g.at = at
BY DEF Frames

LEMMA AdvancedStack ==
  ASSUME Types, stack # <<>>, NEW at \in {"eoi", "slave", "sti", "iret"}, GoTo(at)
  PROVE  /\ stack' \in Seq(Frames) /\ Len(stack') = Len(stack)
         /\ DOMAIN stack = 1 .. Len(stack) /\ DOMAIN stack' = 1 .. Len(stack)
         /\ Len(stack) \in DOMAIN stack
         /\ \A i \in DOMAIN stack : i # Len(stack) => stack'[i] = stack[i]
         /\ \A i \in DOMAIN stack : stack'[i].vector = stack[i].vector /\ stack'[i].flag = stack[i].flag
         /\ stack'[Len(stack)].at = at
         /\ Last(stack) = stack[Len(stack)] /\ Last(stack') = stack'[Len(stack)]
<1> DEFINE n == Len(stack)
<1>1. stack \in Seq(Frames) /\ n \in DOMAIN stack /\ DOMAIN stack = 1 .. n /\ stack[n] \in Frames
  BY DEF Types
<1>2. PICK g : g = [stack[n] EXCEPT !.at = at]
  OBVIOUS
<1>3. g \in Frames /\ g.vector = stack[n].vector /\ g.flag = stack[n].flag /\ g.at = at
  BY <1>1, <1>2, Advanced
<1>4. stack' = [stack EXCEPT ![n] = g]
  <2>1. stack' = [stack EXCEPT ![n].at = at]
    BY DEF GoTo
  <2> HIDE DEF n
  <2> QED BY <1>2, <2>1, Zenon
<1>5. /\ stack' \in Seq(Frames) /\ Len(stack') = n /\ DOMAIN stack' = 1 .. n
      /\ \A i \in DOMAIN stack : i # n => stack'[i] = stack[i]
      /\ stack'[n] = g
  <2> HIDE DEF n
  <2>1. Len(stack) = n
    BY DEF n
  <2> QED BY <1>1, <1>3, <1>4, <2>1
<1> QED BY <1>1, <1>3, <1>5 DEF Last

\* What a controller presents is requested, or is the line the slave is on.
LEMMA Requests ==
  /\ SlaveRequests \subseteq irr \cap Slave
  /\ MasterRequests \subseteq (irr \cap Master) \cup {Cascade}
BY DEF SlaveRequests, MasterRequests, Presented

-----------------------------------------------------------------------------
(***************************************************************************)
(* The constructor.                                                        *)
(***************************************************************************)
LEMMA Initially == Init => IInv
<1> SUFFICES ASSUME Init PROVE IInv
  OBVIOUS
<1>1. Types
  <2>1. pic \in [Controllers -> Registers]
    <3>1. PICK masked \in SUBSET Controllers :
            pic = [p \in Controllers |->
                     [expects |-> "mask", offset |-> BiosOffset, icw3 |-> 0,
                      mask |-> IF p \in masked THEN LinesOf[p] ELSE {}]]
      BY DEF Init, Controllers
    <3>2. ASSUME NEW p \in Controllers
          PROVE  [expects |-> "mask", offset |-> BiosOffset, icw3 |-> 0,
                  mask |-> IF p \in masked THEN LinesOf[p] ELSE {}] \in Registers
      <4>1. (IF p \in masked THEN LinesOf[p] ELSE {}) \in SUBSET (Master \cup Slave)
        BY DEF Controllers, LinesOf
      <4> QED BY <4>1, WiringAssumption DEF Registers
    <3> QED BY <3>1, <3>2
  <2>2. /\ pc = "pic" /\ written = 0 /\ level = {} /\ irr = {} /\ isr = {} /\ inta = "none"
        /\ stack = <<>> /\ interruptFlag = FALSE /\ shadow = FALSE
        /\ nmis = [blocked |-> FALSE, count |-> 0]
    BY DEF Init
  <2>3. stack \in Seq(Frames)
    BY <2>2
  <2>4. nmis \in [blocked : BOOLEAN, count : 0 .. MaxNmis]
    BY <2>2, WiringAssumption
  <2>5. /\ pc \in {"pic", "idt", "sti", "run"} /\ written \in 0 .. 10
        /\ level \subseteq DeviceLines /\ irr \subseteq level /\ isr \subseteq Master \cup Slave
        /\ inta \in {"none", "first", "second"}
    BY <2>2
  <2>6. interruptFlag \in BOOLEAN /\ shadow \in BOOLEAN
    BY <2>2, Zenon
  <2> QED BY <2>1, <2>3, <2>4, <2>5, <2>6, Zenon DEF Types
<1>2. Programming /\ Nesting /\ InServiceIsHandled
  BY DEF Init, Programming, Nesting, InServiceIsHandled, Stage
<1> QED BY <1>1, <1>2 DEF IInv

\* A command byte starts the initialization; the data bytes that follow are
\* the offset, ICW3 and ICW4, and whatever comes later is a mask.
LEMMA ProgrammedIs ==
  ASSUME NEW p \in Controllers, pic[p] \in Registers, NEW port \in {"command", "data"}, NEW value,
         port = "data" /\ pic[p].expects = "icw2" => value \in Nat,
         port = "data" /\ pic[p].expects = "icw3" => value \in {2^Cascade, Cascade}
  PROVE  LET new == Programmed(p, port, value)
             old == pic[p]
         IN  /\ new \in Registers
             /\ port = "command" => new.expects = "icw2"
             /\ port = "data" => new.expects = Following[old.expects]
             /\ port = "data" /\ old.expects = "icw2" => new.offset = value
             /\ ~(port = "data" /\ old.expects = "icw2") => new.offset = old.offset
             /\ port = "data" /\ old.expects = "icw3" => new.icw3 = value
             /\ ~(port = "data" /\ old.expects = "icw3") => new.icw3 = old.icw3
<1>1. MaskOf(p, value) \subseteq Master \cup Slave
  BY DEF MaskOf, LinesOf, Controllers
<1> HIDE DEF MaskOf
<1> QED BY <1>1 DEF Programmed, Registers, Following

LEMMA WritePortInductive == IInv /\ WritePort => IInv'
<1> SUFFICES ASSUME IInv, WritePort PROVE IInv'
  OBVIOUS
<1> DEFINE write == Writes[written + 1]
           p == write[1]
           new == Programmed(p, write[2], write[3])
<1>1. /\ pc = "pic" /\ written \in 0 .. 9 /\ written' = written + 1
      /\ pc' = IF written' = 10 THEN "idt" ELSE pc
      /\ pic' = [pic EXCEPT ![p] = new]
      /\ irr' \subseteq irr
      /\ UNCHANGED <<level, isr, inta, stack, interruptFlag, shadow, nmis>>
  BY WritesAre DEF IInv, Types, Programming, WritePort, cpu
<1>2. pic \in [Controllers -> Registers] /\ pic.master \in Registers /\ pic.slave \in Registers
  BY DEF IInv, Types, Controllers
<1>3. /\ p = IF written % 2 = 0 THEN "master" ELSE "slave"
      /\ write[2] = IF written \in {0, 1} THEN "command" ELSE "data"
      /\ written = 2 => write[3] = HARDWARE_INTERRUPT_OFFSET
      /\ written = 3 => write[3] = HARDWARE_INTERRUPT_OFFSET + PerPic
      /\ written = 4 => write[3] = 2^Cascade
      /\ written = 5 => write[3] = Cascade
  <2>1. \/ written = 0 \/ written = 1 \/ written = 2 \/ written = 3 \/ written = 4
        \/ written = 5 \/ written = 6 \/ written = 7 \/ written = 8 \/ written = 9
    BY <1>1
  <2> QED BY <2>1, WritesAre
<1>4. /\ Stage(pic.master, (written + 1) \div 2, HARDWARE_INTERRUPT_OFFSET, 2^Cascade)
      /\ Stage(pic.slave, written \div 2, HARDWARE_INTERRUPT_OFFSET + PerPic, Cascade)
  BY DEF IInv, Programming
<1> HIDE DEF write
<1>5. /\ p \in Controllers
      /\ write[2] \in {"command", "data"}
      /\ write[2] = "data" /\ pic[p].expects = "icw2" => write[3] \in Nat
      /\ write[2] = "data" /\ pic[p].expects = "icw3" => write[3] \in {2^Cascade, Cascade}
  <2>1. CASE written % 2 = 0
    BY <1>1, <1>2, <1>3, <1>4, <2>1, WiringAssumption DEF Controllers, Stage, HARDWARE_INTERRUPT_OFFSET
  <2>2. CASE written % 2 = 1
    BY <1>1, <1>2, <1>3, <1>4, <2>2, WiringAssumption DEF Controllers, Stage, HARDWARE_INTERRUPT_OFFSET
  <2> QED BY <1>1, <2>1, <2>2
<1>6. /\ new \in Registers
      /\ write[2] = "command" => new.expects = "icw2"
      /\ write[2] = "data" => new.expects = Following[pic[p].expects]
      /\ write[2] = "data" /\ pic[p].expects = "icw2" => new.offset = write[3]
      /\ ~(write[2] = "data" /\ pic[p].expects = "icw2") => new.offset = pic[p].offset
      /\ write[2] = "data" /\ pic[p].expects = "icw3" => new.icw3 = write[3]
      /\ ~(write[2] = "data" /\ pic[p].expects = "icw3") => new.icw3 = pic[p].icw3
  <2> HIDE DEF p
  <2> QED BY <1>2, <1>5, ProgrammedIs
<1> HIDE DEF p, new
<1>7. Types'
  <2>1. pic' \in [Controllers -> Registers]
    BY <1>1, <1>2, <1>5, <1>6
  <2> QED BY <1>1, <2>1 DEF IInv, Types
<1>8. /\ Stage(pic.master, (written + 1) \div 2, HARDWARE_INTERRUPT_OFFSET, 2^Cascade)'
      /\ Stage(pic.slave, written \div 2, HARDWARE_INTERRUPT_OFFSET + PerPic, Cascade)'
  <2>1. CASE written % 2 = 0
    <3>1. p = "master" /\ pic'.slave = pic.slave /\ pic'.master = new
      BY <1>1, <1>2, <1>3, <2>1 DEF Controllers
    <3>2. Stage(pic.slave, written \div 2, HARDWARE_INTERRUPT_OFFSET + PerPic, Cascade)'
      BY <1>1, <1>4, <2>1, <3>1 DEF Stage
    <3>3. Stage(new, (written + 2) \div 2, HARDWARE_INTERRUPT_OFFSET, 2^Cascade)
      BY <1>1, <1>2, <1>3, <1>4, <1>6, <2>1, <3>1 DEF Stage, Following, Registers
    <3> QED BY <1>1, <3>1, <3>2, <3>3 DEF Stage
  <2>2. CASE written % 2 = 1
    <3>1. p = "slave" /\ pic'.master = pic.master /\ pic'.slave = new
      BY <1>1, <1>2, <1>3, <2>2 DEF Controllers
    <3>2. Stage(pic.master, (written + 1) \div 2, HARDWARE_INTERRUPT_OFFSET, 2^Cascade)'
      BY <1>1, <1>4, <2>2, <3>1 DEF Stage
    <3>3. Stage(new, (written + 1) \div 2, HARDWARE_INTERRUPT_OFFSET + PerPic, Cascade)
      BY <1>1, <1>2, <1>3, <1>4, <1>6, <2>2, <3>1 DEF Stage, Following, Registers
    <3> QED BY <1>1, <3>1, <3>2, <3>3 DEF Stage
  <2> QED BY <1>1, <2>1, <2>2
<1>9. Programming'
  BY <1>1, <1>8 DEF IInv, Programming
<1>10. Nesting' /\ InServiceIsHandled'
  BY <1>1 DEF IInv, Nesting, InServiceIsHandled, Line
<1> QED BY <1>7, <1>9, <1>10 DEF IInv

-----------------------------------------------------------------------------
(***************************************************************************)
(* Entering a stub.                                                        *)
(***************************************************************************)
\* A device's stub and a fault's enter above nothing, or above a stub that has
\* only its iret left; an NMI's enters anywhere when there is none.
LEMMA EnteringNests ==
  ASSUME IInv, NEW vector \in Vectors, Enter(vector), inta' = "none",
         UNCHANGED <<pc, written, pic>>, pc \in {"sti", "run"},
         pc = "sti" => vector = NMI /\ stack = <<>>,
         \/ vector = NMI /\ ~nmis.blocked /\ nmis'.blocked
         \/ /\ vector # NMI /\ nmis' = nmis
            /\ stack # <<>> => Last(stack).at = "iret" /\ Last(stack).vector # NMI
  PROVE  Programming' /\ Nesting'
<1> DEFINE n == Len(stack)
<1>1. /\ n \in Nat /\ DOMAIN stack = 1 .. n /\ Last(stack) = stack[n]
      /\ stack = <<>> <=> n = 0
      /\ \A i \in DOMAIN stack : stack[i] \in Frames
  BY DEF IInv, Types, Last
<1>2. /\ Len(stack') = n + 1 /\ DOMAIN stack' = 1 .. n + 1 /\ Last(stack') = stack'[n + 1]
      /\ \A i \in 1 .. n : stack'[i] = stack[i]
      /\ stack'[n + 1].vector = vector /\ stack'[n + 1].at = "eoi"
      /\ stack'[n + 1].flag = interruptFlag
      /\ ~interruptFlag' /\ ~shadow'
  <2>1. Types
    BY DEF IInv
  <2>2. /\ Len(stack') = Len(stack) + 1
        /\ DOMAIN stack = 1 .. Len(stack) /\ DOMAIN stack' = 1 .. Len(stack) + 1
        /\ \A i \in DOMAIN stack : stack'[i] = stack[i]
        /\ stack'[Len(stack')] = [vector |-> vector, at |-> "eoi", flag |-> interruptFlag]
        /\ Last(stack') = stack'[Len(stack')]
        /\ ~interruptFlag' /\ ~shadow'
    BY <2>1, EnteredStack
  <2> QED BY <2>2
<1> HIDE DEF n
<1>3. Programming'
  BY <1>1, <1>2 DEF IInv, Programming
<1>4. Nesting'
  <2>1. \A i \in 1 .. n : vector # NMI => stack[i].vector # NMI
    BY <1>1 DEF IInv, Nesting, n
  <2>2. \A i \in 1 .. n : vector = NMI => stack[i].vector # NMI
    BY <1>1 DEF IInv, Nesting, n
  <2> QED BY <1>1, <1>2, <2>1, <2>2 DEF IInv, Nesting, n
<1> QED BY <1>3, <1>4

\* The stubs that are running keep what they will end.
LEMMA EnteringKeeps ==
  ASSUME IInv, NEW vector \in Vectors, Enter(vector)
  PROVE  /\ \A l \in isr : inta # "second" \/ l # Cascade => \E i \in DOMAIN stack' : Ends(stack'[i], l)
         /\ \A l : Line([vector |-> vector]) = l => \E i \in DOMAIN stack' : Ends(stack'[i], l)
         /\ Line([vector |-> vector]) \in Slave => \E i \in DOMAIN stack' : Ends(stack'[i], Cascade)
<1>1. /\ DOMAIN stack' = 1 .. Len(stack) + 1 /\ DOMAIN stack = 1 .. Len(stack)
      /\ \A i \in DOMAIN stack : stack'[i] = stack[i]
      /\ stack'[Len(stack) + 1] = [vector |-> vector, at |-> "eoi", flag |-> interruptFlag]
  BY EnteredStack DEF IInv
<1>2. Len(stack) \in Nat
  BY DEF IInv, Types
<1>3. ASSUME NEW l \in isr, inta # "second" \/ l # Cascade
      PROVE  \E i \in DOMAIN stack' : Ends(stack'[i], l)
  <2>1. PICK i \in DOMAIN stack : Ends(stack[i], l)
    BY <1>3 DEF IInv, InServiceIsHandled, Ends
  <2> QED BY <1>1, <1>2, <2>1
<1>4. ASSUME NEW l, Line([vector |-> vector]) = l PROVE \E i \in DOMAIN stack' : Ends(stack'[i], l)
  BY <1>1, <1>2, <1>4 DEF Ends, Line
<1>5. ASSUME Line([vector |-> vector]) \in Slave
      PROVE  \E i \in DOMAIN stack' : Ends(stack'[i], Cascade)
  BY <1>1, <1>2, <1>5 DEF Ends, Line
<1> QED BY <1>3, <1>4, <1>5

LEMMA NonMaskableInductive == IInv /\ NonMaskable => IInv'
<1> SUFFICES ASSUME IInv, NonMaskable PROVE IInv'
  OBVIOUS
<1>1. /\ pc \in {"sti", "run"} /\ inta = "none" /\ inta' = "none" /\ ~nmis.blocked /\ nmis'.blocked
      /\ nmis' \in [blocked : BOOLEAN, count : 0 .. MaxNmis]
      /\ Enter(NMI)
      /\ UNCHANGED <<pc, written, pic, level, irr, isr>>
  BY WiringAssumption DEF IInv, Types, NonMaskable
<1>2. NMI \in Vectors
  BY DEF Vectors
<1>3. Types'
  <2>1. stack' \in Seq(Frames) /\ interruptFlag' \in BOOLEAN /\ shadow' \in BOOLEAN
    BY <1>1, <1>2, EnteredStack DEF IInv
  <2> QED BY <1>1, <2>1 DEF IInv, Types
<1>4. pc = "sti" => stack = <<>>
  <2> SUFFICES ASSUME pc = "sti", stack # <<>> PROVE FALSE
    OBVIOUS
  <2>1. 1 \in DOMAIN stack
    BY DEF IInv, Types
  <2> QED BY <1>1, <2>1 DEF IInv, Programming, Nesting
<1>5. Programming' /\ Nesting'
  BY <1>1, <1>2, <1>4, EnteringNests
<1>6. InServiceIsHandled'
  BY <1>1, <1>2, EnteringKeeps DEF InServiceIsHandled, Ends
<1> QED BY <1>3, <1>5, <1>6 DEF IInv

LEMMA FaultInductive == IInv /\ Fault => IInv'
<1> SUFFICES ASSUME IInv, Fault PROVE IInv'
  OBVIOUS
<1>1. /\ pc = "run" /\ inta = "none" /\ inta' = "none" /\ stack = <<>>
      /\ Enter(PageFault)
      /\ UNCHANGED <<pc, written, pic, level, irr, isr, nmis>>
  BY DEF Fault
<1>2. PageFault \in Vectors /\ PageFault # NMI
  BY DEF Vectors, PageFault, NMI
<1>3. Types'
  <2>1. stack' \in Seq(Frames) /\ interruptFlag' \in BOOLEAN /\ shadow' \in BOOLEAN
    BY <1>1, <1>2, EnteredStack DEF IInv
  <2> QED BY <1>1, <2>1 DEF IInv, Types
<1>4. Programming' /\ Nesting'
  BY <1>1, <1>2, EnteringNests
<1>5. InServiceIsHandled'
  BY <1>1, <1>2, EnteringKeeps DEF InServiceIsHandled, Ends
<1> QED BY <1>3, <1>4, <1>5 DEF IInv

\* While a device's interrupt is acknowledged the controllers are programmed
\* and no stub has more left than its iret, which is no NMI's.
LEMMA Acknowledging ==
  ASSUME IInv, inta # "none"
  PROVE  /\ pc = "run" /\ SlaveAnswers
         /\ pic.master.offset = HARDWARE_INTERRUPT_OFFSET
         /\ pic.slave.offset = HARDWARE_INTERRUPT_OFFSET + PerPic
         /\ stack # <<>> => Last(stack).at = "iret" /\ Last(stack).vector # NMI
<1>1. interruptFlag /\ ~shadow
  BY DEF IInv, Nesting
<1>2. pc = "run" /\ written = 10
  BY <1>1 DEF IInv, Types, Programming
<1>3. /\ SlaveAnswers
      /\ pic.master.offset = HARDWARE_INTERRUPT_OFFSET
      /\ pic.slave.offset = HARDWARE_INTERRUPT_OFFSET + PerPic
  BY <1>2 DEF IInv, Programming, Stage, SlaveAnswers
<1>4. ASSUME stack # <<>> PROVE Last(stack).at = "iret" /\ Last(stack).vector # NMI
  <2>1. Len(stack) \in DOMAIN stack /\ Last(stack) = stack[Len(stack)]
    BY <1>4 DEF IInv, Types, Last
  <2> QED BY <1>1, <1>4, <2>1 DEF IInv, Nesting
<1> QED BY <1>2, <1>3, <1>4

\* A line that is put into service is its own vector's: the offset, and the
\* line's number on its controller.
LEMMA VectorOfLine ==
  /\ \A l \in Master : l % PerPic = l
  /\ \A l \in Slave : l % PerPic = l - PerPic
BY WiringAssumption DEF Master, Slave

LEMMA FirstPulseInductive == IInv /\ FirstPulse => IInv'
<1> SUFFICES ASSUME IInv, FirstPulse PROVE IInv'
  OBVIOUS
<1> DEFINE requests == MasterRequests
           first == Min(requests)
           vector == HARDWARE_INTERRUPT_OFFSET + IF requests = {} THEN PerPic - 1 ELSE first
<1>1. /\ inta = "first" /\ UNCHANGED <<pc, written, pic, level, nmis>>
      /\ isr' = IF requests = {} THEN isr ELSE isr \cup {first}
      /\ irr' = IF requests = {} THEN irr ELSE irr \ {first}
  BY DEF FirstPulse, Acknowledge
<1>2. requests \subseteq (irr \cap Master) \cup {Cascade} /\ irr \subseteq DeviceLines
  BY Requests DEF IInv, Types
<1>3. requests # {} => first \in Master /\ (first = Cascade \/ first \in DeviceLines)
  <2>1. requests \in SUBSET Nat
    BY <1>2, Lines
  <2> QED BY <1>2, <2>1, MinIsLeast, Lines
<1>4. CASE requests # {} /\ first = Cascade
  <2>1. inta' = "second" /\ UNCHANGED <<stack, interruptFlag, shadow>>
    BY <1>1, <1>4, Acknowledging DEF FirstPulse, Acknowledge
  <2>2. Types'
    BY <1>1, <1>3, <1>4, <2>1 DEF IInv, Types
  <2>3. Programming' /\ Nesting'
    BY <1>1, <2>1, Acknowledging DEF IInv, Programming, Nesting
  <2>4. InServiceIsHandled'
    BY <1>1, <1>4, <2>1 DEF IInv, InServiceIsHandled, Line
  <2> QED BY <2>2, <2>3, <2>4 DEF IInv
<1>5. CASE ~(requests # {} /\ first = Cascade)
  <2>1. inta' = "none" /\ Enter(vector)
    <3>1. /\ inta' = "none"
          /\ Enter(pic.master.offset + (IF requests = {} THEN PerPic - 1 ELSE first % PerPic))
      BY <1>5 DEF FirstPulse, Acknowledge
    <3>2. requests # {} => first % PerPic = first
      BY <1>3, VectorOfLine
    <3> HIDE DEF requests, first
    <3> QED BY <1>1, <3>1, <3>2, Acknowledging
  <2>2. /\ vector \in Vectors /\ vector # NMI
        /\ requests # {} => Line([vector |-> vector]) = first
    <3>1. (IF requests = {} THEN PerPic - 1 ELSE first) \in DeviceLines
      BY <1>3, <1>5, Lines
    <3> QED BY <3>1, VectorOf
  <2> HIDE DEF requests, first, vector
  <2>3. Types'
    <3>1. stack' \in Seq(Frames) /\ interruptFlag' \in BOOLEAN /\ shadow' \in BOOLEAN
      BY <2>1, <2>2, EnteredStack DEF IInv
    <3> QED BY <1>1, <1>3, <2>1, <3>1 DEF IInv, Types
  <2>4. Programming' /\ Nesting'
    BY <1>1, <2>1, <2>2, Acknowledging, EnteringNests
  <2>5. InServiceIsHandled'
    BY <1>1, <2>1, <2>2, EnteringKeeps DEF InServiceIsHandled, Ends
  <2> QED BY <2>3, <2>4, <2>5 DEF IInv
<1> QED BY <1>4, <1>5

LEMMA SecondPulseInductive == IInv /\ SecondPulse => IInv'
<1> SUFFICES ASSUME IInv, SecondPulse PROVE IInv'
  OBVIOUS
<1> DEFINE requests == SlaveRequests
           first == Min(requests)
           vector == HARDWARE_INTERRUPT_OFFSET + IF requests = {} THEN 2 * PerPic - 1 ELSE first
<1>1. /\ inta = "second" /\ UNCHANGED <<pc, written, pic, level, nmis>>
      /\ isr' = IF requests = {} THEN isr ELSE isr \cup {first}
      /\ irr' = IF requests = {} THEN irr ELSE irr \ {first}
  BY DEF SecondPulse, Acknowledge
<1>2. requests \subseteq irr \cap Slave /\ irr \subseteq DeviceLines
  BY Requests DEF IInv, Types
<1>3. requests # {} => first \in Slave /\ first \in DeviceLines /\ first # Cascade
  <2>1. requests \in SUBSET Nat
    BY <1>2, Lines
  <2> QED BY <1>2, <2>1, MinIsLeast, Lines, ZenonT(40)
<1>4. (IF requests = {} THEN 2 * PerPic - 1 ELSE first) \in DeviceLines \cap Slave
  BY <1>3, Lines
<1>5. inta' = "none" /\ Enter(vector)
  <2>1. /\ inta' = "none"
        /\ Enter(pic.slave.offset + (IF requests = {} THEN PerPic - 1 ELSE first % PerPic))
    BY <1>3 DEF SecondPulse, Acknowledge
  <2>2. requests # {} => first % PerPic = first - PerPic /\ first \in Nat
    BY <1>3, VectorOfLine, Lines
  <2> HIDE DEF requests, first
  <2>3. pic.slave.offset + (IF requests = {} THEN PerPic - 1 ELSE first % PerPic) = vector
    BY <1>1, <2>2, Acknowledging, WiringAssumption DEF HARDWARE_INTERRUPT_OFFSET
  <2> QED BY <2>1, <2>3
<1>6. /\ vector \in Vectors /\ vector # NMI
      /\ requests # {} => Line([vector |-> vector]) = first
      /\ Line([vector |-> vector]) \in Slave
  <2> QED BY <1>4, VectorOf
<1> HIDE DEF requests, first, vector
<1>7. Types'
  <2>1. stack' \in Seq(Frames) /\ interruptFlag' \in BOOLEAN /\ shadow' \in BOOLEAN
    BY <1>5, <1>6, EnteredStack DEF IInv
  <2> QED BY <1>1, <1>3, <1>5, <2>1 DEF IInv, Types
<1>8. Programming' /\ Nesting'
  BY <1>1, <1>5, <1>6, Acknowledging, EnteringNests
<1>9. InServiceIsHandled'
  BY <1>1, <1>5, <1>6, EnteringKeeps DEF InServiceIsHandled, Ends
<1> QED BY <1>7, <1>8, <1>9 DEF IInv

-----------------------------------------------------------------------------
(***************************************************************************)
(* The stubs.                                                              *)
(***************************************************************************)
\* What runs is the innermost stub; a device's is the only one that has lines
\* to end, and an NMI's or a fault's has none.
LEMMA OnlyTheInnermostEnds ==
  ASSUME IInv, inta = "none", stack # <<>>
  PROVE  /\ stack[Len(stack)] \in Frames
         /\ Last(stack).vector # NMI => \A l \in isr : Ends(Last(stack), l)
         /\ Last(stack).vector = NMI => \A l \in isr :
              \E i \in DOMAIN stack : i # Len(stack) /\ Ends(stack[i], l)
<1>1. /\ Len(stack) \in Nat /\ DOMAIN stack = 1 .. Len(stack) /\ Len(stack) \in DOMAIN stack
      /\ Last(stack) = stack[Len(stack)] /\ \A i \in DOMAIN stack : stack[i] \in Frames
  BY DEF IInv, Types, Last
<1>2. \A l \in isr : l \in Master \cup Slave /\ \E i \in DOMAIN stack : Ends(stack[i], l)
  BY DEF IInv, Types, InServiceIsHandled, Ends
<1>3. ASSUME Last(stack).vector # NMI, NEW l \in isr PROVE Ends(Last(stack), l)
  <2>1. \A i \in DOMAIN stack : stack[i].vector # NMI
    BY <1>1, <1>3 DEF IInv, Nesting
  <2>2. \A i \in DOMAIN stack : i # Len(stack) => stack[i].at = "iret"
    <3>1. ASSUME NEW i \in DOMAIN stack, i # Len(stack) PROVE stack[i].at = "iret"
      <4>1. i + 1 \in DOMAIN stack /\ (i + 1) - 1 = i /\ i + 1 > 1
        BY <1>1, <3>1
      <4> QED BY <2>1, <4>1 DEF IInv, Nesting
    <3> QED BY <3>1
  <2> QED BY <1>1, <1>2, <2>2 DEF Ends
<1>4. ASSUME Last(stack).vector = NMI, NEW l \in isr
      PROVE  \E i \in DOMAIN stack : i # Len(stack) /\ Ends(stack[i], l)
  <2>1. Line(Last(stack)) \notin Master \cup Slave
    BY <1>1, <1>4, VectorLines
  <2> QED BY <1>1, <1>2, <2>1 DEF Ends
<1> QED BY <1>1, <1>3, <1>4

\* The innermost stub goes on to its next step, the flags as they are.
LEMMA GoingOn ==
  ASSUME IInv, inta = "none", inta' = "none", stack # <<>>, NEW at \in {"slave", "sti"}, GoTo(at),
         Last(stack).at # "iret", at = "slave" => Line(Last(stack)) \in Slave,
         isr' \subseteq Master \cup Slave,
         UNCHANGED <<pc, written, pic, level, irr, interruptFlag, shadow, nmis>>
  PROVE  Types' /\ Programming' /\ Nesting'
<1>1. /\ stack' \in Seq(Frames) /\ Len(stack') = Len(stack)
      /\ DOMAIN stack = 1 .. Len(stack) /\ DOMAIN stack' = 1 .. Len(stack)
      /\ Len(stack) \in DOMAIN stack
      /\ \A i \in DOMAIN stack : i # Len(stack) => stack'[i] = stack[i]
      /\ \A i \in DOMAIN stack : stack'[i].vector = stack[i].vector /\ stack'[i].flag = stack[i].flag
      /\ stack'[Len(stack)].at = at
      /\ Last(stack) = stack[Len(stack)] /\ Last(stack') = stack'[Len(stack)]
  BY AdvancedStack DEF IInv
<1>2. pc \in {"sti", "run"} /\ stack' # <<>>
  BY <1>1 DEF IInv, Types, Programming
<1>3. Types'
  BY <1>1 DEF IInv, Types
<1>4. Programming'
  BY <1>1, <1>2 DEF IInv, Programming
<1>5. Nesting'
  BY <1>1, <1>2 DEF IInv, Nesting, Line
<1> QED BY <1>3, <1>4, <1>5

\* An end of interrupt takes the controller's first line out of service.
LEMMA EndOfInterruptIs ==
  ASSUME IInv, NEW p \in Controllers, EndOfInterrupt(p)
  PROVE  /\ isr' \subseteq isr
         /\ \A l \in isr \cap LinesOf[p] : (\A s \in isr \cap LinesOf[p] : s = l) => isr' = isr \ {l}
         /\ \A l \in isr \ isr' : l \in LinesOf[p]
<1> DEFINE mine == isr \cap LinesOf[p]
<1>1. mine \in SUBSET Nat
  BY Lines DEF Controllers
<1>2. mine # {} => Min(mine) \in mine
  BY <1>1, MinIsLeast
<1>3. isr' = IF mine = {} THEN isr ELSE isr \ {Min(mine)}
  BY DEF EndOfInterrupt
<1> QED BY <1>2, <1>3

LEMMA HandleInterruptInductive == IInv /\ HandleInterrupt => IInv'
<1> SUFFICES ASSUME IInv, HandleInterrupt PROVE IInv'
  OBVIOUS
<1> DEFINE at == IF OfSlave(Last(stack).vector) THEN "slave" ELSE "sti"
           n == Len(stack)
           f == stack[n]
<1>1. /\ inta = "none" /\ inta' = "none" /\ stack # <<>> /\ Last(stack).at = "eoi"
      /\ EndOfInterrupt("master") /\ GoTo(at) /\ at \in {"slave", "sti"}
      /\ UNCHANGED <<pc, written, pic, level, irr, interruptFlag, shadow, nmis>>
  BY DEF HandleInterrupt, Running
<1>2. /\ f \in Frames /\ Last(stack) = f
      /\ f.vector # NMI => \A l \in isr : Ends(f, l)
      /\ f.vector = NMI => \A l \in isr : \E i \in DOMAIN stack : i # n /\ Ends(stack[i], l)
  BY <1>1, OnlyTheInnermostEnds DEF Last
<1>3. at = "slave" <=> Line(f) \in Slave
  BY <1>2, VectorLines
<1>4. /\ isr' \subseteq isr
      /\ \A l \in isr \cap Master : (\A s \in isr \cap Master : s = l) => isr' = isr \ {l}
  BY <1>1, EndOfInterruptIs, Lines DEF Controllers
<1>5. Types' /\ Programming' /\ Nesting'
  <2>1. isr' \subseteq Master \cup Slave
    BY <1>4 DEF IInv, Types
  <2> QED BY <1>1, <1>2, <1>3, <2>1, GoingOn
<1>6. /\ DOMAIN stack' = DOMAIN stack /\ n \in DOMAIN stack
      /\ \A i \in DOMAIN stack : i # n => stack'[i] = stack[i]
      /\ stack'[n].vector = f.vector /\ stack'[n].at = at
  BY <1>1, AdvancedStack DEF IInv
<1> HIDE DEF f, n, at
<1>7. ASSUME NEW l \in isr' PROVE \E i \in DOMAIN stack' : Ends(stack'[i], l)
  <2>1. CASE f.vector = NMI
    BY <1>2, <1>4, <1>6, <1>7, <2>1
  <2>2. CASE f.vector # NMI
    <3>1. \A s \in isr : Ends(f, s)
      BY <1>2, <2>2
    <3>2. CASE Line(f) \in Slave
      <4>1. l # Cascade
        <5> SUFFICES ASSUME l = Cascade PROVE FALSE
          OBVIOUS
        <5>1. \A s \in isr \cap Master : s = Cascade
          BY <3>1, <3>2, Lines DEF Ends
        <5>2. isr' = isr \ {Cascade}
          BY <1>4, <1>7, <5>1, Lines
        <5> QED BY <1>7, <5>2
      <4>2. Line(f) = l /\ l \in Slave
        BY <1>4, <1>7, <3>1, <3>2, <4>1 DEF Ends
      <4>3. Line(stack'[n]) = l /\ stack'[n].at = "slave"
        BY <1>3, <1>6, <3>2, <4>2 DEF Line
      <4> QED BY <1>6, <4>2, <4>3 DEF Ends
    <3>3. CASE Line(f) \notin Slave
      <4>1. l \in isr /\ \A s \in isr : s = l /\ s \in Master
        BY <1>4, <1>7, <3>1, <3>3 DEF Ends, IInv, Types
      <4>2. isr' = isr \ {l}
        BY <1>4, <4>1
      <4> QED BY <1>7, <4>2
    <3> QED BY <3>2, <3>3
  <2> QED BY <2>1, <2>2
<1>8. InServiceIsHandled'
  BY <1>7 DEF InServiceIsHandled, Ends
<1> QED BY <1>5, <1>8 DEF IInv

LEMMA HandleInterruptSlaveInductive == IInv /\ HandleInterruptSlave => IInv'
<1> SUFFICES ASSUME IInv, HandleInterruptSlave PROVE IInv'
  OBVIOUS
<1> DEFINE n == Len(stack)
           f == stack[n]
<1>1. /\ inta = "none" /\ inta' = "none" /\ stack # <<>> /\ Last(stack).at = "slave"
      /\ EndOfInterrupt("slave") /\ GoTo("sti")
      /\ UNCHANGED <<pc, written, pic, level, irr, interruptFlag, shadow, nmis>>
  BY DEF HandleInterruptSlave, Running
<1>2. /\ f \in Frames /\ Last(stack) = f /\ n \in DOMAIN stack
      /\ f.vector # NMI => \A l \in isr : Ends(f, l)
  BY <1>1, OnlyTheInnermostEnds DEF Last, IInv, Types
<1>3. Line(f) \in Slave /\ f.at = "slave"
  BY <1>1, <1>2 DEF IInv, Nesting
<1>4. f.vector # NMI
  BY <1>2, <1>3, VectorLines
<1>5. \A l \in isr : l = Line(f)
  BY <1>2, <1>3, <1>4 DEF Ends
<1>6. isr' = {}
  BY <1>1, <1>3, <1>5, EndOfInterruptIs, Lines DEF Controllers
<1>7. Types' /\ Programming' /\ Nesting'
  BY <1>1, <1>6, GoingOn
<1>8. InServiceIsHandled'
  BY <1>6 DEF InServiceIsHandled
<1> QED BY <1>7, <1>8 DEF IInv

LEMMA StubStiInductive == IInv /\ StubSti => IInv'
<1> SUFFICES ASSUME IInv, StubSti PROVE IInv'
  OBVIOUS
<1> DEFINE n == Len(stack)
<1>1. /\ inta = "none" /\ stack # <<>> /\ Last(stack).at = "sti" /\ GoTo("iret")
      /\ interruptFlag' = TRUE /\ shadow' = TRUE
      /\ UNCHANGED <<pc, written, pic, level, irr, isr, inta, nmis>>
  BY DEF StubSti, Running
<1>2. /\ stack' \in Seq(Frames) /\ Len(stack') = n
      /\ DOMAIN stack = 1 .. n /\ DOMAIN stack' = 1 .. n
      /\ n \in DOMAIN stack
      /\ \A i \in DOMAIN stack : i # n => stack'[i] = stack[i]
      /\ \A i \in DOMAIN stack : stack'[i].vector = stack[i].vector /\ stack'[i].flag = stack[i].flag
      /\ stack'[n].at = "iret"
      /\ Last(stack) = stack[n] /\ Last(stack') = stack'[n]
  BY <1>1, AdvancedStack DEF IInv
<1>3. pc \in {"sti", "run"} /\ stack' # <<>>
  BY <1>1, <1>2 DEF IInv, Types, Programming
<1>4. Types'
  <2>1. interruptFlag' \in BOOLEAN /\ shadow' \in BOOLEAN
    BY <1>1, Zenon
  <2> QED BY <1>1, <1>2, <2>1 DEF IInv, Types
<1>5. Programming'
  BY <1>1, <1>2, <1>3 DEF IInv, Programming
<1>6. Nesting'
  BY <1>1, <1>2, <1>3 DEF IInv, Nesting, Line
<1>7. InServiceIsHandled'
  BY <1>1, <1>2 DEF IInv, InServiceIsHandled, Line
<1> QED BY <1>4, <1>5, <1>6, <1>7 DEF IInv

LEMMA StubIretInductive == IInv /\ StubIret => IInv'
<1> SUFFICES ASSUME IInv, StubIret PROVE IInv'
  OBVIOUS
<1> DEFINE n == Len(stack)
<1>1. /\ inta = "none" /\ stack # <<>> /\ Last(stack).at = "iret"
      /\ stack' = Front(stack) /\ interruptFlag' = Last(stack).flag /\ shadow' = FALSE
      /\ nmis' = [nmis EXCEPT !.blocked = FALSE]
      /\ UNCHANGED <<pc, written, pic, level, irr, isr, inta>>
  BY DEF StubIret, Running, FlagsPushed
<1>2. /\ n \in Nat \ {0} /\ DOMAIN stack = 1 .. n /\ Last(stack) = stack[n]
      /\ stack[n] \in Frames
  BY <1>1 DEF IInv, Types, Last
<1>3. /\ stack' \in Seq(Frames) /\ Len(stack') = n - 1 /\ DOMAIN stack' = 1 .. n - 1
      /\ \A i \in 1 .. n - 1 : stack'[i] = stack[i]
      /\ Last(stack') = stack'[n - 1]
  <2>1. stack' = SubSeq(stack, 1, n - 1) /\ stack \in Seq(Frames) /\ n = Len(stack) /\ n - 1 \in Nat
    BY <1>1, <1>2 DEF IInv, Types, Front
  <2>2. \A i \in 1 .. n - 1 : stack[i] \in Frames
    BY <2>1
  <2>3. /\ stack' \in Seq(Frames) /\ Len(stack') = n - 1
        /\ \A i \in 1 .. n - 1 : stack'[i] = stack[i]
    <3> HIDE DEF n
    <3> QED BY <2>1, <2>2, SubSeqProperties
  <2> QED BY <2>3 DEF Last
<1>4. pc \in {"sti", "run"}
  BY <1>1 DEF IInv, Types, Programming
<1> HIDE DEF n
<1>5. Types'
  <2>1. interruptFlag' \in BOOLEAN /\ shadow' \in BOOLEAN
    BY <1>1, <1>2, Zenon DEF Frames
  <2>2. nmis' \in [blocked : BOOLEAN, count : 0 .. MaxNmis]
    BY <1>1 DEF IInv, Types
  <2> QED BY <1>1, <1>3, <2>1, <2>2 DEF IInv, Types
<1>6. Programming'
  <2>1. ASSUME pc = "sti" PROVE ~interruptFlag'
    BY <1>1, <1>2, <2>1 DEF IInv, Programming
  <2> QED BY <1>1, <1>2, <1>3, <1>4, <2>1 DEF IInv, Programming
<1>7. Nesting'
  <2>1. \A i \in 1 .. n - 1 : stack'[i].vector # NMI
    BY <1>2, <1>3 DEF IInv, Nesting, n
  <2>2. stack' # <<>> => n > 1
    BY <1>2, <1>3
  <2>3. ASSUME stack' # <<>>, interruptFlag' PROVE Last(stack').at = "iret"
    <3>1. stack[n].flag
      BY <1>1, <1>2, <2>3, Zenon
    <3> QED BY <1>2, <1>3, <2>2, <2>3, <3>1 DEF IInv, Nesting
  <2> QED BY <1>1, <1>2, <1>3, <2>1, <2>3 DEF IInv, Nesting, Line
<1>8. InServiceIsHandled'
  <2>1. ~ \E l : Ends(stack[n], l)
    BY <1>1, <1>2 DEF Ends
  <2>2. ASSUME NEW l \in isr PROVE \E i \in DOMAIN stack' : Ends(stack'[i], l)
    <3>1. PICK i \in DOMAIN stack : Ends(stack[i], l)
      BY <1>1, <2>2 DEF IInv, InServiceIsHandled, Ends
    <3>2. i \in 1 .. n - 1
      BY <1>2, <2>1, <3>1
    <3> QED BY <1>3, <3>1, <3>2
  <2> QED BY <1>1, <2>2 DEF InServiceIsHandled, Ends
<1> QED BY <1>5, <1>6, <1>7, <1>8 DEF IInv

-----------------------------------------------------------------------------
(***************************************************************************)
(* The remaining steps, and the invariant.                                 *)
(***************************************************************************)
LEMMA StartInductive == IInv /\ stack = <<>> /\ (LoadTable \/ EnableInterrupts \/ MainStep) => IInv'
<1> SUFFICES ASSUME IInv, stack = <<>>, LoadTable \/ EnableInterrupts \/ MainStep PROVE IInv'
  OBVIOUS
<1>1. CASE LoadTable
  <2>1. inta = "none" /\ ~interruptFlag
    BY <1>1 DEF LoadTable, IInv, Types, Programming, Nesting
  <2>2. Types'
    BY <1>1 DEF LoadTable, IInv, Types, cpu
  <2>3. Programming' /\ Nesting' /\ InServiceIsHandled'
    BY <1>1, <2>1 DEF LoadTable, IInv, Programming, Nesting, InServiceIsHandled, Line, cpu
  <2> QED BY <2>2, <2>3 DEF IInv
<1>2. CASE EnableInterrupts
  <2>1. inta = "none"
    BY <1>2 DEF EnableInterrupts, IInv, Programming
  <2>2. interruptFlag' \in BOOLEAN /\ shadow' \in BOOLEAN
    BY <1>2, Zenon DEF EnableInterrupts
  <2>3. Types'
    BY <1>2, <2>2 DEF EnableInterrupts, IInv, Types
  <2>4. Programming' /\ Nesting' /\ InServiceIsHandled'
    BY <1>2, <2>1 DEF EnableInterrupts, IInv, Programming, Nesting, InServiceIsHandled, Line
  <2> QED BY <2>3, <2>4 DEF IInv
<1>3. CASE MainStep
  <2>1. interruptFlag' \in BOOLEAN /\ shadow' \in BOOLEAN
    BY <1>3, Zenon DEF MainStep, IInv, Types
  <2>2. Types'
    BY <1>3, <2>1 DEF MainStep, IInv, Types
  <2>3. Programming' /\ Nesting' /\ InServiceIsHandled'
    BY <1>3 DEF MainStep, IInv, Programming, Nesting, InServiceIsHandled, Line
  <2> QED BY <2>2, <2>3 DEF IInv
<1> QED BY <1>1, <1>2, <1>3

LEMMA NoticeInductive == IInv /\ Notice => IInv'
<1> SUFFICES ASSUME IInv, Notice PROVE IInv'
  OBVIOUS
<1>1. /\ interruptFlag /\ ~shadow /\ inta = "none" /\ inta' = "first"
      /\ UNCHANGED <<pc, written, pic, level, irr, isr, stack, interruptFlag, shadow, nmis>>
  BY DEF Notice
<1>2. pc = "run"
  <2> SUFFICES ASSUME pc = "sti" PROVE FALSE
    BY <1>1 DEF IInv, Types, Programming
  <2>1. stack # <<>> /\ Len(stack) \in DOMAIN stack /\ Last(stack) = stack[Len(stack)]
    BY <1>1 DEF IInv, Types, Programming, Last
  <2> QED BY <1>1, <2>1 DEF IInv, Programming, Nesting
<1>3. Types'
  BY <1>1 DEF IInv, Types
<1>4. Programming' /\ Nesting' /\ InServiceIsHandled'
  BY <1>1, <1>2 DEF IInv, Programming, Nesting, InServiceIsHandled, Line
<1> QED BY <1>3, <1>4 DEF IInv

LEMMA DevicesInductive ==
  IInv /\ (UNCHANGED vars \/ \E l \in DeviceLines : Raise(l) \/ Drop(l)) => IInv'
<1> SUFFICES ASSUME IInv, UNCHANGED vars \/ \E l \in DeviceLines : Raise(l) \/ Drop(l) PROVE IInv'
  OBVIOUS
<1>1. UNCHANGED <<pc, written, pic, isr, inta, stack, interruptFlag, shadow, nmis>>
  BY DEF vars, cpu, Raise, Drop
<1>2. level' \subseteq DeviceLines /\ irr' \subseteq level'
  BY DEF IInv, Types, vars, Raise, Drop
<1>3. Types'
  BY <1>1, <1>2 DEF IInv, Types
<1>4. Programming' /\ Nesting' /\ InServiceIsHandled'
  BY <1>1 DEF IInv, Programming, Nesting, InServiceIsHandled, Line
<1> QED BY <1>3, <1>4 DEF IInv

LEMMA Inductive == IInv /\ [Next]_vars => IInv'
<1> SUFFICES ASSUME IInv, [Next]_vars PROVE IInv'
  OBVIOUS
<1>1. CASE Program
  BY <1>1, WritePortInductive, StartInductive DEF Program, MainStep
<1>2. CASE Stub
  BY <1>2, HandleInterruptInductive, HandleInterruptSlaveInductive, StubStiInductive,
     StubIretInductive DEF Stub
<1>3. CASE Notice \/ FirstPulse \/ SecondPulse \/ NonMaskable \/ Fault
  BY <1>3, NoticeInductive, FirstPulseInductive, SecondPulseInductive, NonMaskableInductive,
     FaultInductive
<1>4. CASE UNCHANGED vars \/ \E l \in DeviceLines : Raise(l) \/ Drop(l)
  BY <1>4, DevicesInductive
<1> QED BY <1>1, <1>2, <1>3, <1>4 DEF Next

LEMMA Invariant == Spec => []IInv
<1> QED BY Initially, Inductive, PTL DEF Spec

\* In every state the controllers, the lines and the processor hold values of
\* their types, and every stub on the stack has a vector the code gave out.
THEOREM TypeCorrect == Spec => []TypeOK
<1>1. IInv => TypeOK
  <2> SUFFICES ASSUME IInv PROVE TypeOK
    OBVIOUS
  <2>1. \A i \in DOMAIN stack :
          /\ stack[i].vector \in {NMI, PageFault} \cup {HARDWARE_INTERRUPT_OFFSET + l : l \in DeviceLines}
          /\ stack[i].at \in {"eoi", "slave", "sti", "iret"} /\ stack[i].flag \in BOOLEAN
    <3>1. \A i \in DOMAIN stack : stack[i] \in Frames
      BY DEF IInv, Types
    <3>2. \A f \in Frames :
            f.vector \in Vectors /\ f.at \in {"eoi", "slave", "sti", "iret"} /\ f.flag \in BOOLEAN
      BY DEF Frames
    <3> QED BY <3>1, <3>2, Zenon DEF Vectors
  <2>2. pic \in [{"master", "slave"} ->
          [expects : {"icw2", "icw3", "icw4", "mask"}, offset : Nat, icw3 : {0, 2^Cascade, Cascade},
           mask : SUBSET (Master \cup Slave)]]
    BY Zenon DEF IInv, Types, Controllers, Registers
  <2>3. /\ pc \in {"pic", "idt", "sti", "run"} /\ written \in 0 .. Len(Writes)
        /\ level \subseteq DeviceLines /\ irr \subseteq level
        /\ isr \subseteq Master \cup Slave
        /\ inta \in {"none", "first", "second"}
        /\ interruptFlag \in BOOLEAN /\ shadow \in BOOLEAN
        /\ nmis \in [blocked : BOOLEAN, count : 0 .. MaxNmis]
    BY WritesAre DEF IInv, Types
  <2> QED BY <2>1, <2>2, <2>3, Zenon DEF TypeOK
<1> QED BY <1>1, Invariant, PTL

\* Nothing but an NMI comes between a stub's entry and its last instruction:
\* handleInterrupt never runs for two devices at once.
THEOREM DevicesDoNotNest == Spec => []StubsDoNotNest
<1>1. IInv => StubsDoNotNest
  BY DEF IInv, Types, Nesting, StubsDoNotNest
<1> QED BY <1>1, Invariant, PTL

\* No line is left in service for good: whatever the order of interrupts,
\* spurious ones, NMIs and faults, a stub that will end it is still running.
THEOREM InServiceHandled == Spec => []InServiceIsHandled
<1>1. IInv => InServiceIsHandled
  BY DEF IInv
<1> QED BY <1>1, Invariant, PTL

\* An end of interrupt sent by a device's stub never ends another's line.
THEOREM EndsItsOwn == Spec => EndsOnlyItsOwn
<1> DEFINE Step == \A l \in isr \ isr' :
                     LET mine == Line(Last(stack))
                     IN  Last(stack).vector # NMI => mine = l \/ (l = Cascade /\ mine \in Slave)
<1>1. IInv /\ [Next]_vars => [Step]_vars
  <2> SUFFICES ASSUME IInv, [Next]_vars, NEW l \in isr \ isr', Last(stack).vector # NMI
               PROVE  Ends(Last(stack), l)
    BY DEF Ends
  <2>1. CASE HandleInterrupt \/ HandleInterruptSlave
    <3>1. inta = "none" /\ stack # <<>>
      BY <2>1 DEF HandleInterrupt, HandleInterruptSlave, Running
    <3> QED BY <3>1, OnlyTheInnermostEnds
  <2>2. CASE ~(HandleInterrupt \/ HandleInterruptSlave)
    <3>1. isr \subseteq isr'
      BY <2>2 DEF Next, vars, Program, Stub, WritePort, LoadTable, EnableInterrupts, MainStep, StubSti,
         StubIret, Notice, FirstPulse, SecondPulse, Acknowledge, NonMaskable, Fault, Raise, Drop
    <3> QED BY <3>1
  <2> QED BY <2>1, <2>2
<1>2. EndsOnlyItsOwn <=> [][Step]_vars
  BY DEF EndsOnlyItsOwn
<1> HIDE DEF Step
<1> QED BY <1>1, <1>2, Invariant, PTL DEF Spec
=============================================================================
