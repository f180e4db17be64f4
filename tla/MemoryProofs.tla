------------------------------ MODULE MemoryProofs ------------------------------
(***************************************************************************)
(* Theorems about the frame allocator and about initVMM on top of it.      *)
(*                                                                         *)
(* The first part is about PMM alone, for every geometry, memory map and   *)
(* sequence of requests: type correctness, the inductive invariant that    *)
(* ties the bit map to the blocks held, and the refinement of Allocator.   *)
(* It uses the assumptions of PMM only.  The second part is about VMM, for *)
(* page tables of any size, any memory map and whatever the frames held    *)
(* before boot.                                                            *)
(***************************************************************************)
EXTENDS VMM, FiniteSetTheorems, Arithmetic

\* The address space has at least one address; lower halves are addresses.
LEMMA LowIsAddress ==
  /\ AddressSpace \in Nat \ {0}
  /\ \A n \in Nat : Low(n) \in 0 .. AddressSpace - 1
<1>1. AddressSpace \in Nat \ {0}
  BY GeometryAssumption DEF AddressSpace
<1>2. QED
  BY <1>1 DEF Low

\* A memory size that is an address makes fewer blocks than the address space.
LEMMA BlockIndex ==
  ASSUME NEW n \in 0 .. AddressSpace - 1
  PROVE  n \div BlockSize \in 0 .. AddrBlocks - 1
<1>0. /\ AddressSpace \in Nat \ {0}
      /\ BlockSize \in Nat \ {0}
      /\ AddrBlocks \in Nat \ {0}
  BY GeometryAssumption, LowIsAddress
<1>1. PICK q \in Nat : q = n \div BlockSize /\ BlockSize * q <= n
  BY <1>0
<1>2. ASSUME q >= AddrBlocks PROVE FALSE
  <2>1. PICK d \in Nat : q = AddrBlocks + d
    <3>1. q - AddrBlocks \in Nat /\ q = AddrBlocks + (q - AddrBlocks)
      BY <1>0, <1>1, <1>2
    <3>2. QED
      BY <3>1
  <2>2. BlockSize * d >= 0 /\ BlockSize * d \in Int
    BY <1>0, <2>1
  <2>3. BlockSize * q = AddressSpace + BlockSize * d
    BY <1>0, <2>1 DEF AddressSpace
  <2>4. AddressSpace <= n
    <3> DEFINE p == BlockSize * q
               r == BlockSize * d
    <3>1. p = AddressSpace + r /\ r >= 0 /\ r \in Int /\ p <= n
      BY <2>2, <2>3, <1>1
    <3>2. QED
      <4> HIDE DEF p, r
      <4> QED BY <3>1, <1>0
  <2>5. QED
    BY <1>0, <2>4
<1>3. QED
  BY <1>0, <1>1, <1>2

\* Whatever is assigned to the counter is a u32.
LEMMA WrappedIsCounter == \A n \in Int : Wrapped(n) \in 0 .. CounterRange - 1
BY GeometryAssumption DEF Wrapped

\* Bit ranges are finite sets of naturals.
LEMMA RunFinite ==
  ASSUME NEW first \in Nat, NEW count \in Nat
  PROVE  /\ Run(first, count) \subseteq Nat
         /\ IsFiniteSet(Run(first, count))
         /\ Cardinality(Run(first, count)) \in Nat
<1>1. Run(first, count) \subseteq Nat
  BY DEF Run
<1>2. IsFiniteSet(Run(first, count))
  BY FS_Interval DEF Run
<1>3. QED
  BY <1>1, <1>2, FS_CardinalityType

LEMMA FramesFinite ==
  ASSUME NEW region \in Region
  PROVE  /\ Frames(region) \subseteq Nat
         /\ IsFiniteSet(Frames(region))
         /\ Cardinality(Frames(region)) \in Nat
<1>1. Low(region.addr) \in Nat /\ Low(region.len) \in Nat
  BY LowIsAddress DEF Region
<1>2. Low(region.addr) \div BlockSize \in Nat /\ Low(region.len) \div BlockSize \in Nat
  BY <1>1, GeometryAssumption
<1>3. QED
  BY <1>2, RunFinite DEF Frames

\* A run that getFreePhysicalPage may choose starts inside the map and is free.
LEMMA FreeRunIsFree ==
  ASSUME TypeOK, NEW size \in Requests, NEW frame \in FreeRuns(size)
  PROVE  /\ frame \in 0 .. AddrBlocks - 1
         /\ size \in Nat \ {0}
         /\ Run(frame, size) \cap memoryMap = {}
<1>0. maxBlocks \in 0 .. AddrBlocks - 1 /\ AddrBlocks \in Nat /\ WordBits \in Nat \ {0}
  BY GeometryAssumption DEF TypeOK
<1>1. size \in Nat \ {0} /\ frame \in Scanned /\ RunIsFree(frame, size)
  BY InputAssumption DEF FreeRuns
<1>2. frame \in 0 .. AddrBlocks - 1
  <2>1. PICK w \in Nat : w = WordBits * (maxBlocks \div WordBits) /\ w <= maxBlocks
    BY <1>0
  <2>2. frame \in 0 .. w - 1
    BY <1>1, <2>1 DEF Scanned, Run
  <2>3. QED
    BY <1>0, <2>1, <2>2
<1>3. ASSUME NEW b \in Run(frame, size) PROVE b \notin memoryMap
  <2>1. b - frame \in Run(0, size) /\ frame + (b - frame) = b
    BY <1>0, <1>1, <1>2 DEF Run
  <2>2. QED
    BY <1>1, <2>1 DEF RunIsFree
<1>4. QED
  BY <1>1, <1>2, <1>3

-----------------------------------------------------------------------------
(***************************************************************************)
(* Type correctness.                                                       *)
(***************************************************************************)
LEMMA TypeInductive == TypeOK /\ [Next]_pmmVars => TypeOK'
<1> SUFFICES ASSUME TypeOK, [Next]_pmmVars PROVE TypeOK'
  OBVIOUS
<1>0. usedBlocks \in Nat /\ CounterRange \in Nat /\ entry \in Nat
  BY GeometryAssumption DEF TypeOK
<1>1. CASE CountRegion
  <2>1. ASSUME entry <= Len(grubMap)
        PROVE  Low(memorySize + Low(grubMap[entry].len)) \in 0 .. AddressSpace - 1
    <3>1. grubMap[entry] \in Region
      BY <2>1 DEF TypeOK
    <3>2. grubMap[entry].len \in Nat
      BY <3>1 DEF Region
    <3>3. Low(grubMap[entry].len) \in Nat
      BY <3>2, LowIsAddress
    <3>. memorySize \in Nat
      BY LowIsAddress DEF TypeOK
    <3>4. memorySize + Low(grubMap[entry].len) \in Nat
      BY <3>3
    <3>5. QED
      BY <3>4, LowIsAddress
  <2>2. QED
    BY <1>1, <2>1 DEF CountRegion, TypeOK
<1>2. CASE FillMap
  <2>1. PICK blocks \in 0 .. AddrBlocks - 1 : blocks = memorySize \div BlockSize
    BY BlockIndex DEF TypeOK
  <2>2. Wrapped(blocks) \in 0 .. CounterRange - 1
    BY <2>1, WrappedIsCounter, GeometryAssumption
  <2>3. PICK bytes \in Nat : bytes = blocks \div ByteBits
    BY <2>1, GeometryAssumption
  <2>4. ByteBits \in Nat /\ ByteBits * bytes \in Nat
    BY <2>3, GeometryAssumption
  <2>5. Run(ByteBits, ByteBits * bytes) \subseteq Nat
    BY <2>4, RunFinite
  <2>6. Filled(memoryMap, bytes) \in SUBSET Nat
    BY <2>5 DEF Filled, TypeOK
  <2>7. QED
    BY <1>2, <2>1, <2>2, <2>3, <2>6 DEF FillMap, TypeOK
<1>3. CASE AddRegion
  <2>1. CASE entry <= Len(grubMap)
    <3>1. grubMap[entry] \in Region
      BY <2>1 DEF TypeOK
    <3>2. PICK F : F = Frames(grubMap[entry])
      OBVIOUS
    <3>3. F \subseteq Nat /\ Cardinality(F) \in Nat
      BY <3>1, <3>2, FramesFinite
    <3>4. /\ Wrapped(usedBlocks - Cardinality(F)) \in 0 .. CounterRange - 1
          /\ Wrapped(usedBlocks + Cardinality(F)) \in 0 .. CounterRange - 1
      <4>1. usedBlocks - Cardinality(F) \in Int /\ usedBlocks + Cardinality(F) \in Int
        BY <1>0, <3>3
      <4>2. QED
        BY <4>1, WrappedIsCounter
    <3>5. \/ memoryMap' = memoryMap \ F /\ usedBlocks' = Wrapped(usedBlocks + Cardinality(F))
          \/ /\ memoryMap' = memoryMap \cup F \cup {0}
             /\ usedBlocks' = Wrapped(usedBlocks - Cardinality(F))
      BY <1>3, <2>1, <3>2 DEF AddRegion, MarkRegion, SetRegionFree, SetRegionUsed
    <3>6. memoryMap' \in SUBSET Nat
      <4>1. memoryMap \subseteq Nat
        BY DEF TypeOK
      <4>2. \A b \in memoryMap' : b \in memoryMap \/ b \in F \/ b = 0
        BY <3>5
      <4>3. ASSUME NEW b \in memoryMap' PROVE b \in Nat
        <5>1. CASE b \in memoryMap
          BY <4>1, <5>1
        <5>2. CASE b \in F
          BY <3>3, <5>2
        <5>3. QED
          BY <4>2, <5>1, <5>2
      <4>4. memoryMap' \subseteq Nat
        BY <4>3
      <4>5. QED
        BY <4>4
    <3>. usedBlocks' \in 0 .. CounterRange - 1
      BY <3>4, <3>5
    <3>7. QED
      BY <1>3, <2>1, <3>6 DEF AddRegion, TypeOK
  <2>2. CASE ~(entry <= Len(grubMap))
    BY <1>3, <2>2 DEF AddRegion, TypeOK
  <2>3. QED
    BY <2>1, <2>2
<1>4. CASE ReserveKernel
  <2>1. PICK K : K = Run(0, KernelBlocks)
    OBVIOUS
  <2>2. KernelBlocks \in Nat
    BY GeometryAssumption DEF KernelBlocks
  <2>3. K \subseteq Nat /\ Cardinality(K) \in Nat
    BY <2>1, <2>2, RunFinite
  <2>4. Wrapped(usedBlocks - Cardinality(K)) \in 0 .. CounterRange - 1
    BY <1>0, <2>3, WrappedIsCounter
  <2>5. /\ memoryMap' = memoryMap \cup K \cup {0}
        /\ usedBlocks' = Wrapped(usedBlocks - Cardinality(K))
    BY <1>4, <2>1 DEF ReserveKernel, LowBlocks, SetRegionUsed
  <2>6. QED
    BY <1>4, <2>3, <2>4, <2>5 DEF ReserveKernel, TypeOK
<1>5. ASSUME NEW size \in Requests, Allocate(size) PROVE TypeOK'
  <2>1. PICK frame \in FreeRuns(size) :
          /\ memoryMap' = memoryMap \cup Run(frame, size)
          /\ reply' = [size |-> size, addr |-> frame * BlockSize]
          /\ held' = held \cup {[base |-> frame, size |-> size]}
    BY <1>5 DEF Allocate
  <2>2. frame \in 0 .. AddrBlocks - 1 /\ frame \in Nat /\ size \in Nat \ {0}
    BY FreeRunIsFree, GeometryAssumption
  <2>3. Run(frame, size) \subseteq Nat
    BY <2>2, RunFinite
  <2>4. frame * BlockSize \in Nat
    BY <2>2, GeometryAssumption
  <2>5. reply' \in [size : Nat, addr : Nat]
    BY <2>1, <2>2, <2>4
  <2>6. held' \subseteq [base : 0 .. AddrBlocks - 1, size : Requests \ {0}]
    BY <2>1, <2>2 DEF TypeOK
  <2>7. usedBlocks' \in 0 .. CounterRange - 1
    BY <1>0, <1>5, <2>2, WrappedIsCounter DEF Allocate
  <2>8. QED
    BY <1>5, <2>1, <2>3, <2>5, <2>6, <2>7 DEF Allocate, TypeOK
<1>6. ASSUME NEW size \in Requests, Refuse(size) PROVE TypeOK'
  BY <1>6, InputAssumption DEF Refuse, nullptr, TypeOK
<1>7. ASSUME NEW b \in held, FreePage(b) PROVE TypeOK'
  <2>1. b.size \in Nat
    BY InputAssumption DEF TypeOK
  <2>2. Wrapped(usedBlocks - b.size) \in 0 .. CounterRange - 1
    BY <1>0, <2>1, WrappedIsCounter
  <2>3. QED
    BY <1>7, <2>2 DEF FreePage, Freed, CounterAfterFree, NoReply, nullptr, TypeOK
<1>8. CASE UNCHANGED pmmVars
  BY <1>8 DEF pmmVars, TypeOK
<1>9. QED
  BY <1>1, <1>2, <1>3, <1>4, <1>5, <1>6, <1>7, <1>8 DEF Next

LEMMA TypeInit == Init => TypeOK
BY GeometryAssumption, InputAssumption, LowIsAddress DEF Init, TypeOK, NoReply, nullptr

\* Every variable keeps its type: addresses and block numbers stay inside the
\* address space and the u32 counter inside its range.
THEOREM TypeCorrect == Spec => []TypeOK
BY TypeInit, TypeInductive, PTL DEF Spec

-----------------------------------------------------------------------------
(***************************************************************************)
(* The bit map and the blocks held.  NoDoubleAllocation is not inductive:  *)
(* a new block avoids the held ones only because their bits are set in the *)
(* map, so the map must be known to be exact; and that is so from the      *)
(* moment initPMM returns, because nothing is held before.                 *)
(***************************************************************************)
Reservation ==
  /\ pc # "ready" => held = {}
  /\ pc = "ready" => Run(0, KernelBlocks) \subseteq bootMap
  /\ BitmapExact
  /\ NoDoubleAllocation

IInv == TypeOK /\ Reservation

LEMMA ReservationInit == Init => Reservation
BY DEF Init, Reservation, BitmapExact, NoDoubleAllocation, HeldBlocks

LEMMA ReservationInductive == IInv /\ [Next]_pmmVars => Reservation'
<1> SUFFICES ASSUME TypeOK, Reservation, [Next]_pmmVars PROVE Reservation'
  BY DEF IInv
\* Boot steps before the last leave nothing held and do not reach "ready".
<1>1. ASSUME CountRegion \/ FillMap \/ AddRegion PROVE Reservation'
  <2>1. held = {} /\ held' = {} /\ pc' # "ready"
    BY <1>1 DEF CountRegion, FillMap, AddRegion, Reservation
  <2>2. QED
    BY <2>1 DEF Reservation, BitmapExact, NoDoubleAllocation
<1>2. CASE ReserveKernel
  <2>1. held = {} /\ held' = {} /\ bootMap' = memoryMap'
    BY <1>2 DEF ReserveKernel, Reservation
  <2>2. Run(0, KernelBlocks) \subseteq bootMap'
    BY <1>2, <2>1 DEF ReserveKernel, LowBlocks, SetRegionUsed
  <2>3. HeldBlocks' = {}
    BY <2>1 DEF HeldBlocks
  <2>4. QED
    BY <1>2, <2>1, <2>2, <2>3 DEF Reservation, BitmapExact, NoDoubleAllocation
<1>3. ASSUME NEW size \in Requests, Allocate(size) PROVE Reservation'
  <2>0. pc = "ready" /\ pc' = "ready" /\ bootMap' = bootMap
    BY <1>3 DEF Allocate
  <2>1. PICK frame \in FreeRuns(size) :
          /\ memoryMap' = memoryMap \cup Run(frame, size)
          /\ held' = held \cup {[base |-> frame, size |-> size]}
    BY <1>3 DEF Allocate
  <2>2. PICK n : n = [base |-> frame, size |-> size]
    OBVIOUS
  <2>3. Span(n) = Run(frame, size) /\ Span(n) \cap memoryMap = {}
    BY <2>2, FreeRunIsFree DEF Span
  <2>4. memoryMap' = memoryMap \cup Span(n) /\ held' = held \cup {n}
    BY <2>1, <2>2, <2>3
  <2>5. HeldBlocks' = HeldBlocks \cup Span(n)
    BY <2>4 DEF HeldBlocks
  <2>6. memoryMap = bootMap \cup HeldBlocks /\ bootMap \cap HeldBlocks = {}
    BY <2>0 DEF Reservation, BitmapExact
  <2>7. BitmapExact'
    BY <2>0, <2>3, <2>4, <2>5, <2>6 DEF BitmapExact
  <2>8. \A h \in held : Span(h) \cap Span(n) = {}
    BY <2>3, <2>6 DEF HeldBlocks
  <2>9. NoDoubleAllocation'
    BY <2>4, <2>8 DEF Reservation, NoDoubleAllocation
  <2>10. QED
    BY <2>0, <2>7, <2>9 DEF Reservation
<1>4. ASSUME NEW size \in Requests, Refuse(size) PROVE Reservation'
  BY <1>4 DEF Refuse, Reservation, BitmapExact, NoDoubleAllocation, HeldBlocks
<1>5. ASSUME NEW b \in held, FreePage(b) PROVE Reservation'
  <2>0. /\ pc = "ready" /\ pc' = "ready" /\ bootMap' = bootMap
        /\ memoryMap' = memoryMap \ Span(b) /\ held' = held \ {b}
    BY <1>5 DEF FreePage, Freed
  <2>1. memoryMap = bootMap \cup HeldBlocks /\ bootMap \cap HeldBlocks = {}
    BY <2>0 DEF Reservation, BitmapExact
  <2>2. Span(b) \subseteq HeldBlocks
    BY DEF HeldBlocks
  <2>3. \A h \in held \ {b} : Span(h) \cap Span(b) = {}
    BY DEF Reservation, NoDoubleAllocation
  <2>4. HeldBlocks' = HeldBlocks \ Span(b)
    BY <2>0, <2>3 DEF HeldBlocks
  <2>5. BitmapExact'
    BY <2>0, <2>1, <2>2, <2>4 DEF BitmapExact
  <2>6. NoDoubleAllocation'
    BY <2>0 DEF Reservation, NoDoubleAllocation
  <2>7. QED
    BY <2>0, <2>5, <2>6 DEF Reservation
<1>6. CASE UNCHANGED pmmVars
  BY <1>6 DEF pmmVars, Reservation, BitmapExact, NoDoubleAllocation, HeldBlocks
<1>7. QED
  BY <1>1, <1>2, <1>3, <1>4, <1>5, <1>6 DEF Next

LEMMA IInvInvariant == Spec => []IInv
<1>1. Init => IInv
  BY TypeInit, ReservationInit DEF IInv
<1>2. IInv /\ [Next]_pmmVars => IInv'
  BY TypeInductive, ReservationInductive DEF IInv
<1>3. QED
  BY <1>1, <1>2, PTL DEF Spec

\* No block is given to two callers, whatever they ask for and give back.
THEOREM NoBlockTwice == Spec => []NoDoubleAllocation
<1>1. IInv => NoDoubleAllocation
  BY DEF IInv, Reservation
<1>2. QED
  BY <1>1, IInvInvariant, PTL

\* After boot the bit map is the boot map and the held blocks, disjointly:
\* no allocation or free loses, leaks or doubles a block.
THEOREM MapIsExact == Spec => []BitmapExact
<1>1. IInv => BitmapExact
  BY DEF IInv, Reservation
<1>2. QED
  BY <1>1, IInvInvariant, PTL

\* The low memory with the kernel, the bit map and the boot structures is never
\* handed out, and no success looks like a failure.
THEOREM KernelIsReserved == Spec => []KernelReserved
<1>1. IInv => KernelReserved
  <2> SUFFICES ASSUME TypeOK, Reservation, pc = "ready" PROVE KernelReserved
    BY DEF IInv, KernelReserved
  <2>1. /\ Run(0, KernelBlocks) \subseteq bootMap
        /\ memoryMap = bootMap \cup HeldBlocks
        /\ bootMap \cap HeldBlocks = {}
    BY DEF Reservation, BitmapExact
  <2>2. KernelBlocks \in Nat \ {0}
    BY GeometryAssumption DEF KernelBlocks
  <2>3. 0 \in bootMap
    BY <2>1, <2>2 DEF Run
  <2>4. ASSUME NEW b \in held PROVE b.base * BlockSize # nullptr
    <3>0. b \in [base : 0 .. AddrBlocks - 1, size : Requests \ {0}]
      BY DEF TypeOK
    <3>. b.size \in Nat \ {0}
      BY <3>0, InputAssumption
    <3>1. b.base \in Nat
      BY <3>0, GeometryAssumption
    <3>2. b.base \in HeldBlocks
      BY <3>1 DEF HeldBlocks, Span, Run
    <3>3. b.base \in Nat \ {0}
      BY <2>1, <2>3, <3>1, <3>2
    <3>4. QED
      BY <3>3, GeometryAssumption DEF nullptr
  <2>5. QED
    BY <2>1, <2>4 DEF KernelReserved
<1>2. QED
  BY <1>1, IInvInvariant, PTL

-----------------------------------------------------------------------------
\* getFreePhysicalPage and freePage implement the abstract block allocator:
\* every step of the machine hands out a free block, takes a held one back, or
\* leaves the held blocks alone.
THEOREM Refinement == Spec => ImplementsAllocator
<1>1. Init => Blocks!Init
  BY DEF Init, Blocks!Init
<1>2. IInv /\ [Next]_pmmVars => [Blocks!Next]_held
  <2> SUFFICES ASSUME TypeOK, Reservation, [Next]_pmmVars PROVE [Blocks!Next]_held
    BY DEF IInv
  <2>1. ASSUME NEW size \in Requests, Allocate(size) PROVE Blocks!Next
    <3>1. PICK frame \in FreeRuns(size) : held' = held \cup {[base |-> frame, size |-> size]}
      BY <2>1 DEF Allocate
    <3>2. PICK n : n = [base |-> frame, size |-> size]
      OBVIOUS
    <3>3. n \in [base : 0 .. AddrBlocks - 1, size : Requests \ {0}]
      BY <3>2, FreeRunIsFree
    <3>4. Blocks!Span(n) \cap memoryMap = {}
      BY <3>2, FreeRunIsFree DEF Blocks!Span, Run
    <3>5. \A h \in held : Blocks!Span(h) \subseteq memoryMap
      BY <2>1 DEF Allocate, Reservation, BitmapExact, HeldBlocks, Span, Run, Blocks!Span
    <3>6. Blocks!Hand(n)
      BY <3>1, <3>2, <3>4, <3>5 DEF Blocks!Hand
    <3>7. QED
      BY <3>3, <3>6 DEF Blocks!Next
  <2>2. ASSUME NEW b \in held, FreePage(b) PROVE Blocks!Next
    BY <2>2 DEF FreePage, TypeOK, Blocks!Next, Blocks!TakeBack
  <2>3. ASSUME \/ CountRegion \/ FillMap \/ AddRegion \/ ReserveKernel
               \/ \E size \in Requests : Refuse(size)
               \/ UNCHANGED pmmVars
        PROVE  UNCHANGED held
    BY <2>3 DEF CountRegion, FillMap, AddRegion, ReserveKernel, Refuse, pmmVars
  <2>4. QED
    BY <2>1, <2>2, <2>3 DEF Next
<1>3. QED
  BY <1>1, <1>2, IInvInvariant, PTL DEF Spec, ImplementsAllocator, Blocks!Spec

-----------------------------------------------------------------------------
(***************************************************************************)
(* Boot's survey of the memory map.  What a bit of the map is after the    *)
(* first entries is decided by the last of them that counts for it, or     *)
(* by the pattern memset left if none does.                                *)
(***************************************************************************)
\* The blocks an entry counts for in initPMM: setRegionUsed and setRegionFree
\* round its start and its length down.
Counts(region, b) == b \in Run(region.addr \div BlockSize, region.len \div BlockSize)
AvailableBefore(e, b) ==
  \E i \in DOMAIN grubMap :
    /\ i < e /\ grubMap[i].available /\ Counts(grubMap[i], b)
    /\ \A j \in DOMAIN grubMap : i < j /\ j < e => ~Counts(grubMap[j], b)
UndescribedBefore(e, b) == \A i \in DOMAIN grubMap : i < e => ~Counts(grubMap[i], b)
LeftClear(b) == b \div ByteBits \in 1 .. maxBlocks \div ByteBits => b % ByteBits >= ByteBits \div 2

Surveyed(map, e) ==
  BelowLimit => \A b \in Nat :
    /\ b \notin map => AvailableBefore(e, b) \/ (UndescribedBefore(e, b) /\ LeftClear(b))
    /\ AvailableBefore(e, b) /\ b \in map => b \in Run(0, KernelBlocks)

\* An answer "no block" stands while no block is free, or the counter is 0.
Survey ==
  /\ pc = "regions" => Surveyed(memoryMap, entry)
  /\ pc = "reserve" => Surveyed(memoryMap, Len(grubMap) + 1)
  /\ pc = "ready" => Surveyed(bootMap, Len(grubMap) + 1)
  /\ pc # "ready" => reply = NoReply
  /\ reply = [size |-> 1, addr |-> nullptr] /\ GetFreeBlockCount # 0 => FreeRuns(1) = {}

\* Below the limit the lower halves of an entry's fields are all of them.
LEMMA CoveredFrames ==
  ASSUME BelowLimit, grubMap \in Seq(Region), NEW i \in DOMAIN grubMap
  PROVE  /\ Frames(grubMap[i]) \subseteq Nat
         /\ \A b \in Nat : b \in Frames(grubMap[i]) <=> Counts(grubMap[i], b)
<1> DEFINE r == grubMap[i]
<1>0. r \in Region /\ r.addr + r.len < AddressSpace
  BY DEF BelowLimit
<1> HIDE DEF r
<1>1. r \in Region /\ r.addr \in Nat /\ r.len \in Nat /\ r.addr + r.len < AddressSpace
  BY <1>0 DEF Region
<1>2. r.addr \in 0 .. AddressSpace - 1 /\ r.len \in 0 .. AddressSpace - 1 /\ AddressSpace \in Nat \ {0}
  <2>1. AddressSpace \in Nat \ {0}
    BY LowIsAddress
  <2> QED BY <1>1, <2>1
<1>3. Low(r.addr) = r.addr /\ Low(r.len) = r.len
  BY <1>2 DEF Low
<1>4. Frames(r) \subseteq Nat
  BY <1>1, FramesFinite
<1> QED BY <1>3, <1>4 DEF Frames, Counts, r

\* The bits memset touches are those of the bytes from the second one on.
LEMMA TouchedBytes ==
  ASSUME NEW bytes \in Nat, NEW b \in Nat, b \div ByteBits \in 1 .. bytes
  PROVE  b \in Run(ByteBits, ByteBits * bytes)
<1>1. PICK q \in 1 .. bytes : q = b \div ByteBits
  OBVIOUS
<1>2. ByteBits \in Nat \ {0} /\ ByteBits * q <= b /\ b < ByteBits * q + ByteBits
  BY <1>1, GeometryAssumption
<1>3. PICK d \in Nat : bytes = q + d
  <2>1. bytes - q \in Nat /\ bytes = q + (bytes - q)
    BY <1>1
  <2> QED BY <2>1
<1>4. PICK c \in Nat : q = 1 + c
  <2>1. q - 1 \in Nat /\ q = 1 + (q - 1)
    BY <1>1
  <2> QED BY <2>1
<1>5. /\ ByteBits * bytes = ByteBits * q + ByteBits * d /\ ByteBits * d \in Nat
      /\ ByteBits * q = ByteBits + ByteBits * c /\ ByteBits * c \in Nat
  BY <1>2, <1>3, <1>4
<1> DEFINE x == ByteBits * bytes
           y == ByteBits * q
           z == ByteBits * d
           w == ByteBits * c
<1>6. x = y + z /\ z \in Nat /\ y = ByteBits + w /\ w \in Nat /\ y <= b /\ b < y + ByteBits
  BY <1>2, <1>5
<1>7. b \in ByteBits .. ByteBits + x - 1
  <2> HIDE DEF x, y, z, w
  <2> QED BY <1>2, <1>6
<1> QED BY <1>7 DEF Run

LEMMA SurveyInit == Init => Survey
BY DEF Init, Survey, NoReply, nullptr

LEMMA SurveyInductive == IInv /\ Survey /\ [Next]_pmmVars => Survey'
<1> SUFFICES ASSUME IInv, Survey, [Next]_pmmVars PROVE Survey'
  OBVIOUS
<1>0. grubMap \in Seq(Region) /\ entry \in Nat \ {0} /\ grubMap' = grubMap
  BY DEF IInv, TypeOK, Next, pmmVars, CountRegion, FillMap, AddRegion, ReserveKernel, Allocate, Refuse,
     FreePage
<1>1. CASE CountRegion
  BY <1>1 DEF CountRegion, Survey, NoReply
<1>2. CASE FillMap
  <2> DEFINE bytes == (memorySize \div BlockSize) \div ByteBits
  <2>1. /\ pc' = "regions" /\ entry' = 1 /\ memoryMap' = Filled(memoryMap, bytes)
        /\ maxBlocks' = memorySize \div BlockSize /\ reply' = reply /\ reply = NoReply
    BY <1>2 DEF FillMap, Survey
  <2>2. bytes \in Nat
    <3>1. PICK blocks \in 0 .. AddrBlocks - 1 : blocks = memorySize \div BlockSize
      BY BlockIndex DEF IInv, TypeOK
    <3>2. blocks \div ByteBits \in Nat
      BY GeometryAssumption
    <3> QED BY <3>1, <3>2
  <2>3. ASSUME NEW b \in Nat, b \notin memoryMap' PROVE LeftClear(b)'
    <3>1. b \div ByteBits \in 1 .. bytes => b \in Run(ByteBits, ByteBits * bytes)
      BY <2>2, TouchedBytes
    <3> HIDE DEF bytes
    <3>2. b \div ByteBits \in 1 .. bytes => ~(b % ByteBits < ByteBits \div 2)
      BY <2>1, <2>3, <3>1 DEF Filled
    <3>3. b % ByteBits \in Int /\ ByteBits \div 2 \in Int
      BY GeometryAssumption
    <3> QED BY <2>1, <3>2, <3>3 DEF LeftClear, bytes
  <2>4. \A b \in Nat : ~AvailableBefore(1, b)' /\ UndescribedBefore(1, b)'
    BY <1>0 DEF AvailableBefore, UndescribedBefore
  <2>5. Surveyed(memoryMap, entry)'
    BY <2>1, <2>3, <2>4 DEF Surveyed
  <2> QED BY <2>1, <2>5 DEF Survey, NoReply
<1>3. CASE AddRegion
  <2>1. CASE entry <= Len(grubMap)
    <3> DEFINE F == Frames(grubMap[entry])
    <3>1. entry \in DOMAIN grubMap
      BY <1>0, <2>1
    <3>2. /\ pc = "regions" /\ pc' = "regions" /\ entry' = entry + 1 /\ reply' = reply /\ reply = NoReply
          /\ maxBlocks' = maxBlocks
          /\ grubMap[entry].available => memoryMap' = memoryMap \ F
          /\ ~grubMap[entry].available => memoryMap' = memoryMap \cup F \cup {0}
      BY <1>3, <2>1 DEF AddRegion, MarkRegion, SetRegionFree, SetRegionUsed, Survey
    <3>3. ASSUME BelowLimit PROVE \A b \in Nat : b \in F <=> Counts(grubMap[entry], b)
      BY <1>0, <3>1, <3>3, CoveredFrames
    <3> HIDE DEF F
    <3>4. \A b \in Nat : AvailableBefore(entry + 1, b) <=>
            IF Counts(grubMap[entry], b) THEN grubMap[entry].available ELSE AvailableBefore(entry, b)
      BY <1>0, <3>1 DEF AvailableBefore
    <3>5. \A b \in Nat : UndescribedBefore(entry + 1, b) <=>
            UndescribedBefore(entry, b) /\ ~Counts(grubMap[entry], b)
      BY <1>0, <3>1 DEF UndescribedBefore
    <3>6. 0 \in Run(0, KernelBlocks)
      BY GeometryAssumption DEF Run, KernelBlocks
    <3>7. Surveyed(memoryMap', entry + 1)
      <4> SUFFICES ASSUME BelowLimit, NEW b \in Nat
                   PROVE  /\ b \notin memoryMap' =>
                               \/ AvailableBefore(entry + 1, b)
                               \/ UndescribedBefore(entry + 1, b) /\ LeftClear(b)
                          /\ AvailableBefore(entry + 1, b) /\ b \in memoryMap' => b \in Run(0, KernelBlocks)
        BY DEF Surveyed
      <4>1. /\ b \notin memoryMap => AvailableBefore(entry, b) \/ (UndescribedBefore(entry, b) /\ LeftClear(b))
            /\ AvailableBefore(entry, b) /\ b \in memoryMap => b \in Run(0, KernelBlocks)
        BY <3>2 DEF Survey, Surveyed
      <4>2. b \in F <=> Counts(grubMap[entry], b)
        BY <3>3
      <4>3. CASE Counts(grubMap[entry], b)
        BY <3>2, <3>4, <4>2, <4>3
      <4>4. CASE ~Counts(grubMap[entry], b)
        BY <3>2, <3>4, <3>5, <3>6, <4>1, <4>2, <4>4
      <4> QED BY <4>3, <4>4
    <3>8. Surveyed(memoryMap, entry)'
      BY <1>0, <3>2, <3>7
         DEF Surveyed, BelowLimit, AvailableBefore, UndescribedBefore, LeftClear
    <3> QED BY <3>2, <3>8 DEF Survey, NoReply
  <2>2. CASE ~(entry <= Len(grubMap))
    <3>1. /\ pc = "regions" /\ pc' = "reserve" /\ UNCHANGED <<reply, maxBlocks, memoryMap>> /\ reply = NoReply
      BY <1>3, <2>2 DEF AddRegion, Survey
    <3>2. Surveyed(memoryMap, Len(grubMap) + 1)
      <4>1. \A i \in DOMAIN grubMap : i < entry /\ i < Len(grubMap) + 1
        BY <1>0, <2>2
      <4> QED BY <3>1, <4>1 DEF Survey, Surveyed, AvailableBefore, UndescribedBefore
    <3>3. Surveyed(memoryMap, Len(grubMap) + 1)'
      BY <1>0, <3>1, <3>2 DEF Surveyed, BelowLimit, AvailableBefore, UndescribedBefore, LeftClear
    <3> QED BY <3>1, <3>3 DEF Survey, NoReply
  <2> QED BY <2>1, <2>2
<1>4. CASE ReserveKernel
  <2>1. /\ pc = "reserve" /\ pc' = "ready" /\ UNCHANGED <<reply, maxBlocks>> /\ reply = NoReply
        /\ bootMap' = memoryMap \cup Run(0, KernelBlocks) \cup {0}
    BY <1>4 DEF ReserveKernel, SetRegionUsed, LowBlocks, Survey
  <2>2. 0 \in Run(0, KernelBlocks)
    BY GeometryAssumption DEF Run, KernelBlocks
  <2>3. Surveyed(bootMap', Len(grubMap) + 1)
    BY <2>1, <2>2 DEF Survey, Surveyed
  <2>4. Surveyed(bootMap, Len(grubMap) + 1)'
    BY <1>0, <2>1, <2>3 DEF Surveyed, BelowLimit, AvailableBefore, UndescribedBefore, LeftClear
  <2> QED BY <2>1, <2>4 DEF Survey, NoReply
\* From then on the survey stands: neither it nor the boot map changes.
<1>5. ASSUME pc = "ready", pc' = "ready", UNCHANGED <<bootMap, maxBlocks>>
      PROVE  Surveyed(bootMap, Len(grubMap) + 1)'
  BY <1>0, <1>5 DEF Survey, Surveyed, BelowLimit, AvailableBefore, UndescribedBefore, LeftClear
<1>6. ASSUME NEW size \in Requests, Allocate(size) PROVE Survey'
  <2>1. pc = "ready" /\ pc' = "ready" /\ UNCHANGED <<bootMap, maxBlocks>>
    BY <1>6 DEF Allocate
  <2>2. PICK frame \in FreeRuns(size) : reply' = [size |-> size, addr |-> frame * BlockSize]
    BY <1>6 DEF Allocate
  <2>3. frame \in Nat /\ size \in Nat \ {0} /\ Run(frame, size) \cap memoryMap = {}
    BY FreeRunIsFree, GeometryAssumption DEF IInv
  <2>4. 0 \in memoryMap
    BY <2>1, GeometryAssumption DEF IInv, Reservation, BitmapExact, Run, KernelBlocks
  <2>5. frame # 0
    BY <2>3, <2>4 DEF Run
  <2>6. frame * BlockSize # 0
    BY <2>3, <2>5, GeometryAssumption
  <2> QED BY <1>5, <2>1, <2>2, <2>6 DEF Survey, nullptr
<1>7. ASSUME NEW size \in Requests, Refuse(size) PROVE Survey'
  <2>1. /\ pc = "ready" /\ pc' = "ready"
        /\ UNCHANGED <<bootMap, maxBlocks, usedBlocks, memoryMap>>
        /\ GetFreeBlockCount <= 0 \/ FreeRuns(size) = {}
        /\ reply' = [size |-> size, addr |-> nullptr]
    BY <1>7 DEF Refuse
  <2>2. GetFreeBlockCount \in Nat
    <3>1. maxBlocks - usedBlocks \in Int
      BY GeometryAssumption DEF IInv, TypeOK
    <3> QED BY <3>1, WrappedIsCounter, GeometryAssumption DEF GetFreeBlockCount
  <2>3. GetFreeBlockCount' = GetFreeBlockCount /\ FreeRuns(1)' = FreeRuns(1)
    BY <2>1 DEF GetFreeBlockCount, FreeRuns, Scanned, RunIsFree
  <2>4. GetFreeBlockCount # 0 => FreeRuns(size) = {}
    BY <2>1, <2>2
  <2> QED BY <1>5, <2>1, <2>3, <2>4 DEF Survey
<1>8. ASSUME NEW b \in held, FreePage(b) PROVE Survey'
  <2>1. pc = "ready" /\ pc' = "ready" /\ UNCHANGED <<bootMap, maxBlocks>> /\ reply' = NoReply
    BY <1>8 DEF FreePage
  <2> QED BY <1>5, <2>1 DEF Survey, NoReply
<1>9. CASE UNCHANGED pmmVars
  BY <1>9 DEF pmmVars, Survey, Surveyed, BelowLimit, AvailableBefore, UndescribedBefore, LeftClear,
     GetFreeBlockCount, FreeRuns, Scanned, RunIsFree
<1> QED BY <1>1, <1>2, <1>3, <1>4, <1>6, <1>7, <1>8, <1>9 DEF Next

LEMMA SurveyInvariant == Spec => [](IInv /\ Survey)
<1>1. Init => IInv /\ Survey
  BY TypeInit, ReservationInit, SurveyInit DEF IInv
<1>2. IInv /\ Survey /\ [Next]_pmmVars => (IInv /\ Survey)'
  BY TypeInductive, ReservationInductive, SurveyInductive DEF IInv
<1> QED BY <1>1, <1>2, PTL DEF Spec

\* The addresses of a block are a few in a row.
LEMMA BlockAddresses ==
  ASSUME NEW b \in Nat
  PROVE  /\ BlockSize * b \in Nat
         /\ BlockSize * b \in Addresses(b)
         /\ \A a : a \in Addresses(b) <=> a \in Nat /\ BlockSize * b <= a /\ a < BlockSize * b + BlockSize
<1> DEFINE x == BlockSize * b
<1>1. x \in Nat /\ BlockSize \in Nat \ {0} /\ b * BlockSize = x
  BY GeometryAssumption
<1>2. Addresses(b) = x .. x + BlockSize - 1
  BY <1>1 DEF Addresses, Run
<1> HIDE DEF x
<1>3. x \in Addresses(b) /\ \A a : a \in Addresses(b) <=> a \in Nat /\ x <= a /\ a < x + BlockSize
  BY <1>1, <1>2
<1> QED BY <1>1, <1>3 DEF x

\* Away from the ragged ends of an entry rounding makes no difference: the entry
\* counts for a block if it describes all of its addresses, or any of them.
LEMMA EvenEnds ==
  ASSUME NEW r \in Region, NEW b \in Nat, ~Ragged(r, b), NEW a \in Addresses(b)
  PROVE  Describes(r, a) <=> Counts(r, b)
<1>0. /\ BlockSize \in Nat \ {0}
      /\ r.addr \in Nat /\ r.len \in Nat
  BY GeometryAssumption DEF Region
<1>1. PICK q \in Nat : /\ q = r.addr \div BlockSize
                       /\ BlockSize * q <= r.addr /\ r.addr < BlockSize * q + BlockSize
  BY <1>0
<1>2. PICK l \in Nat : l = r.len \div BlockSize /\ BlockSize * l <= r.len
  BY <1>0
<1> DEFINE x == BlockSize * b
           y == BlockSize * q
           z == BlockSize * l
<1>3. x \in Nat /\ y \in Nat /\ z \in Nat /\ b * BlockSize = x
  BY <1>0
<1>4. y <= r.addr /\ r.addr < y + BlockSize /\ z <= r.len
  BY <1>1, <1>2
<1>5. b < q => x + BlockSize <= y
  <2>1. ASSUME b < q PROVE x + BlockSize <= y
    <3>1. PICK d \in Nat : q = b + 1 + d
      <4>1. q - b - 1 \in Nat /\ q = b + 1 + (q - b - 1)
        BY <2>1
      <4> QED BY <4>1
    <3>2. y = x + BlockSize + BlockSize * d /\ BlockSize * d \in Nat
      BY <1>0, <3>1
    <3> QED BY <1>0, <1>3, <3>2
  <2> QED BY <2>1
<1>6. q < b => y + BlockSize <= x
  <2>1. ASSUME q < b PROVE y + BlockSize <= x
    <3>1. PICK d \in Nat : b = q + 1 + d
      <4>1. b - q - 1 \in Nat /\ b = q + 1 + (b - q - 1)
        BY <2>1
      <4> QED BY <4>1
    <3>2. x = y + BlockSize + BlockSize * d /\ BlockSize * d \in Nat
      BY <1>0, <3>1
    <3> QED BY <1>0, <1>3, <3>2
  <2> QED BY <2>1
<1>7. b < q + l => x + BlockSize <= y + z
  <2>1. ASSUME b < q + l PROVE x + BlockSize <= y + z
    <3>1. PICK d \in Nat : q + l = b + 1 + d
      <4>1. q + l - b - 1 \in Nat /\ q + l = b + 1 + (q + l - b - 1)
        BY <2>1
      <4> QED BY <4>1
    <3>2. BlockSize * (q + l) = BlockSize * (b + 1 + d)
      BY <3>1
    <3>3. y + z = x + BlockSize + BlockSize * d /\ BlockSize * d \in Nat
      BY <1>0, <3>2
    <3> QED BY <1>0, <1>3, <3>3
  <2> QED BY <2>1
<1>8. a \in Nat /\ x <= a /\ a < x + BlockSize
  BY BlockAddresses
<1>9. Counts(r, b) <=> q <= b /\ b < q + l
  BY <1>1, <1>2 DEF Counts, Run
<1>10. \A n \in Nat : Describes(r, n) <=> r.addr <= n /\ n < r.addr + r.len
  BY <1>0 DEF Describes, Run
<1>11. (\E n \in Addresses(b) : Describes(r, n)) => r.addr <= x /\ b < q + l
  BY <1>0, <1>1, <1>2, <1>3 DEF Ragged, Touches
<1> HIDE DEF x, y, z
<1>12. ASSUME Describes(r, a) PROVE Counts(r, b)
  <2>1. r.addr <= x /\ b < q + l
    BY <1>11, <1>12
  <2>2. ~(b < q)
    BY <1>0, <1>3, <1>4, <1>5, <2>1
  <2> QED BY <1>9, <2>1, <2>2
<1>13. ASSUME Counts(r, b) PROVE Describes(r, a)
  <2>1. q <= b /\ x + BlockSize <= y + z
    BY <1>7, <1>9, <1>13
  <2>2. r.addr <= x
    <3>1. CASE q < b
      BY <1>0, <1>3, <1>4, <1>6, <3>1
    <3>2. CASE q = b
      <4>1. x = y
        BY <3>2 DEF x, y
      <4> DEFINE n == x + BlockSize - 1
      <4>2. n \in Nat /\ x <= n /\ n < x + BlockSize /\ r.addr <= n /\ n < r.addr + r.len
        BY <1>0, <1>3, <1>4, <2>1, <4>1
      <4>3. n \in Addresses(b)
        BY <4>2, BlockAddresses DEF x
      <4> HIDE DEF n
      <4>4. Describes(r, n)
        BY <1>10, <4>2
      <4> QED BY <1>11, <4>3, <4>4
    <3> QED BY <2>1, <3>1, <3>2
  <2> QED BY <1>0, <1>3, <1>4, <1>8, <1>10, <2>1, <2>2
<1> QED BY <1>12, <1>13

\* Before the entry behind the last one stands the whole memory map, and away
\* from ragged ends what boot makes of it is what it says address by address.
LEMMA WholeMap ==
  ASSUME grubMap \in Seq(Region), NEW b \in Nat, ~AtRaggedEnd(b)
  PROVE  /\ AvailableBefore(Len(grubMap) + 1, b) <=> Available(b)
         /\ UndescribedBefore(Len(grubMap) + 1, b) <=> Undescribed(b)
<1>1. \A i \in DOMAIN grubMap : i \in Nat /\ i < Len(grubMap) + 1
  OBVIOUS
<1>2. \A i \in DOMAIN grubMap, a \in Addresses(b) : Describes(grubMap[i], a) <=> Counts(grubMap[i], b)
  <2>1. TAKE i \in DOMAIN grubMap, a \in Addresses(b)
  <2>2. grubMap[i] \in Region /\ ~Ragged(grubMap[i], b)
    BY DEF AtRaggedEnd
  <2> QED BY <2>2, EvenEnds
<1>3. PICK a0 : a0 \in Addresses(b)
  BY BlockAddresses
<1>4. AvailableBefore(Len(grubMap) + 1, b) <=>
        \E i \in DOMAIN grubMap : /\ grubMap[i].available /\ Counts(grubMap[i], b)
                                  /\ \A j \in DOMAIN grubMap : j > i => ~Counts(grubMap[j], b)
  BY <1>1 DEF AvailableBefore
<1>5. \A a \in Addresses(b) : AvailableAt(a) <=> AvailableBefore(Len(grubMap) + 1, b)
  BY <1>2, <1>4 DEF AvailableAt
<1>6. UndescribedBefore(Len(grubMap) + 1, b) <=> \A i \in DOMAIN grubMap : ~Counts(grubMap[i], b)
  BY <1>1 DEF UndescribedBefore
<1> QED BY <1>2, <1>3, <1>5, <1>6 DEF Available, Undescribed

\* On a machine without memory above the limit, callers are only ever given
\* blocks every address of which the last entry that describes it calls
\* available, or blocks that no entry touches and memset's pattern leaves clear,
\* whatever the RAM held before boot.  The ends of entries that do not lie on
\* block boundaries are excepted, and only they: with a memory map of whole
\* blocks the theorem has no exception.
THEOREM OnlyAvailableMemory == Spec => []HandedOutMemory
<1>1. IInv /\ Survey => HandedOutMemory
  <2> SUFFICES ASSUME IInv, Survey, BelowLimit, pc = "ready", NEW b \in HeldBlocks, ~AtRaggedEnd(b)
               PROVE  Available(b) \/ (Undescribed(b) /\ LeftClear(b))
    BY DEF HandedOutMemory, LeftClear
  <2>1. b \notin bootMap
    BY DEF IInv, Reservation, BitmapExact
  <2>2. b \in Nat
    BY DEF IInv, Reservation, BitmapExact, TypeOK
  <2>3. grubMap \in Seq(Region)
    BY DEF IInv, TypeOK
  <2> QED BY <2>1, <2>2, <2>3, WholeMap DEF Survey, Surveyed
<1> QED BY <1>1, SurveyInvariant, PTL

\* A refusal of one block while the counter is not 0 is honest: no sequence of
\* allocations and frees, and no order of the entries, has mislaid a block of
\* available memory in the words that are searched, unless an entry's ragged end
\* lies in it.
THEOREM RefusalIsHonest == Spec => []RefusalMeansHeld
<1>1. IInv /\ Survey => RefusalMeansHeld
  <2> SUFFICES ASSUME IInv, Survey, BelowLimit, pc = "ready", reply = [size |-> 1, addr |-> nullptr],
                      GetFreeBlockCount # 0, NEW b \in Scanned, Available(b), ~AtRaggedEnd(b)
               PROVE  b \in HeldBlocks \cup Run(0, KernelBlocks)
    BY DEF RefusalMeansHeld
  <2>1. b \in Nat
    <3>1. WordBits * (maxBlocks \div WordBits) \in Nat
      BY GeometryAssumption DEF IInv, TypeOK
    <3> QED BY <3>1, RunFinite DEF Scanned
  <2>2. b \in memoryMap
    <3>1. ~RunIsFree(b, 1)
      BY DEF Survey, FreeRuns
    <3>2. \A k \in Run(0, 1) : b + k = b
      BY <2>1 DEF Run
    <3> QED BY <3>1, <3>2 DEF RunIsFree
  <2>3. b \in bootMap => b \in Run(0, KernelBlocks)
    <3>1. grubMap \in Seq(Region)
      BY DEF IInv, TypeOK
    <3> QED BY <2>1, <3>1, WholeMap DEF Survey, Surveyed
  <2> QED BY <2>2, <2>3 DEF IInv, Reservation, BitmapExact
<1> QED BY <1>1, SurveyInvariant, PTL

-----------------------------------------------------------------------------
(***************************************************************************)
(* initVMM.  From here on the theorems are about VMM.                      *)
(***************************************************************************)
Entries == [present : BOOLEAN, frame : 0 .. AddrBlocks - 1]
Tables == [Window -> [Window -> Entries]]

\* The directory entry of the heap, and how many heap pages have been mapped.
HeapIndex == KernelIndex + 1
HeapTable == tables[dir][HeapIndex]
Pages == virtualAddress - HeapPage + IF step = "next" THEN 1 ELSE 0

-----------------------------------------------------------------------------
\* Where the window's and the heap's pages are in directory and tables.
LEMMA Indices ==
  /\ KernelPage \in Nat /\ HeapPage \in Nat /\ HeapPage = KernelPage + PerTable
  /\ \A i \in Window : DirIndex(KernelPage + i) = KernelIndex /\ TableIndex(KernelPage + i) = i
  /\ \A i \in Window : DirIndex(HeapPage + i) = HeapIndex /\ TableIndex(HeapPage + i) = i
<1>1. KernelPage \in Nat /\ HeapPage = HeapIndex * PerTable /\ HeapPage \in Nat /\ HeapIndex \in Nat
  BY PagingAssumption DEF KernelPage, HeapPage, HeapIndex
<1>2. PerTable \in Nat \ {0} /\ KernelIndex \in Nat /\ Window = 0 .. PerTable - 1
  BY PagingAssumption DEF Window
<1>3. ASSUME NEW i \in Window
      PROVE  DirIndex(KernelPage + i) = KernelIndex /\ TableIndex(KernelPage + i) = i
  BY <1>2, DivMod DEF DirIndex, TableIndex, KernelPage
<1>4. ASSUME NEW i \in Window
      PROVE  DirIndex(HeapPage + i) = HeapIndex /\ TableIndex(HeapPage + i) = i
  BY <1>1, <1>2, DivMod DEF DirIndex, TableIndex
<1> QED BY <1>1, <1>3, <1>4 DEF HeapPage

\* A single entry of a single table is written.
WithEntry(t, f, i, e) == [t EXCEPT ![f][i] = e]

LEMMA Written ==
  ASSUME NEW t \in Tables, NEW f \in Window, NEW i \in Window, NEW e \in Entries
  PROVE  /\ WithEntry(t, f, i, e) \in Tables
         /\ \A g, j \in Window :
              WithEntry(t, f, i, e)[g][j] = IF g = f /\ j = i THEN e ELSE t[g][j]
<1>1. t[f] \in [Window -> Entries]
  BY DEF Tables
<1>2. PICK row : row = [t[f] EXCEPT ![i] = e]
  OBVIOUS
<1>3. row \in [Window -> Entries] /\ \A j \in Window : row[j] = IF j = i THEN e ELSE t[f][j]
  BY <1>1, <1>2
<1>4. WithEntry(t, f, i, e) = [t EXCEPT ![f] = row]
  BY <1>2, Zenon DEF WithEntry
<1> QED BY <1>3, <1>4 DEF Tables

\* A whole table is written.
LEMMA Replaced ==
  ASSUME NEW t \in Tables, NEW f \in Window, NEW row \in [Window -> Entries]
  PROVE  /\ [t EXCEPT ![f] = row] \in Tables
         /\ \A g, j \in Window : [t EXCEPT ![f] = row][g][j] = IF g = f THEN row[j] ELSE t[g][j]
BY DEF Tables

LEMMA EntryIs ==
  ASSUME NEW present \in BOOLEAN, NEW frame \in 0 .. AddrBlocks - 1
  PROVE  /\ Entry(present, frame) \in Entries
         /\ Entry(present, frame).present = present /\ Entry(present, frame).frame = frame
BY DEF Entry, Entries

\* memset leaves the first entry of the frame and clears the next frame's.
LEMMA ClearedIs ==
  ASSUME NEW t \in Tables, NEW f \in Window
  PROVE  /\ Cleared(t, f) \in Tables
         /\ \A i \in Window : i # 0 => ~Cleared(t, f)[f][i].present
         /\ Cleared(t, f)[f][0].present => t[f][0].present
         /\ f + 1 \in Window => ~Cleared(t, f)[f + 1][0].present
         /\ \A g, i \in Window : g # f /\ g # f + 1 => Cleared(t, f)[g][i] = t[g][i]
<1>1. DOMAIN t = Window /\ \A g, i \in Window : t[g][i] \in Entries
  BY DEF Tables
<1>2. 0 \in Window /\ 0 \in 0 .. AddrBlocks - 1 /\ \A g \in Window : g # g + 1
  BY PagingAssumption, GeometryAssumption DEF Window
<1> DEFINE e(g, i) == IF g = f THEN Entry(i = 0 /\ t[f][0].present, 0)
                      ELSE IF g = f + 1 /\ i = 0 THEN Entry(FALSE, t[g][0].frame)
                      ELSE t[g][i]
<1>3. Cleared(t, f) = [g \in Window |-> [i \in Window |-> e(g, i)]]
  BY <1>1 DEF Cleared
<1>4. ASSUME NEW g \in Window, NEW i \in Window PROVE e(g, i) \in Entries
  <2>1. (i = 0 /\ t[f][0].present) \in BOOLEAN
    OBVIOUS
  <2>2. Entry(i = 0 /\ t[f][0].present, 0) \in Entries
    BY <1>2, <2>1, EntryIs, Zenon
  <2>3. t[g][0].frame \in 0 .. AddrBlocks - 1
    BY <1>1, <1>2 DEF Entries
  <2>4. Entry(FALSE, t[g][0].frame) \in Entries
    BY <2>3, EntryIs, Zenon
  <2> QED BY <1>1, <2>2, <2>4, Zenon
<1>5. Cleared(t, f) \in Tables
  <2> HIDE DEF e
  <2> QED BY <1>3, <1>4 DEF Tables
<1>6. \A g, i \in Window : Cleared(t, f)[g][i] = e(g, i)
  <2> HIDE DEF e
  <2> QED BY <1>3
<1>7. \A i \in Window : e(f, i).present => i = 0 /\ t[f][0].present
  BY DEF Entry
<1>8. ASSUME f + 1 \in Window PROVE ~e(f + 1, 0).present
  BY <1>2 DEF Entry
<1>9. \A g, i \in Window : g # f /\ g # f + 1 => e(g, i) = t[g][i]
  OBVIOUS
<1> HIDE DEF e
<1> QED BY <1>2, <1>5, <1>6, <1>7, <1>8, <1>9

-----------------------------------------------------------------------------
(***************************************************************************)
(* The frames initVMM gets.  It gives none back, so each lies above those  *)
(* it has: memset's write behind a new frame meets none of its structures. *)
(***************************************************************************)
OneByOne == \A h \in HeldBlocks, b \in Scanned : b <= h => b \in memoryMap

Allotment == IInv /\ pc = "ready" /\ OneByOne

LEMMA NewFrameIs ==
  ASSUME Allotment, GetPage
  PROVE  /\ Allotment' /\ NewFrame \in 0 .. AddrBlocks - 1
         /\ refused' \in BOOLEAN /\ (refused => refused')
         /\ bootMap' = bootMap
         /\ ~refused' => /\ HeldBlocks' = HeldBlocks \cup {NewFrame}
                         /\ NewFrame \notin HeldBlocks /\ NewFrame \notin LowBlocks
                         /\ \A h \in HeldBlocks : h < NewFrame
                         /\ NewFrame \in Scanned
                         /\ \A b \in Scanned : b < NewFrame => b \in memoryMap
<1>1. (Allocate(1) \/ Refuse(1)) /\ refused' = (refused \/ reply'.addr = nullptr)
  BY DEF GetPage
<1>2. IInv' /\ pc' = "ready"
  <2>1. [Next]_pmmVars
    BY <1>1, PagingAssumption DEF Next
  <2>2. IInv'
    BY <2>1, TypeInductive, ReservationInductive DEF Allotment, IInv
  <2> QED BY <1>1, <2>2 DEF Allotment, Allocate, Refuse
<1>3. refused' \in BOOLEAN /\ (refused => refused') /\ bootMap' = bootMap
  <2>1. refused' \in BOOLEAN /\ (refused => refused')
    BY <1>1, Zenon
  <2> QED BY <1>1, <2>1 DEF Allocate, Refuse
<1>4. CASE Refuse(1)
  <2>1. reply'.addr = 0
    BY <1>4 DEF Refuse, nullptr
  <2>2. refused'
    BY <1>1, <2>1 DEF nullptr
  <2>3. NewFrame = 0 /\ 0 \in 0 .. AddrBlocks - 1
    BY <2>1, GeometryAssumption DEF NewFrame
  <2>4. OneByOne'
    BY <1>4 DEF Refuse, Allotment, OneByOne, HeldBlocks, Scanned
  <2> QED BY <1>2, <1>3, <2>2, <2>3, <2>4 DEF Allotment
<1>5. CASE Allocate(1)
  <2>1. PICK frame \in FreeRuns(1) :
          /\ \A other \in FreeRuns(1) : frame <= other
          /\ memoryMap' = memoryMap \cup Run(frame, 1)
          /\ reply' = [size |-> 1, addr |-> frame * BlockSize]
          /\ held' = held \cup {[base |-> frame, size |-> 1]}
          /\ maxBlocks' = maxBlocks
    BY <1>5 DEF Allocate
  <2>2. /\ frame \in 0 .. AddrBlocks - 1 /\ frame \in Nat /\ frame \in Scanned
        /\ Run(frame, 1) \cap memoryMap = {}
    BY FreeRunIsFree, PagingAssumption, GeometryAssumption DEF Allotment, IInv, FreeRuns
  <2>3. Run(frame, 1) = {frame}
    BY <2>2 DEF Run
  <2>4. frame \notin memoryMap /\ memoryMap' = memoryMap \cup {frame}
    BY <2>1, <2>2, <2>3
  <2>5. NewFrame = frame
    <3>1. (frame * BlockSize + 0) \div BlockSize = frame
      BY <2>2, GeometryAssumption, DivMod
    <3>2. frame * BlockSize + 0 = frame * BlockSize
      BY <2>2, GeometryAssumption
    <3> QED BY <2>1, <3>1, <3>2 DEF NewFrame
  <2>6. HeldBlocks' = HeldBlocks \cup {frame}
    <3>1. PICK n : n = [base |-> frame, size |-> 1]
      OBVIOUS
    <3>2. Span(n) = {frame} /\ held' = held \cup {n}
      BY <2>1, <2>3, <3>1 DEF Span
    <3> QED BY <3>2 DEF HeldBlocks
  <2>7. /\ memoryMap = bootMap \cup HeldBlocks /\ memoryMap \subseteq Nat
        /\ Run(0, KernelBlocks) \subseteq bootMap
    BY DEF Allotment, IInv, TypeOK, Reservation, BitmapExact
  <2>8. frame \notin HeldBlocks /\ frame \notin LowBlocks
    BY <2>4, <2>7 DEF LowBlocks
  <2>9. ASSUME NEW h \in HeldBlocks PROVE h < frame
    <3>1. ~(frame <= h)
      BY <2>2, <2>4 DEF Allotment, OneByOne
    <3> QED BY <2>2, <2>7, <3>1
  <2>10. ASSUME NEW b \in Scanned, b <= frame PROVE b \in memoryMap'
    <3>1. CASE b = frame
      BY <2>4, <3>1
    <3>2. CASE b # frame
      <4>1. b \in Nat
        <5>1. WordBits * (maxBlocks \div WordBits) \in Nat
          BY GeometryAssumption DEF Allotment, IInv, TypeOK
        <5> QED BY <5>1, RunFinite DEF Scanned
      <4>2. b \notin FreeRuns(1)
        BY <2>1, <2>2, <2>10, <3>2, <4>1
      <4>3. ~RunIsFree(b, 1)
        BY <4>2 DEF FreeRuns
      <4>4. \A k \in Run(0, 1) : b + k = b
        BY <4>1 DEF Run
      <4> QED BY <2>4, <4>3, <4>4 DEF RunIsFree
    <3> QED BY <3>1, <3>2
  <2>11. OneByOne'
    <3>1. Scanned' = Scanned
      BY <2>1 DEF Scanned
    <3> QED BY <2>4, <2>6, <2>10, <3>1 DEF Allotment, OneByOne
  <2>12. ASSUME NEW b \in Scanned, b < frame PROVE b \in memoryMap
    <3>1. b \in Nat
      <4>1. WordBits * (maxBlocks \div WordBits) \in Nat
        BY GeometryAssumption DEF Allotment, IInv, TypeOK
      <4> QED BY <4>1, RunFinite DEF Scanned
    <3>2. b <= frame /\ b # frame
      BY <2>2, <2>12, <3>1
    <3> QED BY <2>4, <2>10, <3>2
  <2>13. /\ NewFrame \notin HeldBlocks /\ NewFrame \notin LowBlocks /\ NewFrame \in Scanned
         /\ \A h \in HeldBlocks : h < NewFrame
         /\ \A b \in Scanned : b < NewFrame => b \in memoryMap
         /\ HeldBlocks' = HeldBlocks \cup {NewFrame}
         /\ NewFrame \in 0 .. AddrBlocks - 1
    BY <2>2, <2>5, <2>6, <2>8, <2>9, <2>12
  <2> QED BY <1>2, <1>3, <2>11, <2>13 DEF Allotment
<1> QED BY <1>1, <1>4, <1>5

-----------------------------------------------------------------------------
(***************************************************************************)
(* The invariant.  As long as memory has not run out: the kernel's table   *)
(* is complete and in the directory, which has nothing else but the heap's *)
(* table and, possibly, the stray first entry; in the heap's table the     *)
(* pages mapped so far have frames of their own.                           *)
(***************************************************************************)
VTypes ==
  /\ step \in {"off", "table", "dir", "first", "map", "next", "done", "fault"}
  /\ tables \in Tables
  /\ table \in Window /\ dir \in Window
  /\ physicalAddress \in 0 .. AddrBlocks - 1
  /\ virtualAddress \in HeapPage .. HeapPage + HeapPages
  /\ refused \in BOOLEAN

Progress ==
  /\ step = "off" => pc # "ready"
  /\ step # "off" => Allotment
  /\ step \in {"off", "table", "dir", "first"} => virtualAddress = HeapPage
  /\ step \in {"map", "next"} => OnHeap(virtualAddress)
  /\ step = "done" => ~OnHeap(virtualAddress)

\* Between the two frames the first one is held, and what is behind it clear.
HalfWay ==
  step = "dir" => /\ table \in HeldBlocks
                  /\ table + 1 \in Window => ~tables[table + 1][0].present

KernelTable ==
  /\ table \in HeldBlocks /\ dir \in HeldBlocks /\ table < dir
  /\ tables[dir][KernelIndex].present /\ tables[dir][KernelIndex].frame = table
  /\ \A i \in Window : tables[table][i].present /\ tables[table][i].frame = i
  /\ \A i \in Window : tables[dir][i].present =>
       i \in {KernelIndex, HeapIndex} \/ (i = 0 /\ dir # table + 1)

HeapTables ==
  /\ HeapTable.present =>
       /\ HeapTable.frame \in Window /\ HeapTable.frame \in HeldBlocks
       /\ HeapTable.frame # table /\ HeapTable.frame # dir
       /\ \A i \in Window : tables[HeapTable.frame][i].present => i = 0 \/ i < Pages
  /\ \A i \in Window : i < Pages =>
       /\ HeapTable.present
       /\ tables[HeapTable.frame][i].present
       /\ tables[HeapTable.frame][i].frame \in HeldBlocks \ {table, dir, HeapTable.frame}
       /\ \A j \in Window : j < Pages /\ j # i =>
            tables[HeapTable.frame][i].frame # tables[HeapTable.frame][j].frame
  /\ step = "map" =>
       /\ physicalAddress \in HeldBlocks \ {table, dir}
       /\ HeapTable.present => physicalAddress # HeapTable.frame
       /\ \A i \in Window : i < Pages => tables[HeapTable.frame][i].frame # physicalAddress

Built == Loaded => KernelTable /\ HeapTables

VInv == VTypes /\ Progress /\ (~refused => HalfWay /\ Built)

\* The heap's pages all have an index in one table.
LEMMA HeapIndices ==
  ASSUME VTypes
  PROVE  /\ Pages \in Nat /\ virtualAddress - HeapPage \in Nat
         /\ virtualAddress \in Nat /\ KernelIndex \in Window /\ HeapIndex \in Window /\ 0 \in Window
         /\ KernelIndex # HeapIndex /\ HeapIndex # 0
         /\ HeapPages \in Nat \ {0} /\ HeapPages <= PerTable /\ PerTable \in Nat \ {0}
         /\ OnHeap(virtualAddress) =>
              /\ virtualAddress - HeapPage \in Window
              /\ DirIndex(virtualAddress) = HeapIndex
              /\ TableIndex(virtualAddress) = virtualAddress - HeapPage
         /\ Window \subseteq Nat /\ Window \subseteq 0 .. AddrBlocks - 1
<1>1. /\ HeapPage \in Nat /\ PerTable \in Nat \ {0} /\ KernelIndex \in Nat /\ KernelIndex + 1 < PerTable
      /\ HeapPages \in Nat \ {0} /\ HeapPages <= PerTable /\ PerTable <= AddrBlocks /\ AddrBlocks \in Nat
      /\ virtualAddress \in HeapPage .. HeapPage + HeapPages /\ Window = 0 .. PerTable - 1
  BY PagingAssumption, GeometryAssumption, Indices DEF VTypes, Window
<1>2. Pages \in Nat /\ virtualAddress - HeapPage \in Nat /\ virtualAddress \in Nat
  BY <1>1 DEF Pages
<1>3. ASSUME OnHeap(virtualAddress)
      PROVE  /\ virtualAddress - HeapPage \in Window
             /\ DirIndex(virtualAddress) = HeapIndex
             /\ TableIndex(virtualAddress) = virtualAddress - HeapPage
  <2>1. virtualAddress - HeapPage \in Window
    BY <1>1, <1>2, <1>3 DEF OnHeap
  <2>2. HeapPage + (virtualAddress - HeapPage) = virtualAddress
    BY <1>1, <1>2
  <2> QED BY <2>1, <2>2, Indices
<1> QED BY <1>1, <1>2, <1>3 DEF HeapIndex

\* With the kernel's table in place every frame of the window is reached.
LEMMA WindowMapped ==
  ASSUME VTypes, Loaded, KernelTable
  PROVE  \A f \in Window : Mapped(tables, KernelPage + f) /\ FrameOf(KernelPage + f) = f
<1>1. step \notin {"table", "dir"}
  BY DEF Loaded
<1>2. DOMAIN tables = Window /\ table \in Window
  BY DEF VTypes, Tables
<1> QED BY <1>1, <1>2, Indices DEF Mapped, FrameOf, KernelTable

LEMMA VInitially == VMMInit => VInv
<1> SUFFICES ASSUME VMMInit PROVE VInv
  OBVIOUS
<1>1. /\ Init /\ step = "off" /\ table = 0 /\ dir = 0 /\ physicalAddress = 0
      /\ virtualAddress = HeapPage /\ refused = FALSE
  BY DEF VMMInit
<1>2. 0 \in Window /\ 0 \in 0 .. AddrBlocks - 1 /\ HeapPages \in Nat \ {0} /\ HeapPage \in Nat
  BY PagingAssumption, GeometryAssumption, Indices DEF Window
<1>3. tables \in Tables
  <2>1. PICK garbage \in PageGarbage :
          tables = [f \in Window |-> [i \in Window |-> Entry(garbage, 0)]]
    BY DEF VMMInit
  <2>2. Entry(garbage, 0) \in Entries
    BY <1>2, EntryIs, PagingAssumption
  <2> QED BY <2>1, <2>2 DEF Tables
<1>4. refused \in BOOLEAN
  BY <1>1, Zenon
<1>5. VTypes
  BY <1>1, <1>2, <1>3, <1>4 DEF VTypes
<1>6. Progress
  BY <1>1 DEF Progress, Init
<1>7. HalfWay /\ Built
  BY <1>1 DEF HalfWay, Built, Loaded
<1> QED BY <1>5, <1>6, <1>7 DEF VInv

-----------------------------------------------------------------------------
(***************************************************************************)
(* The steps of initVMM.                                                   *)
(***************************************************************************)
LEMMA BootInductive == IInv /\ VInv /\ Boot => VInv'
<1> SUFFICES ASSUME IInv, VInv, Boot PROVE VInv'
  OBVIOUS
<1>1. /\ pc # "ready" /\ [Next]_pmmVars /\ step' = IF pc' = "ready" THEN "table" ELSE step
      /\ UNCHANGED <<tables, table, dir, physicalAddress, virtualAddress, refused>>
  BY DEF Boot, Next, CountRegion, FillMap, AddRegion, ReserveKernel
<1>2. step = "off"
  BY <1>1 DEF VInv, Progress, Allotment
<1>3. IInv' /\ held = {} /\ held' = {}
  <2>1. IInv'
    BY <1>1, TypeInductive, ReservationInductive DEF IInv
  <2> QED BY <1>1, <2>1 DEF IInv, Reservation, Boot, CountRegion, FillMap, AddRegion, ReserveKernel
<1>4. OneByOne'
  BY <1>3 DEF OneByOne, HeldBlocks
<1>5. Progress'
  BY <1>1, <1>2, <1>3, <1>4 DEF VInv, Progress, Allotment
<1>6. VTypes'
  BY <1>1, <1>2 DEF VInv, VTypes
<1>7. HalfWay' /\ Built'
  BY <1>1, <1>2 DEF HalfWay, Built, Loaded
<1> QED BY <1>5, <1>6, <1>7 DEF VInv

\* A fault leaves everything as it was, and nothing follows.
LEMMA FaultKeeps ==
  ASSUME VInv, Allotment', refused' \in BOOLEAN, Fault
  PROVE  VInv'
<1>1. VTypes'
  BY DEF VInv, VTypes, Fault
<1>2. Progress' /\ HalfWay' /\ Built'
  BY DEF Progress, HalfWay, Built, Loaded, Fault
<1> QED BY <1>1, <1>2 DEF VInv

LEMMA NewTableInductive == VInv /\ NewTable => VInv'
<1> SUFFICES ASSUME VInv, NewTable PROVE VInv'
  OBVIOUS
<1>1. step = "table" /\ GetPage /\ Allotment
  BY DEF NewTable, VInv, Progress
<1>2. /\ Allotment' /\ refused' \in BOOLEAN
      /\ ~refused' => HeldBlocks' = HeldBlocks \cup {NewFrame}
  BY <1>1, NewFrameIs
<1>3. CASE Clearable(tables, NewFrame)
  <2>1. /\ NewFrame \in Window /\ table' = NewFrame /\ tables' = Cleared(tables, NewFrame)
        /\ step' = "dir" /\ UNCHANGED <<dir, physicalAddress, virtualAddress>>
    BY <1>3 DEF NewTable, Clearable, Reachable
  <2>2. VTypes'
    BY <1>2, <2>1, ClearedIs DEF VInv, VTypes
  <2>3. Progress'
    BY <1>1, <1>2, <2>1 DEF VInv, Progress
  <2>4. ~refused' => HalfWay'
    BY <1>2, <2>1, ClearedIs DEF VInv, VTypes, HalfWay
  <2>5. Built'
    BY <2>1 DEF Built, Loaded
  <2> QED BY <2>2, <2>3, <2>4, <2>5 DEF VInv
<1>4. CASE ~Clearable(tables, NewFrame)
  BY <1>2, <1>4, FaultKeeps DEF NewTable
<1> QED BY <1>3, <1>4

LEMMA NewDirInductive == VInv /\ NewDir => VInv'
<1> SUFFICES ASSUME VInv, NewDir PROVE VInv'
  OBVIOUS
<1> DEFINE d == NewFrame
           cleared == Cleared(tables, d)
           filled == [cleared EXCEPT ![table] = IdentityTable]
<1>1. step = "dir" /\ GetPage /\ Allotment
  BY DEF NewDir, VInv, Progress
<1>2. /\ Allotment' /\ refused' \in BOOLEAN /\ (refused => refused')
      /\ ~refused' => /\ HeldBlocks' = HeldBlocks \cup {d}
                      /\ \A h \in HeldBlocks : h < d
  BY <1>1, NewFrameIs
<1>3. CASE Clearable(tables, NewFrame)
  <2>1. /\ d \in Window /\ dir' = d
        /\ tables' = [filled EXCEPT ![d][KernelIndex] = Entry(TRUE, table)]
        /\ step' = "first" /\ UNCHANGED <<table, physicalAddress, virtualAddress>>
    BY <1>3 DEF NewDir, Clearable, Reachable
  <2>2. /\ table \in Window /\ tables \in Tables /\ KernelIndex \in Window /\ HeapIndex \in Window
        /\ KernelIndex # HeapIndex /\ HeapIndex # 0 /\ 0 \in Window
        /\ Window \subseteq Nat /\ Window \subseteq 0 .. AddrBlocks - 1
    BY HeapIndices DEF VInv, VTypes
  <2>3. /\ cleared \in Tables
        /\ \A i \in Window : i # 0 => ~cleared[d][i].present
        /\ cleared[d][0].present => tables[d][0].present
    BY <2>1, <2>2, ClearedIs
  <2>4. /\ IdentityTable \in [Window -> Entries]
        /\ \A i \in Window : IdentityTable[i].present /\ IdentityTable[i].frame = i
    <3>1. \A i \in Window : /\ Entry(TRUE, i) \in Entries
                            /\ Entry(TRUE, i).present /\ Entry(TRUE, i).frame = i
      BY <2>2 DEF Entry, Entries
    <3> QED BY <3>1 DEF IdentityTable
  <2>5. /\ filled \in Tables
        /\ \A g, j \in Window : filled[g][j] = IF g = table THEN IdentityTable[j] ELSE cleared[g][j]
    <3> HIDE DEF cleared
    <3> QED BY <2>2, <2>3, <2>4, Replaced
  <2>6. Entry(TRUE, table) \in Entries /\ Entry(TRUE, table).present /\ Entry(TRUE, table).frame = table
    BY <2>2 DEF Entry, Entries
  <2> HIDE DEF cleared, filled, d
  <2>7. /\ tables' \in Tables
        /\ \A g, j \in Window : tables'[g][j] =
             IF g = d /\ j = KernelIndex THEN Entry(TRUE, table) ELSE filled[g][j]
    <3>1. tables' = WithEntry(filled, d, KernelIndex, Entry(TRUE, table))
      BY <2>1, Zenon DEF WithEntry
    <3>2. d \in Window /\ KernelIndex \in Window /\ filled \in Tables
      BY <2>1, <2>2, <2>5
    <3>3. PICK e \in Entries : e = Entry(TRUE, table)
      BY <2>6
    <3>4. /\ WithEntry(filled, d, KernelIndex, e) \in Tables
          /\ \A g, j \in Window : WithEntry(filled, d, KernelIndex, e)[g][j] =
               IF g = d /\ j = KernelIndex THEN e ELSE filled[g][j]
      BY <3>2, Written
    <3> QED BY <3>1, <3>3, <3>4
  <2>8. VTypes'
    BY <1>2, <2>1, <2>7 DEF VInv, VTypes
  <2>9. Progress'
    BY <1>1, <1>2, <2>1 DEF VInv, Progress
  <2>10. ASSUME ~refused' PROVE KernelTable' /\ HeapTables'
    <3>1. /\ HeldBlocks' = HeldBlocks \cup {d} /\ table \in HeldBlocks /\ table < d
          /\ table + 1 \in Window => ~tables[table + 1][0].present
      <4>1. ~refused /\ HeldBlocks' = HeldBlocks \cup {d} /\ \A h \in HeldBlocks : h < d
        BY <1>2, <2>10, Zenon
      <4>2. HalfWay
        BY <4>1 DEF VInv
      <4> QED BY <1>1, <4>1, <4>2 DEF HalfWay
    <3>2. table # d
      BY <2>1, <2>2, <3>1
    <3>3. tables'[d][KernelIndex].present /\ tables'[d][KernelIndex].frame = table
      <4>1. tables'[d][KernelIndex] = Entry(TRUE, table)
        BY <2>1, <2>2, <2>7
      <4> QED BY <2>6, <4>1, Zenon
    <3>4. \A i \in Window : tables'[table][i].present /\ tables'[table][i].frame = i
      BY <2>1, <2>2, <2>4, <2>5, <2>7, <3>2
    <3>5. \A i \in Window : i # KernelIndex => tables'[d][i] = cleared[d][i]
      BY <2>1, <2>2, <2>5, <2>7, <3>2
    <3>6. \A i \in Window : tables'[d][i].present => i = KernelIndex \/ (i = 0 /\ d # table + 1)
      BY <2>1, <2>2, <2>3, <3>1, <3>5
    <3>7. KernelTable'
      BY <2>1, <3>1, <3>3, <3>4, <3>6 DEF KernelTable
    <3>8. ~HeapTable'.present
      BY <2>1, <2>2, <3>6 DEF HeapTable
    <3>9. Pages' = 0
      BY <1>1, <2>1, Indices DEF VInv, Progress, Pages
    <3>10. HeapTables'
      <4>1. \A i \in Window : ~(i < Pages')
        BY <2>2, <3>9
      <4>2. step' # "map"
        BY <2>1
      <4> QED BY <3>8, <4>1, <4>2 DEF HeapTables
    <3> QED BY <3>7, <3>10
  <2>11. HalfWay'
    BY <2>1 DEF HalfWay
  <2> QED BY <2>8, <2>9, <2>10, <2>11 DEF VInv, Built
<1>4. CASE ~Clearable(tables, NewFrame)
  BY <1>2, <1>4, FaultKeeps DEF NewDir
<1> QED BY <1>3, <1>4

\* More frames are held: what the tables say of the kernel stays so.
LEMMA KernelTableKept ==
  ASSUME KernelTable, HeldBlocks \subseteq HeldBlocks', UNCHANGED <<table, dir>>,
         \A i \in Window : tables'[table][i] = tables[table][i],
         \A i \in Window : i # HeapIndex => tables'[dir][i] = tables[dir][i],
         KernelIndex \in Window, KernelIndex # HeapIndex
  PROVE  KernelTable'
BY DEF KernelTable

LEMMA FirstFrameInductive == VInv /\ FirstFrame => VInv'
<1> SUFFICES ASSUME VInv, FirstFrame PROVE VInv'
  OBVIOUS
<1>1. step = "first" /\ GetPage /\ Allotment /\ virtualAddress = HeapPage
  BY DEF FirstFrame, VInv, Progress
<1>2. /\ Allotment' /\ refused' \in BOOLEAN /\ (refused => refused')
      /\ NewFrame \in 0 .. AddrBlocks - 1
      /\ ~refused' => HeldBlocks' = HeldBlocks \cup {NewFrame} /\ NewFrame \notin HeldBlocks
  BY <1>1, NewFrameIs
<1>3. /\ physicalAddress' = NewFrame /\ step' = "map"
      /\ UNCHANGED <<tables, table, dir, virtualAddress>>
  BY DEF FirstFrame
<1> HIDE DEF NewFrame
<1>4. /\ Window \subseteq Nat /\ HeapPage \in Nat /\ HeapPages \in Nat \ {0}
      /\ KernelIndex \in Window /\ KernelIndex # HeapIndex
  BY HeapIndices, Indices DEF VInv
<1>5. VTypes'
  BY <1>2, <1>3 DEF VInv, VTypes
<1>6. Progress'
  BY <1>1, <1>2, <1>3, <1>4 DEF Progress, OnHeap
<1>7. Pages' = 0 /\ \A i \in Window : ~(i < Pages')
  BY <1>1, <1>3, <1>4 DEF Pages
<1>8. ASSUME ~refused' PROVE KernelTable' /\ HeapTables'
  <2>1. KernelTable /\ HeapTables /\ HeldBlocks' = HeldBlocks \cup {NewFrame} /\ NewFrame \notin HeldBlocks
    <3>1. ~refused /\ HeldBlocks' = HeldBlocks \cup {NewFrame} /\ NewFrame \notin HeldBlocks
      BY <1>2, <1>8, Zenon
    <3> QED BY <1>1, <3>1 DEF VInv, Built, Loaded
  <2>2. KernelTable'
    BY <1>3, <1>4, <2>1, KernelTableKept
  <2>3. Pages = 0
    BY <1>1, <1>4 DEF Pages
  <2>4. HeapTables'
    BY <1>3, <1>7, <2>1, <2>3 DEF HeapTables, KernelTable, HeapTable
  <2> QED BY <2>2, <2>4
<1>9. HalfWay'
  BY <1>3 DEF HalfWay
<1> QED BY <1>5, <1>6, <1>8, <1>9 DEF VInv, Built

LEMMA NextFrameInductive == VInv /\ NextFrame => VInv'
<1> SUFFICES ASSUME VInv, NextFrame PROVE VInv'
  OBVIOUS
<1>1. step = "next" /\ GetPage /\ Allotment /\ OnHeap(virtualAddress)
  BY DEF NextFrame, VInv, Progress
<1>2. /\ Allotment' /\ refused' \in BOOLEAN /\ (refused => refused')
      /\ NewFrame \in 0 .. AddrBlocks - 1
      /\ ~refused' => HeldBlocks' = HeldBlocks \cup {NewFrame} /\ NewFrame \notin HeldBlocks
  BY <1>1, NewFrameIs
<1>3. /\ physicalAddress' = NewFrame /\ virtualAddress' = virtualAddress + 1
      /\ step' = IF OnHeap(virtualAddress') THEN "map" ELSE "done"
      /\ UNCHANGED <<tables, table, dir>>
  BY DEF NextFrame, NextPhysical, NextPage
<1> HIDE DEF NewFrame
<1>4. /\ Window \subseteq Nat /\ HeapPage \in Nat /\ HeapPages \in Nat \ {0}
      /\ KernelIndex \in Window /\ KernelIndex # HeapIndex /\ virtualAddress \in Nat
  BY HeapIndices, Indices DEF VInv
<1>5. VTypes'
  BY <1>1, <1>2, <1>3, <1>4 DEF VInv, VTypes, OnHeap
<1>6. Progress'
  BY <1>1, <1>2, <1>3, <1>4 DEF Progress
<1>7. Pages' = Pages
  BY <1>1, <1>3, <1>4 DEF Pages
<1>8. ASSUME ~refused' PROVE KernelTable' /\ HeapTables'
  <2>1. KernelTable /\ HeapTables /\ HeldBlocks' = HeldBlocks \cup {NewFrame} /\ NewFrame \notin HeldBlocks
    <3>1. ~refused /\ HeldBlocks' = HeldBlocks \cup {NewFrame} /\ NewFrame \notin HeldBlocks
      BY <1>2, <1>8, Zenon
    <3> QED BY <1>1, <3>1 DEF VInv, Built, Loaded
  <2>2. KernelTable'
    BY <1>3, <1>4, <2>1, KernelTableKept
  <2>4. HeapTables'
    BY <1>3, <1>7, <2>1, ZenonT(40) DEF HeapTables, KernelTable, HeapTable
  <2> QED BY <2>2, <2>4
<1>9. HalfWay'
  BY <1>3 DEF HalfWay
<1> QED BY <1>5, <1>6, <1>8, <1>9 DEF VInv, Built

\* A table is made for the heap only when it has none, and so no page yet.
LEMMA MapNewTableInductive == VInv /\ MapNewTable => VInv'
<1> SUFFICES ASSUME VInv, MapNewTable PROVE VInv'
  OBVIOUS
<1>1. step = "map" /\ GetPage /\ Allotment /\ OnHeap(virtualAddress)
  BY DEF MapNewTable, VInv, Progress
<1>2. /\ Allotment' /\ refused' \in BOOLEAN /\ (refused => refused')
      /\ NewFrame \in 0 .. AddrBlocks - 1
      /\ ~refused' => /\ HeldBlocks' = HeldBlocks \cup {NewFrame} /\ NewFrame \notin HeldBlocks
                      /\ \A h \in HeldBlocks : h < NewFrame
  BY <1>1, NewFrameIs
<1>3. /\ Window \subseteq Nat /\ HeapPage \in Nat /\ HeapPages \in Nat \ {0} /\ 0 \in Window
      /\ KernelIndex \in Window /\ HeapIndex \in Window /\ KernelIndex # HeapIndex /\ HeapIndex # 0
      /\ DirIndex(virtualAddress) = HeapIndex /\ Pages \in Nat
      /\ tables \in Tables /\ table \in Window /\ dir \in Window
  BY <1>1, HeapIndices, Indices DEF VInv, VTypes
<1>4. ~HeapTable.present
  BY <1>3 DEF MapNewTable, HeapEntry, HeapTable
<1>5. CASE Clearable(tables, NewFrame)
  <2> DEFINE n == NewFrame
             cleared == Cleared(tables, n)
  <2>1. /\ n \in Window
        /\ tables' = [cleared EXCEPT ![dir][HeapIndex] = Entry(TRUE, n)]
        /\ UNCHANGED <<step, table, dir, physicalAddress, virtualAddress>>
    BY <1>3, <1>5 DEF MapNewTable, Clearable, Reachable
  <2>2. /\ cleared \in Tables
        /\ \A i \in Window : i # 0 => ~cleared[n][i].present
        /\ \A g, i \in Window : g # n /\ g # n + 1 => cleared[g][i] = tables[g][i]
    BY <1>3, <2>1, ClearedIs
  <2>3. Entry(TRUE, n) \in Entries /\ Entry(TRUE, n).present /\ Entry(TRUE, n).frame = n
    BY <1>2 DEF Entry, Entries
  <2> HIDE DEF n, cleared
  <2>4. /\ tables' \in Tables
        /\ \A g, j \in Window :
             tables'[g][j] = IF g = dir /\ j = HeapIndex THEN Entry(TRUE, n) ELSE cleared[g][j]
    <3>1. tables' = WithEntry(cleared, dir, HeapIndex, Entry(TRUE, n))
      BY <2>1, Zenon DEF WithEntry
    <3>2. PICK e \in Entries : e = Entry(TRUE, n)
      BY <2>3
    <3>3. /\ WithEntry(cleared, dir, HeapIndex, e) \in Tables
          /\ \A g, j \in Window : WithEntry(cleared, dir, HeapIndex, e)[g][j] =
               IF g = dir /\ j = HeapIndex THEN e ELSE cleared[g][j]
      <4>1. cleared \in Tables /\ dir \in Window /\ HeapIndex \in Window
        BY <1>3, <2>2
      <4> QED BY <4>1, Written
    <3> QED BY <3>1, <3>2, <3>3
  <2>5. VTypes'
    BY <1>2, <2>1, <2>4 DEF VInv, VTypes
  <2>6. Progress'
    <3>1. OnHeap(virtualAddress')
      BY <1>1, <2>1
    <3> QED BY <1>1, <1>2, <2>1, <3>1 DEF Progress
  <2>7. ASSUME ~refused' PROVE KernelTable' /\ HeapTables'
    <3>1. /\ KernelTable /\ HeapTables
          /\ HeldBlocks' = HeldBlocks \cup {n} /\ n \notin HeldBlocks /\ \A h \in HeldBlocks : h < n
      <4>1. /\ ~refused /\ HeldBlocks' = HeldBlocks \cup {n} /\ n \notin HeldBlocks
            /\ \A h \in HeldBlocks : h < n
        BY <1>2, <2>7, Zenon DEF n
      <4> QED BY <1>1, <4>1 DEF VInv, Built, Loaded
    <3>2. table \in HeldBlocks /\ dir \in HeldBlocks /\ table # dir
      BY <1>3, <3>1 DEF KernelTable
    <3>3. table < n /\ dir < n
      BY <3>1, <3>2
    <3>4. n # table /\ n # dir /\ table # n + 1 /\ dir # n + 1
      BY <1>3, <2>1, <3>3
    <3>5. /\ \A i \in Window : tables'[table][i] = tables[table][i]
          /\ \A i \in Window : i # HeapIndex => tables'[dir][i] = tables[dir][i]
          /\ \A i \in Window : i # 0 => ~tables'[n][i].present
      BY <1>3, <2>1, <2>2, <2>4, <3>2, <3>4
    <3>6. HeapTable'.present /\ HeapTable'.frame = n
      <4>1. HeapTable' = Entry(TRUE, n)
        BY <1>3, <2>1, <2>4 DEF HeapTable
      <4> QED BY <2>3, <4>1
    <3>7. KernelTable'
      <4>1. HeldBlocks \subseteq HeldBlocks' /\ UNCHANGED <<table, dir>>
        BY <2>1, <3>1
      <4> QED BY <1>3, <3>1, <3>5, <4>1, KernelTableKept
    <3>8. Pages' = 0
      <4>1. ~(0 < Pages)
        BY <1>3, <1>4, <3>1 DEF HeapTables
      <4>2. Pages' = Pages
        BY <2>1 DEF Pages
      <4> QED BY <1>3, <4>1, <4>2
    <3>9. HeapTables'
      <4>1. \A i \in Window : ~(i < Pages')
        BY <1>3, <3>8
      <4>2. physicalAddress' \in HeldBlocks \ {table, dir}
        BY <1>1, <2>1, <3>1 DEF HeapTables
      <4> QED BY <2>1, <3>1, <3>4, <3>5, <3>6, <4>1, <4>2 DEF HeapTables
    <3> QED BY <3>7, <3>9
  <2>8. HalfWay'
    BY <1>1, <2>1 DEF HalfWay
  <2> QED BY <2>5, <2>6, <2>7, <2>8 DEF VInv, Built
<1>6. CASE ~Clearable(tables, NewFrame)
  BY <1>2, <1>6, FaultKeeps DEF MapNewTable
<1> QED BY <1>5, <1>6

\* The page behind those mapped gets the frame that was taken for it.
LEMMA MapPageInductive == VInv /\ MapPage => VInv'
<1> SUFFICES ASSUME VInv, MapPage PROVE VInv'
  OBVIOUS
<1>1. /\ step = "map" /\ Allotment /\ OnHeap(virtualAddress)
      /\ UNCHANGED <<pmmVars, refused>>
  BY DEF MapPage, VInv, Progress
<1>2. Allotment' /\ refused' \in BOOLEAN /\ HeldBlocks' = HeldBlocks
  <2>1. IInv'
    BY <1>1, TypeInductive, ReservationInductive DEF Allotment, IInv
  <2>2. OneByOne' /\ HeldBlocks' = HeldBlocks
    BY <1>1 DEF Allotment, OneByOne, HeldBlocks, Scanned, pmmVars
  <2> QED BY <1>1, <2>1, <2>2 DEF Allotment, pmmVars, VInv, VTypes
<1>3. /\ Window \subseteq Nat /\ HeapPage \in Nat /\ virtualAddress \in Nat
      /\ KernelIndex \in Window /\ HeapIndex \in Window /\ KernelIndex # HeapIndex
      /\ DirIndex(virtualAddress) = HeapIndex
      /\ TableIndex(virtualAddress) = virtualAddress - HeapPage
      /\ virtualAddress - HeapPage \in Window
      /\ Pages = virtualAddress - HeapPage
      /\ tables \in Tables /\ table \in Window /\ dir \in Window
      /\ physicalAddress \in 0 .. AddrBlocks - 1
  BY <1>1, HeapIndices, Indices DEF VInv, VTypes, Pages
<1>4. HeapTable = HeapEntry /\ HeapTable.present
  BY <1>3 DEF MapPage, HeapEntry, HeapTable
<1>5. CASE Reachable(tables, HeapEntry.frame)
  <2> DEFINE h == HeapTable.frame
             p == virtualAddress - HeapPage
  <2>1. /\ h \in Window
        /\ tables' = [tables EXCEPT ![h][p] = Entry(TRUE, physicalAddress)]
        /\ step' = "next" /\ UNCHANGED <<table, dir, physicalAddress, virtualAddress>>
    BY <1>3, <1>4, <1>5 DEF MapPage, Reachable
  <2>2. /\ Entry(TRUE, physicalAddress) \in Entries /\ Entry(TRUE, physicalAddress).present
        /\ Entry(TRUE, physicalAddress).frame = physicalAddress
    BY <1>3 DEF Entry, Entries
  <2>3. p \in Window /\ p = Pages
    BY <1>3
  <2> HIDE DEF h, p
  <2>4. /\ tables' \in Tables
        /\ \A g, j \in Window :
             tables'[g][j] = IF g = h /\ j = p THEN Entry(TRUE, physicalAddress) ELSE tables[g][j]
    <3>1. tables' = WithEntry(tables, h, p, Entry(TRUE, physicalAddress))
      BY <2>1, Zenon DEF WithEntry
    <3>2. PICK e \in Entries : e = Entry(TRUE, physicalAddress)
      BY <2>2
    <3>3. /\ WithEntry(tables, h, p, e) \in Tables
          /\ \A g, j \in Window : WithEntry(tables, h, p, e)[g][j] =
               IF g = h /\ j = p THEN e ELSE tables[g][j]
      <4>1. tables \in Tables /\ h \in Window /\ p \in Window
        BY <1>3, <2>1, <2>3
      <4> QED BY <4>1, Written
    <3> QED BY <3>1, <3>2, <3>3
  <2>5. VTypes'
    BY <1>2, <2>1, <2>4 DEF VInv, VTypes
  <2>6. Progress'
    <3>1. OnHeap(virtualAddress')
      BY <1>1, <2>1
    <3> QED BY <1>1, <1>2, <2>1, <3>1 DEF Progress
  <2>7. Pages' = Pages + 1
    BY <1>3, <2>1 DEF Pages
  <2>8. ASSUME ~refused' PROVE KernelTable' /\ HeapTables'
    <3>1. KernelTable /\ HeapTables
      <4>1. ~refused
        BY <1>1, <2>8
      <4> QED BY <1>1, <4>1 DEF VInv, Built, Loaded
    <3>2. h # table /\ h # dir /\ h \in HeldBlocks
      BY <1>4, <3>1 DEF HeapTables, h
    <3>3. /\ \A i \in Window : tables'[table][i] = tables[table][i]
          /\ \A i \in Window : tables'[dir][i] = tables[dir][i]
      BY <1>3, <2>4, <3>2
    <3>4. KernelTable'
      BY <1>2, <1>3, <2>1, <3>1, <3>3, KernelTableKept
    <3>5. HeapTable' = HeapTable /\ HeapTable'.frame = h
      BY <1>3, <2>1, <3>3 DEF HeapTable, h
    <3>6. /\ tables'[h][p].present /\ tables'[h][p].frame = physicalAddress
          /\ \A i \in Window : i # p => tables'[h][i] = tables[h][i]
      <4>1. tables'[h][p] = Entry(TRUE, physicalAddress)
        BY <2>1, <2>3, <2>4
      <4> QED BY <2>1, <2>2, <2>4, <4>1
    <3>7. \A i \in Window : i < Pages' <=> i < Pages \/ i = p
      BY <1>3, <2>3, <2>7
    <3>8. physicalAddress \in HeldBlocks \ {table, dir, h}
      BY <1>1, <1>4, <3>1 DEF HeapTables, h
    <3>9. \A i \in Window : i < Pages =>
            /\ tables[h][i].present /\ tables[h][i].frame \in HeldBlocks \ {table, dir, h}
            /\ tables[h][i].frame # physicalAddress /\ i # p
            /\ \A j \in Window : j < Pages /\ j # i => tables[h][i].frame # tables[h][j].frame
      BY <1>1, <1>3, <2>3, <3>1 DEF HeapTables, h
    <3>10. \A i \in Window : tables[h][i].present => i = 0 \/ i < Pages
      BY <1>4, <3>1 DEF HeapTables, h
    <3>11. \A i \in Window : tables'[h][i].present => i = 0 \/ i < Pages'
      BY <3>6, <3>7, <3>10
    <3>12. ASSUME NEW i \in Window, i < Pages'
           PROVE  /\ tables'[h][i].present
                  /\ tables'[h][i].frame \in HeldBlocks \ {table, dir, h}
                  /\ \A j \in Window : j < Pages' /\ j # i => tables'[h][i].frame # tables'[h][j].frame
      BY <3>6, <3>7, <3>8, <3>9, <3>12
    <3>13. HeapTables'
      BY <1>2, <1>4, <2>1, <3>2, <3>5, <3>11, <3>12 DEF HeapTables
    <3> QED BY <3>4, <3>13
  <2>9. HalfWay'
    BY <2>1 DEF HalfWay
  <2> QED BY <2>5, <2>6, <2>8, <2>9 DEF VInv, Built
<1>6. CASE ~Reachable(tables, HeapEntry.frame)
  BY <1>2, <1>6, FaultKeeps DEF MapPage
<1> QED BY <1>5, <1>6

-----------------------------------------------------------------------------
(***************************************************************************)
(* The theorems.                                                           *)
(***************************************************************************)
\* Whatever initVMM does, the frame allocator takes a step of its own or none.
LEMMA VMMSteps == [VMMNext]_allVars => [Next]_pmmVars
<1>1. GetPage => Next
  BY PagingAssumption DEF GetPage, Next
<1>2. Boot => Next
  BY DEF Boot, Next
<1>3. MapPage \/ LoseDir \/ UNCHANGED allVars => UNCHANGED pmmVars
  BY DEF MapPage, LoseDir, allVars
<1>4. NewTable \/ NewDir \/ FirstFrame \/ NextFrame \/ MapNewTable => GetPage
  BY DEF NewTable, NewDir, FirstFrame, NextFrame, MapNewTable
<1> QED BY <1>1, <1>2, <1>3, <1>4 DEF VMMNext

LEMMA VMMInductive == IInv /\ VInv /\ [VMMNext]_allVars => IInv' /\ VInv'
<1> SUFFICES ASSUME IInv, VInv, [VMMNext]_allVars PROVE IInv' /\ VInv'
  OBVIOUS
<1>1. IInv'
  BY VMMSteps, TypeInductive, ReservationInductive DEF IInv
<1>2. CASE Boot
  BY <1>1, <1>2, BootInductive
<1>3. CASE NewTable
  BY <1>1, <1>3, NewTableInductive
<1>4. CASE NewDir
  BY <1>1, <1>4, NewDirInductive
<1>5. CASE FirstFrame
  BY <1>1, <1>5, FirstFrameInductive
<1>6. CASE NextFrame
  BY <1>1, <1>6, NextFrameInductive
<1>7. CASE MapNewTable
  BY <1>1, <1>7, MapNewTableInductive
<1>8. CASE MapPage
  BY <1>1, <1>8, MapPageInductive
<1>9. CASE LoseDir
  <2>1. step = "map" /\ Fault /\ UNCHANGED <<pmmVars, refused>>
    BY <1>9 DEF LoseDir
  <2>2. Allotment
    BY <2>1 DEF VInv, Progress
  <2>3. OneByOne' /\ pc' = "ready"
    BY <2>1, <2>2 DEF Allotment, OneByOne, HeldBlocks, Scanned, pmmVars
  <2>4. Allotment' /\ refused' \in BOOLEAN
    BY <1>1, <2>1, <2>3 DEF Allotment, VInv, VTypes
  <2> QED BY <2>1, <2>4, <1>1, FaultKeeps
<1>10. CASE UNCHANGED allVars
  <2>1. Allotment' <=> Allotment
    BY <1>10 DEF Allotment, IInv, TypeOK, Reservation, BitmapExact, KernelReserved, OneByOne,
                 HeldBlocks, Scanned, NoDoubleAllocation, pmmVars, allVars
  <2>2. /\ UNCHANGED <<pc, held, step, tables, table, dir, physicalAddress, virtualAddress, refused>>
    BY <1>10 DEF allVars, pmmVars, vmmVars
  <2>3. VTypes' /\ Progress' /\ HeldBlocks' = HeldBlocks
    BY <2>1, <2>2 DEF VInv, VTypes, Progress, HeldBlocks
  <2>4. HalfWay' <=> HalfWay
    BY <2>2, <2>3 DEF HalfWay
  <2>5. Built' <=> Built
    <3>1. HeapTable' = HeapTable /\ Pages' = Pages /\ (Loaded' <=> Loaded)
      BY <2>2 DEF HeapTable, Pages, Loaded
    <3>2. KernelTable' <=> KernelTable
      BY <2>2, <2>3 DEF KernelTable
    <3>3. HeapTables' <=> HeapTables
      BY <2>2, <2>3, <3>1 DEF HeapTables
    <3> QED BY <3>1, <3>2, <3>3 DEF Built
  <2> QED BY <1>1, <2>2, <2>3, <2>4, <2>5 DEF VInv
<1> QED
  BY <1>1, <1>2, <1>3, <1>4, <1>5, <1>6, <1>7, <1>8, <1>9, <1>10 DEF VMMNext

LEMMA VMMInvariant == VMMSpec => [](IInv /\ VInv)
<1>1. VMMInit => IInv /\ VInv
  BY VInitially, TypeInit, ReservationInit DEF VMMInit, IInv
<1>2. IInv /\ VInv /\ [VMMNext]_allVars => (IInv /\ VInv)'
  BY VMMInductive
<1> QED BY <1>1, <1>2, PTL DEF VMMSpec

\* initVMM keeps its frames, pages and page tables in their ranges, even where
\* memset writes past the frame it is given and after memory has run out.
THEOREM PagingTypeCorrect == VMMSpec => []VMMTypeOK
<1>1. VInv => VMMTypeOK
  BY DEF VInv, VTypes, VMMTypeOK, Tables, Entries
<1> QED BY <1>1, VMMInvariant, PTL

\* From setPageDirectory on the kernel runs in mapped memory, and PHYS_2_VIRT
\* is what the page tables say, unless memory ran out on the way.
THEOREM KernelMapped == VMMSpec => []KernelStaysMapped
<1>1. VInv => KernelStaysMapped
  BY WindowMapped DEF VInv, Built, KernelStaysMapped
<1> QED BY <1>1, VMMInvariant, PTL

\* What the invariant says of the heap pages mapped so far.
LEMMA BackedPages ==
  ASSUME VInv, Loaded, ~refused, NEW p \in Backed
  PROVE  /\ p - HeapPage \in Window /\ p - HeapPage < Pages /\ p \in Nat
         /\ DirIndex(p) = HeapIndex /\ TableIndex(p) = p - HeapPage
         /\ HeapTable.present
         /\ FrameOf(p) = tables[HeapTable.frame][p - HeapPage].frame
<1>1. /\ HeapPage \in Nat /\ HeapPages \in Nat /\ HeapPages <= PerTable /\ PerTable \in Nat
      /\ virtualAddress \in HeapPage .. HeapPage + HeapPages
  BY HeapIndices, Indices DEF VInv, VTypes
<1>2. p \in Nat /\ p - HeapPage \in Window /\ p - HeapPage < Pages
  BY <1>1 DEF Backed, Window, Pages
<1>3. HeapPage + (p - HeapPage) = p
  BY <1>1, <1>2
<1>4. DirIndex(p) = HeapIndex /\ TableIndex(p) = p - HeapPage
  BY <1>2, <1>3, Indices
<1>5. HeapTable.present
  BY <1>2 DEF VInv, Built, HeapTables
<1> QED BY <1>2, <1>4, <1>5 DEF FrameOf, HeapTable

\* Unless memory ran out, each heap page that was mapped keeps a frame of its
\* own, which the frame allocator counts as held and which is neither the
\* kernel's memory nor one of the page structures.
THEOREM HeapIsBacked == VMMSpec => []HeapBacked
<1>1. IInv /\ VInv => HeapBacked
  <2> SUFFICES ASSUME IInv, VInv, Loaded, ~refused, NEW p \in Backed
               PROVE  /\ Mapped(tables, p)
                      /\ FrameOf(p) \in HeldBlocks \ (Structures \cup LowBlocks)
                      /\ \A q \in Backed : p # q => FrameOf(p) # FrameOf(q)
    BY DEF HeapBacked
  <2> DEFINE i == p - HeapPage
             h == HeapTable.frame
  <2>1. /\ i \in Window /\ i < Pages /\ p \in Nat
        /\ DirIndex(p) = HeapIndex /\ TableIndex(p) = i
        /\ HeapTable.present /\ FrameOf(p) = tables[h][i].frame
    BY BackedPages
  <2>2. /\ h \in Window /\ tables[h][i].present
        /\ tables[h][i].frame \in HeldBlocks \ {table, dir, h}
        /\ \A j \in Window : j < Pages /\ j # i => tables[h][i].frame # tables[h][j].frame
    BY <2>1 DEF VInv, Built, HeapTables
  <2>3. Mapped(tables, p)
    BY <2>1, <2>2 DEF Mapped, HeapTable, Loaded, VInv, VTypes, Tables
  <2>4. Structures = {table, dir, h}
    <3>1. 0 \in Window /\ HeapPage + 0 = HeapPage
      BY HeapIndices, Indices DEF VInv
    <3>2. DirIndex(HeapPage) = HeapIndex
      BY <3>1, Indices
    <3> QED BY <3>2 DEF Structures, HeapTable
  <2>5. HeldBlocks \cap LowBlocks = {}
    <3>1. pc = "ready"
      BY DEF VInv, Progress, Allotment, Loaded
    <3> QED BY <3>1 DEF IInv, Reservation, BitmapExact, LowBlocks
  <2>6. ASSUME NEW q \in Backed, p # q PROVE FrameOf(p) # FrameOf(q)
    <3> DEFINE j == q - HeapPage
    <3>1. j \in Window /\ j < Pages /\ q \in Nat /\ FrameOf(q) = tables[h][j].frame
      BY BackedPages
    <3>2. j # i
      BY <2>1, <2>6, <3>1, Indices
    <3> QED BY <2>1, <2>2, <3>1, <3>2
  <2> QED BY <2>1, <2>2, <2>3, <2>4, <2>5, <2>6
<1> QED BY <1>1, VMMInvariant, PTL

\* When initVMM is done, what the frames held before boot maps nothing: all
\* that is mapped are the first 4 MB, the heap and, if the directory does not
\* lie right behind the table, at most the pages of directory entry 0.
THEOREM NothingStray == VMMSpec => []NothingElseMapped
<1>1. VInv => NothingElseMapped
  <2> SUFFICES ASSUME VInv, step = "done", ~refused,
                      NEW p \in 0 .. PerTable * PerTable - 1, Mapped(tables, p)
               PROVE  \/ DirIndex(p) = KernelIndex
                      \/ p \in Backed
                      \/ (DirIndex(p) = 0 /\ dir # table + 1)
    BY DEF NothingElseMapped
  <2> DEFINE d == DirIndex(p)
             i == TableIndex(p)
  <2>1. p \in Nat /\ PerTable \in Nat \ {0} /\ PerTable * PerTable \in Nat
    BY PagingAssumption
  <2>2. d \in Window /\ i \in Window /\ p = d * PerTable + i
    <3>1. PICK q \in Nat, r \in 0 .. PerTable - 1 :
            q = p \div PerTable /\ r = p % PerTable /\ p = PerTable * q + r
      <4>1. p \div PerTable \in Nat /\ p % PerTable \in 0 .. PerTable - 1
            /\ p = PerTable * (p \div PerTable) + (p % PerTable)
        BY <2>1
      <4> QED BY <4>1
    <3>2. ASSUME q >= PerTable PROVE FALSE
      <4>1. PICK e \in Nat : q = PerTable + e
        <5>1. q - PerTable \in Nat /\ q = PerTable + (q - PerTable)
          BY <2>1, <3>2
        <5> QED BY <5>1
      <4>2. PerTable * q = PerTable * PerTable + PerTable * e /\ PerTable * e \in Nat
        BY <2>1, <4>1
      <4> QED BY <2>1, <3>1, <4>2
    <3>3. PerTable * q = q * PerTable
      BY <2>1
    <3> QED BY <2>1, <3>1, <3>2, <3>3 DEF Window, DirIndex, TableIndex
  <2>3. tables[dir][d].present /\ tables[tables[dir][d].frame][i].present
    BY DEF Mapped
  <2>4. KernelTable /\ HeapTables
    BY DEF VInv, Built, Loaded
  <2>5. d \in {KernelIndex, HeapIndex} \/ (d = 0 /\ dir # table + 1)
    BY <2>2, <2>3, <2>4 DEF KernelTable
  <2>6. ASSUME d = HeapIndex PROVE p \in Backed
    <3>1. HeapTable.present /\ tables[HeapTable.frame][i].present
      BY <2>3, <2>6 DEF HeapTable
    <3>2. i = 0 \/ i < Pages
      BY <2>2, <2>4, <3>1 DEF HeapTables
    <3>3. /\ Pages = virtualAddress - HeapPage /\ HeapPage \in Nat /\ virtualAddress \in Nat
          /\ HeapPages \in Nat \ {0} /\ virtualAddress >= HeapPage + HeapPages
      <4>1. ~OnHeap(virtualAddress)
        BY DEF VInv, Progress
      <4>2. /\ HeapPage \in Nat /\ virtualAddress \in Nat /\ HeapPages \in Nat \ {0}
        BY HeapIndices, Indices DEF VInv
      <4> QED BY <4>1, <4>2 DEF OnHeap, Pages
    <3>4. p = HeapPage + i
      <4>1. HeapPage = HeapIndex * PerTable
        BY PagingAssumption DEF HeapPage, KernelPage, HeapIndex
      <4> QED BY <2>2, <2>6, <4>1
    <3> HIDE DEF i
    <3>5. i \in Nat
      BY <2>1, <2>2 DEF Window
    <3> QED BY <3>2, <3>3, <3>4, <3>5 DEF Backed
  <2> QED BY <2>5, <2>6
<1> QED BY <1>1, VMMInvariant, PTL

-----------------------------------------------------------------------------
(***************************************************************************)
(* Faults.  Up to the heap's table initVMM has taken at most three frames, *)
(* so with five usable ones in the window two of them are left: the search *)
(* answers with the lower one or one below it, and memset's write behind   *)
(* that frame stays in the window, all of which is mapped.                 *)
(***************************************************************************)
Few(blocks, n) == IsFiniteSet(blocks) /\ Cardinality(blocks) <= n

Tally ==
  ~refused =>
    /\ step = "table" => Few(HeldBlocks, 0)
    /\ step = "dir" => Few(HeldBlocks, 1)
    /\ step = "first" => Few(HeldBlocks, 2)
    /\ (step = "map" /\ ~HeapTable.present) => Few(HeldBlocks, 3)

FInv == Tally /\ FaultMeansTight

LEMMA OneMore ==
  ASSUME NEW blocks, NEW n \in Nat, NEW frame, Few(blocks, n)
  PROVE  Few(blocks \cup {frame}, n + 1)
<1>1. IsFiniteSet(blocks) /\ Cardinality(blocks) <= n /\ Cardinality(blocks) \in Nat
  BY FS_CardinalityType DEF Few
<1>2. /\ IsFiniteSet(blocks \cup {frame})
      /\ Cardinality(blocks \cup {frame}) =
           IF frame \in blocks THEN Cardinality(blocks) ELSE Cardinality(blocks) + 1
  BY <1>1, FS_AddElement
<1> QED BY <1>1, <1>2 DEF Few

LEMMA FewAreFewer ==
  ASSUME NEW blocks, NEW n \in Nat, NEW m \in Nat, n <= m, Few(blocks, n)
  PROVE  Few(blocks, m)
<1>1. Cardinality(blocks) \in Nat
  BY FS_CardinalityType DEF Few
<1> QED BY <1>1 DEF Few

\* A set of numbers with three more elements than another keeps two of them.
LEMMA TwoLeft ==
  ASSUME NEW usable \in SUBSET Nat, IsFiniteSet(usable), Cardinality(usable) >= 5,
         NEW taken, Few(taken, 3)
  PROVE  \E a, b \in usable \ taken : a < b
<1> DEFINE left == usable \ taken
<1>1. /\ Cardinality(usable) \in Nat /\ Cardinality(taken) \in Nat /\ Cardinality(taken) <= 3
      /\ IsFiniteSet(taken)
  BY FS_CardinalityType DEF Few
<1>2. /\ IsFiniteSet(left)
      /\ Cardinality(left) = Cardinality(usable) - Cardinality(usable \cap taken)
  BY FS_Difference
<1>3. Cardinality(usable \cap taken) <= Cardinality(taken) /\ Cardinality(usable \cap taken) \in Nat
  BY <1>1, FS_Intersection, FS_CardinalityType
<1>4. Cardinality(left) >= 2 /\ Cardinality(left) \in Nat
  <2> HIDE DEF left
  <2> QED BY <1>1, <1>2, <1>3, FS_CardinalityType
<1>5. PICK x : x \in left
  <2>1. left # {}
    BY <1>4, FS_EmptySet
  <2> QED BY <2>1
<1>6. IsFiniteSet(left \ {x}) /\ Cardinality(left \ {x}) = Cardinality(left) - 1
  BY <1>2, <1>5, FS_RemoveElement
<1>7. PICK y : y \in left \ {x}
  <2>1. Cardinality(left \ {x}) # 0
    <3> HIDE DEF left
    <3> QED BY <1>4, <1>6
  <2>2. left \ {x} # {}
    BY <2>1, FS_EmptySet
  <2> QED BY <2>2
<1>8. x \in Nat /\ y \in Nat /\ (x < y \/ y < x)
  BY <1>5, <1>7
<1> QED BY <1>5, <1>7, <1>8

\* With the whole window mapped and five frames of it usable, memset succeeds.
LEMMA EnoughIsClearable ==
  ASSUME Allotment, GetPage, ~refused', Few(HeldBlocks, 3),
         \A f \in Window : Mapped(tables, PHYS_2_VIRT(f)),
         ~(Cardinality(Window \ bootMap) < 5)
  PROVE  Clearable(tables, NewFrame)
<1>1. /\ NewFrame \in 0 .. AddrBlocks - 1 /\ NewFrame \in Scanned
      /\ \A b \in Scanned : b < NewFrame => b \in memoryMap
  BY NewFrameIs
<1>2. /\ Window = 0 .. PerTable - 1 /\ PerTable \in Nat /\ AddrBlocks \in Nat
  BY PagingAssumption, GeometryAssumption DEF Window
<1>3. PICK a, b \in (Window \ bootMap) \ HeldBlocks : a < b
  <2>1. Window \ bootMap \in SUBSET Nat /\ IsFiniteSet(Window)
    BY <1>2, FS_Interval
  <2>2. IsFiniteSet(Window \ bootMap)
    BY <2>1, FS_Difference
  <2>3. Cardinality(Window \ bootMap) >= 5
    <3>1. Cardinality(Window \ bootMap) \in Nat
      BY <2>2, FS_CardinalityType
    <3> QED BY <3>1
  <2> QED BY <2>1, <2>2, <2>3, TwoLeft
<1>4. a \notin memoryMap
  BY <1>3 DEF Allotment, IInv, Reservation, BitmapExact
<1>5. NewFrame <= a
  <2>1. CASE a \in Scanned
    BY <1>1, <1>2, <1>3, <1>4, <2>1
  <2>2. CASE a \notin Scanned
    <3>1. PICK w \in Nat : w = WordBits * (maxBlocks \div WordBits)
      <4>1. WordBits * (maxBlocks \div WordBits) \in Nat
        BY GeometryAssumption DEF Allotment, IInv, TypeOK
      <4> QED BY <4>1
    <3>2. Scanned = 0 .. w - 1
      BY <3>1 DEF Scanned, Run
    <3> QED BY <1>1, <1>2, <1>3, <2>2, <3>2
  <2> QED BY <2>1, <2>2
<1>6. NewFrame \in Window /\ NewFrame + 1 \in Window
  BY <1>1, <1>2, <1>3, <1>5
<1> QED BY <1>6 DEF Clearable, Reachable

\* A step that asks for a frame to clear faults only on such a machine.
LEMMA TightFault ==
  ASSUME VInv, GetPage, step \in {"table", "dir", "map"},
         ~refused => Few(HeldBlocks, 3),
         ~Clearable(tables, NewFrame)
  PROVE  FaultMeansTight'
<1> SUFFICES ASSUME ~refused', ~(Cardinality(Window \ bootMap') < 5) PROVE FALSE
  BY DEF FaultMeansTight, Window
<1>1. Allotment
  BY DEF VInv, Progress
<1>2. bootMap' = bootMap /\ ~refused
  BY <1>1, NewFrameIs
<1>3. \A f \in Window : Mapped(tables, PHYS_2_VIRT(f))
  <2>1. CASE step \in {"table", "dir"}
    <3>1. KernelPage \in Nat /\ Window \subseteq Nat
      BY Indices DEF Window
    <3>2. \A f \in Window : (KernelPage + f) - KernelPage = f
      BY <3>1
    <3> QED BY <2>1, <3>2 DEF Mapped, PHYS_2_VIRT
  <2>2. CASE step = "map"
    <3>1. Loaded /\ KernelTable /\ VTypes
      BY <1>2, <2>2 DEF Loaded, VInv, Built
    <3> QED BY <3>1, WindowMapped DEF PHYS_2_VIRT
  <2> QED BY <2>1, <2>2
<1> QED BY <1>1, <1>2, <1>3, EnoughIsClearable

LEMMA FaultsInductive == IInv /\ VInv /\ FInv /\ [VMMNext]_allVars => FInv'
<1> SUFFICES ASSUME IInv, VInv, FInv, [VMMNext]_allVars PROVE FInv'
  OBVIOUS
<1>0. ASSUME GetPage, step # "off"
      PROVE  ~refused' => /\ ~refused
                          /\ HeldBlocks' = HeldBlocks \cup {NewFrame}
  <2>1. Allotment
    BY <1>0 DEF VInv, Progress
  <2> QED BY <1>0, <2>1, NewFrameIs
<1>1. CASE Boot
  <2>1. /\ step' = IF pc' = "ready" THEN "table" ELSE step
        /\ step = "off" /\ held' = {} /\ UNCHANGED refused
    <3>1. pc # "ready"
      BY <1>1 DEF Boot, CountRegion, FillMap, AddRegion, ReserveKernel
    <3>2. held = {} /\ step = "off"
      BY <3>1 DEF IInv, Reservation, VInv, Progress, Allotment
    <3> QED BY <1>1, <3>2 DEF Boot, CountRegion, FillMap, AddRegion, ReserveKernel
  <2>2. HeldBlocks' = {}
    BY <2>1 DEF HeldBlocks
  <2>3. Few({}, 0)
    BY FS_EmptySet DEF Few
  <2> QED BY <2>1, <2>2, <2>3 DEF FInv, Tally, FaultMeansTight
<1>2. CASE NewTable
  <2>1. step = "table" /\ GetPage
    BY <1>2 DEF NewTable
  <2>2. ~refused => Few(HeldBlocks, 0)
    BY <2>1 DEF FInv, Tally
  <2>3. CASE Clearable(tables, NewFrame)
    <3>1. step' = "dir"
      BY <1>2, <2>3 DEF NewTable
    <3>2. ~refused' => Few(HeldBlocks', 0 + 1)
      BY <1>0, <2>1, <2>2, OneMore
    <3> QED BY <3>1, <3>2 DEF FInv, Tally, FaultMeansTight
  <2>4. CASE ~Clearable(tables, NewFrame)
    <3>1. step' = "fault"
      BY <1>2, <2>4 DEF NewTable, Fault
    <3>2. ~refused => Few(HeldBlocks, 3)
      BY <2>2, FewAreFewer
    <3> QED BY <2>1, <2>4, <3>1, <3>2, TightFault DEF FInv, Tally
  <2> QED BY <2>3, <2>4
<1>3. CASE NewDir
  <2>1. step = "dir" /\ GetPage
    BY <1>3 DEF NewDir
  <2>2. ~refused => Few(HeldBlocks, 1)
    BY <2>1 DEF FInv, Tally
  <2>3. CASE Clearable(tables, NewFrame)
    <3>1. step' = "first"
      BY <1>3, <2>3 DEF NewDir
    <3>2. ~refused' => Few(HeldBlocks', 1 + 1)
      BY <1>0, <2>1, <2>2, OneMore
    <3> QED BY <3>1, <3>2 DEF FInv, Tally, FaultMeansTight
  <2>4. CASE ~Clearable(tables, NewFrame)
    <3>1. step' = "fault"
      BY <1>3, <2>4 DEF NewDir, Fault
    <3>2. ~refused => Few(HeldBlocks, 3)
      BY <2>2, FewAreFewer
    <3> QED BY <2>1, <2>4, <3>1, <3>2, TightFault DEF FInv, Tally
  <2> QED BY <2>3, <2>4
<1>4. CASE FirstFrame
  <2>1. step = "first" /\ GetPage /\ step' = "map"
    BY <1>4 DEF FirstFrame
  <2>2. ~refused => Few(HeldBlocks, 2)
    BY <2>1 DEF FInv, Tally
  <2>3. ~refused' => Few(HeldBlocks', 2 + 1)
    BY <1>0, <2>1, <2>2, OneMore
  <2> QED BY <2>1, <2>3 DEF FInv, Tally, FaultMeansTight
<1>5. CASE NextFrame
  <2>1. step = "next" /\ GetPage /\ step' \in {"map", "done"} /\ UNCHANGED <<tables, dir>>
    BY <1>5 DEF NextFrame
  <2>2. ~refused => HeapTable.present
    <3>1. ~refused => HeapTables
      BY <2>1 DEF VInv, Built, Loaded
    <3>2. 0 \in Window /\ 0 < Pages
      BY <2>1, HeapIndices DEF VInv, Pages
    <3> QED BY <3>1, <3>2 DEF HeapTables
  <2>3. HeapTable' = HeapTable
    BY <2>1 DEF HeapTable
  <2> QED BY <1>0, <2>1, <2>2, <2>3 DEF FInv, Tally, FaultMeansTight
<1>6. CASE MapNewTable
  <2>1. /\ step = "map" /\ GetPage /\ VTypes /\ OnHeap(virtualAddress)
        /\ DirIndex(virtualAddress) = HeapIndex /\ HeapIndex \in Window
        /\ tables \in Tables /\ dir \in Window
    BY <1>6, HeapIndices DEF MapNewTable, VInv, Progress, VTypes
  <2>2. ~refused => Few(HeldBlocks, 3)
    BY <1>6, <2>1 DEF MapNewTable, FInv, Tally, HeapTable, HeapEntry
  <2>3. CASE Clearable(tables, NewFrame)
    <3>1. /\ tables' = WithEntry(Cleared(tables, NewFrame), dir, HeapIndex, Entry(TRUE, NewFrame))
          /\ UNCHANGED <<step, dir>>
      BY <1>6, <2>1, <2>3 DEF MapNewTable, WithEntry
    <3>2. NewFrame \in Window /\ NewFrame \in 0 .. AddrBlocks - 1
      BY <2>1, <2>3, HeapIndices DEF Clearable, Reachable
    <3>3. Cleared(tables, NewFrame) \in Tables
      BY <2>1, <3>2, ClearedIs
    <3>4. PICK e \in Entries : e = Entry(TRUE, NewFrame) /\ e.present
      BY <3>2, EntryIs
    <3>5. tables'[dir][HeapIndex] = e
      <4>1. PICK t \in Tables : t = Cleared(tables, NewFrame)
        BY <3>3
      <4>2. WithEntry(t, dir, HeapIndex, e)[dir][HeapIndex] = e
        BY <2>1, Written
      <4> QED BY <3>1, <3>4, <4>1, <4>2
    <3>6. HeapTable'.present
      BY <3>1, <3>4, <3>5 DEF HeapTable, HeapIndex
    <3> QED BY <2>1, <3>1, <3>6 DEF FInv, Tally, FaultMeansTight
  <2>4. CASE ~Clearable(tables, NewFrame)
    <3>1. step' = "fault"
      BY <1>6, <2>4 DEF MapNewTable, Fault
    <3> QED BY <2>1, <2>2, <2>4, <3>1, TightFault DEF FInv, Tally
  <2> QED BY <2>3, <2>4
<1>7. ASSUME MapPage \/ LoseDir PROVE FInv'
  <2>1. step = "map" /\ UNCHANGED refused /\ step' \in {"next", "fault"}
    BY <1>7 DEF MapPage, LoseDir, Fault
  <2>2. ASSUME ~refused PROVE step' = "next"
    <3>1. /\ VTypes /\ Loaded /\ KernelTable /\ HeapTables /\ OnHeap(virtualAddress)
      BY <2>1, <2>2 DEF VInv, Built, Loaded, Progress
    <3>2. \A f \in Window : Reachable(tables, f)
      BY <3>1, WindowMapped DEF Reachable, PHYS_2_VIRT
    <3>3. Reachable(tables, dir)
      BY <3>1, <3>2 DEF VTypes
    <3>4. HeapEntry = HeapTable
      BY <3>1, HeapIndices DEF HeapEntry, HeapTable
    <3>5. HeapEntry.present => Reachable(tables, HeapEntry.frame)
      BY <3>1, <3>2, <3>4 DEF HeapTables
    <3> QED BY <1>7, <3>3, <3>5 DEF MapPage, LoseDir
  <2> QED BY <2>1, <2>2 DEF FInv, Tally, FaultMeansTight
<1>8. CASE UNCHANGED allVars
  <2>1. UNCHANGED <<held, bootMap, refused, step, tables, dir>>
    BY <1>8 DEF allVars, pmmVars, vmmVars
  <2> QED BY <2>1 DEF FInv, Tally, FaultMeansTight, HeldBlocks, HeapTable
<1> QED BY <1>1, <1>2, <1>3, <1>4, <1>5, <1>6, <1>7, <1>8 DEF VMMNext

\* Unless memory ran out, initVMM raises a page fault only where fewer than five
\* frames of the first 4 MB are usable: neither memset's write past a frame nor
\* a frame behind the window stops it on any other machine, and the directory
\* it has loaded is never lost.
THEOREM FaultsAreTight == VMMSpec => []FaultMeansTight
<1>1. VMMInit => FInv
  BY DEF VMMInit, FInv, Tally, FaultMeansTight
<1>2. IInv /\ VInv /\ FInv /\ [VMMNext]_allVars => FInv'
  BY FaultsInductive
<1>3. FInv => FaultMeansTight
  BY DEF FInv
<1> QED BY <1>1, <1>2, <1>3, VMMInvariant, PTL DEF VMMSpec
=============================================================================
