--------------------------------- MODULE PMM ---------------------------------
(***************************************************************************)
(* The physical memory manager: MemoryManager::init's walk over the boot   *)
(* loader's memory map, initPMM, and the frame allocator behind            *)
(* getFreePhysicalPage and freePage (Kernel/src/MM/PMM.cpp).               *)
(*                                                                         *)
(* The bit map `memoryMap' is the set of the bits that are 1.  It lies in  *)
(* RAM behind the kernel image and is never cleared as a whole, so its     *)
(* first contents are whatever that RAM held (Garbage), and a bit past the *)
(* map's end is a bit of the RAM that follows.                             *)
(*                                                                         *)
(* `held' and `bootMap' are history variables: the blocks the callers      *)
(* hold, and the map when initPMM returned.                                *)
(***************************************************************************)
EXTENDS Integers, Sequences, FiniteSets

CONSTANTS
  BlockSize,     \* BLOCK_SIZE: addresses per block
  ByteBits,      \* BLOCKS_PER_BYTE: bits per byte of the map
  WordBits,      \* bits per u32 of the map
  KernelSize,    \* the 2_MB at address 0 that initPMM reserves
  AddrBlocks,    \* blocks of the address space: addresses are < BlockSize * AddrBlocks
  CounterRange,  \* 2^32: usedBlocks is a u32
  MemoryMaps,    \* the boot loader's memory maps: sequences of [addr, len, available]
  Garbage,       \* what the bits of the RAM behind the kernel may be at boot
  Requests       \* the sizes, in blocks, that callers ask for

Region == [addr : Nat, len : Nat, available : BOOLEAN]
KernelBlocks == KernelSize \div BlockSize
AddressSpace == BlockSize * AddrBlocks      \* 4 GB

ASSUME GeometryAssumption ==
  /\ BlockSize \in Nat \ {0}
  /\ ByteBits \in Nat \ {0}
  /\ WordBits \in Nat \ {0}
  /\ AddrBlocks \in Nat \ {0}
  /\ CounterRange \in Nat \ {0}
  /\ KernelSize \in Nat
  /\ KernelBlocks > 0

ASSUME InputAssumption ==
  /\ MemoryMaps \subseteq Seq(Region)
  /\ \A g \in Garbage : g \subseteq Nat /\ IsFiniteSet(g)
  /\ Requests \subseteq Nat

VARIABLES
  pc,            \* where boot is: "count", "fill", "regions", "reserve", then "ready"
  grubMap,       \* the memory map the boot loader left
  entry,         \* the index of the map entry the running loop is at
  memorySize, memoryMap, maxBlocks, usedBlocks,
  reply,         \* the last request for blocks and the address it was answered with
  held, bootMap

pmmVars == <<pc, grubMap, entry, memorySize, memoryMap, maxBlocks, usedBlocks,
             reply, held, bootMap>>

nullptr == 0
NoReply == [size |-> 0, addr |-> nullptr]

\* A map entry is 64 bits wide; the code reads only the lower 32 of each field.
Low(n) == n % AddressSpace

\* Bit ranges: `count' bits from `first' on, and the blocks a map entry or a
\* held block stands for.  Addresses and lengths are rounded down to blocks.
Run(first, count) == first .. first + count - 1
Frames(region) == Run(Low(region.addr) \div BlockSize, Low(region.len) \div BlockSize)
Span(b) == Run(b.base, b.size)

\* A counter that is wide enough never to wrap.
Unwrapped(n) == n

\* A u32 counter wraps.
Wrapped(n) == n % CounterRange

-----------------------------------------------------------------------------
Init ==
  /\ pc = "count"
  /\ grubMap \in MemoryMaps
  /\ entry = 1
  /\ memorySize = 0
  /\ memoryMap \in Garbage
  /\ maxBlocks = 0
  /\ usedBlocks = 0
  /\ reply = NoReply
  /\ held = {}
  /\ bootMap = {}

\* One turn of the loop of MemoryManager::init: the lengths of all entries,
\* of whatever type, make up memorySize, a u32.
CountRegion ==
  /\ pc = "count"
  /\ IF entry <= Len(grubMap)
     THEN /\ memorySize' = Low(memorySize + Low(grubMap[entry].len))
          /\ entry' = entry + 1
          /\ pc' = pc
     ELSE /\ pc' = "fill"
          /\ UNCHANGED <<memorySize, entry>>
  /\ UNCHANGED <<grubMap, memoryMap, maxBlocks, usedBlocks, reply, held, bootMap>>

\* memset(map, 0xF, bytes): the loop of memset writes the bytes 1 .. bytes,
\* never byte 0, and 0xF sets the lower half of each byte's bits.
Filled(map, bytes) ==
  LET touched == Run(ByteBits, ByteBits * bytes)
  IN  (map \ touched) \cup {b \in touched : b % ByteBits < ByteBits \div 2}

\* The first lines of initPMM.
FillMap ==
  LET blocks == memorySize \div BlockSize
  IN  /\ pc = "fill"
      /\ maxBlocks' = blocks
      /\ usedBlocks' = Wrapped(blocks)
      /\ memoryMap' = Filled(memoryMap, blocks \div ByteBits)
      /\ entry' = 1
      /\ pc' = "regions"
      /\ UNCHANGED <<grubMap, memorySize, reply, held, bootMap>>

\* The counter moves the wrong way round here: down for blocks that are now
\* used, up for blocks that are now free.
SetRegionUsed(blocks) ==
  /\ memoryMap' = memoryMap \cup blocks \cup {0}
  /\ usedBlocks' = Wrapped(usedBlocks - Cardinality(blocks))

SetRegionFree(blocks) ==
  /\ memoryMap' = memoryMap \ blocks
  /\ usedBlocks' = Wrapped(usedBlocks + Cardinality(blocks))

\* The switch of initPMM without its cases, and as it is: every type but
\* Available is "used".
MarkRegionFree(region) == SetRegionFree(Frames(region))

MarkRegion(region) ==
  IF region.available THEN SetRegionFree(Frames(region)) ELSE SetRegionUsed(Frames(region))

\* One turn of the loop of initPMM.
AddRegion ==
  /\ pc = "regions"
  /\ IF entry <= Len(grubMap)
     THEN /\ MarkRegion(grubMap[entry])
          /\ entry' = entry + 1
          /\ pc' = pc
     ELSE /\ pc' = "reserve"
          /\ UNCHANGED <<memoryMap, usedBlocks, entry>>
  /\ UNCHANGED <<grubMap, memorySize, maxBlocks, reply, held, bootMap>>

\* The blocks the last line of initPMM reserves, less one and as they are: the
\* low memory, kernel and bit map included.
LowBlocksButLast == Run(0, KernelBlocks - 1)

LowBlocks == Run(0, KernelBlocks)

\* The last line of initPMM.
ReserveKernel ==
  /\ pc = "reserve"
  /\ SetRegionUsed(LowBlocks)
  /\ bootMap' = memoryMap'
  /\ pc' = "ready"
  /\ UNCHANGED <<grubMap, entry, memorySize, maxBlocks, reply, held>>

-----------------------------------------------------------------------------
GetFreeBlockCount == Wrapped(maxBlocks - usedBlocks)

\* A run that is looked at from its second block on.
FirstBitUnchecked(b, size) == \A k \in Run(1, size - 1) : b + k \notin memoryMap

RunIsFree(b, size) == \A k \in Run(0, size) : b + k \notin memoryMap

\* firstFreePhysicalPagesBits looks at whole words only, and a run that starts
\* in the last word may end past the map.
Scanned == Run(0, WordBits * (maxBlocks \div WordBits))

FreeRuns(size) == IF size = 0 THEN {} ELSE {b \in Scanned : RunIsFree(b, size)}

\* getFreePhysicalPage(size) when it finds a run: the lowest one.
Allocate(size) ==
  /\ pc = "ready"
  /\ GetFreeBlockCount > 0
  /\ \E frame \in FreeRuns(size) :
       /\ \A other \in FreeRuns(size) : frame <= other
       /\ memoryMap' = memoryMap \cup Run(frame, size)
       /\ reply' = [size |-> size, addr |-> frame * BlockSize]
       /\ held' = held \cup {[base |-> frame, size |-> size]}
  /\ usedBlocks' = Wrapped(usedBlocks + size)
  /\ UNCHANGED <<pc, grubMap, entry, memorySize, maxBlocks, bootMap>>

\* getFreePhysicalPage(size) when it logs "PMM: Out of memory".
Refuse(size) ==
  /\ pc = "ready"
  /\ GetFreeBlockCount <= 0 \/ FreeRuns(size) = {}
  /\ reply' = [size |-> size, addr |-> nullptr]
  /\ UNCHANGED <<pc, grubMap, entry, memorySize, memoryMap, maxBlocks, usedBlocks,
                 held, bootMap>>

\* What freePage does to the map, with its loop one turn short and as it is, and
\* to the counter.
FreedButLast(b) == memoryMap \ Run(b.base, b.size - 1)

Freed(b) == memoryMap \ Span(b)
CounterAfterFree(b) == Wrapped(usedBlocks - b.size)

\* freePage(ptr, size) by the holder of the block.
FreePage(b) ==
  /\ pc = "ready"
  /\ memoryMap' = Freed(b)
  /\ usedBlocks' = CounterAfterFree(b)
  /\ held' = held \ {b}
  /\ reply' = NoReply
  /\ UNCHANGED <<pc, grubMap, entry, memorySize, maxBlocks, bootMap>>

Next ==
  \/ CountRegion
  \/ FillMap
  \/ AddRegion
  \/ ReserveKernel
  \/ \E size \in Requests : Allocate(size) \/ Refuse(size)
  \/ \E b \in held : FreePage(b)

Spec == Init /\ [][Next]_pmmVars

-----------------------------------------------------------------------------
TypeOK ==
  /\ pc \in {"count", "fill", "regions", "reserve", "ready"}
  /\ grubMap \in Seq(Region)
  /\ entry \in Nat \ {0}
  /\ memorySize \in 0 .. AddressSpace - 1
  /\ memoryMap \in SUBSET Nat
  /\ maxBlocks \in 0 .. AddrBlocks - 1
  /\ usedBlocks \in 0 .. CounterRange - 1
  /\ reply \in [size : Nat, addr : Nat]
  /\ held \subseteq [base : 0 .. AddrBlocks - 1, size : Requests \ {0}]
  /\ bootMap \in SUBSET Nat

\* No block of memory is given to two callers: the spans of two outstanding
\* answers of getFreePhysicalPage never meet, whatever was freed in between.
NoDoubleAllocation ==
  \A a, b \in held : a # b => Span(a) \cap Span(b) = {}

\* Once initPMM has returned, the bit map says exactly what it must: a bit is
\* set if it was set at boot or its block is held, and no held block was set at
\* boot.  Nothing is lost by an allocation and a free, and nothing freed twice.
HeldBlocks == UNION {Span(b) : b \in held}
BitmapExact ==
  pc = "ready" => /\ memoryMap = bootMap \cup HeldBlocks
                  /\ bootMap \cap HeldBlocks = {}

\* The kernel's own memory (the first 2 MB, which holds the image, the boot
\* structures and the bit map itself) is never handed out, and so no success
\* is answered with address 0, which callers read as a failure.
KernelReserved ==
  pc = "ready" => /\ Run(0, KernelBlocks) \subseteq memoryMap \ HeldBlocks
                  /\ \A b \in held : b.base * BlockSize # nullptr

\* The boot loader's map as it is meant, address by address, and of blocks: all
\* of block b is memory whose last entry calls it available, or no address of b
\* is in any entry.
Addresses(b) == Run(b * BlockSize, BlockSize)
Describes(region, a) == a \in Run(region.addr, region.len)
AvailableAt(a) ==
  \E i \in DOMAIN grubMap :
    /\ grubMap[i].available /\ Describes(grubMap[i], a)
    /\ \A j \in DOMAIN grubMap : j > i => ~Describes(grubMap[j], a)
Available(b) == \A a \in Addresses(b) : AvailableAt(a)
Undescribed(b) == \A a \in Addresses(b), i \in DOMAIN grubMap : ~Describes(grubMap[i], a)

\* The blocks at the ends of an entry that addresses alone cannot settle or that
\* the code gets wrong: the one it starts in the middle of, and those it reaches
\* behind as many blocks as its length holds.  An entry whose ends lie on block
\* boundaries has none; of another the last may lie in the entry as a whole.
Touches(region, b) == \E a \in Addresses(b) : Describes(region, a)
Ragged(region, b) ==
  /\ Touches(region, b)
  /\ \/ b * BlockSize < region.addr
     \/ b >= region.addr \div BlockSize + region.len \div BlockSize
AtRaggedEnd(b) == \E i \in DOMAIN grubMap : Ragged(grubMap[i], b)

BelowLimit ==
  \A i \in DOMAIN grubMap : grubMap[i].addr + grubMap[i].len < AddressSpace

\* What memory callers may be given, if the machine has none above 4 GB: blocks
\* every address of which is Available in its last entry, or blocks no entry
\* describes, and of those, inside the part memset filled, only the ones in the
\* upper half of a byte, which the pattern 0xF leaves clear.  The ends that do
\* not lie on block boundaries are the one exception: setRegionUsed and
\* setRegionFree round start and size down apart, and a caller may be given
\* memory of a Reserved entry there.
HandedOutMemory ==
  (BelowLimit /\ pc = "ready") =>
    \A b \in HeldBlocks :
      \/ Available(b)
      \/ /\ Undescribed(b)
         /\ b \div ByteBits \in 1 .. maxBlocks \div ByteBits => b % ByteBits >= ByteBits \div 2
      \/ AtRaggedEnd(b)

\* The log line "PMM: Out of memory" taken at its word: a request for one block
\* is refused only when no block of Available memory below maxBlocks is free.
OutOfMemoryIsTrue ==
  (pc = "ready" /\ reply = [size |-> 1, addr |-> nullptr]) =>
    \A b \in Run(0, maxBlocks) : Available(b) => b \in memoryMap

\* While the counter is not 0 a refusal is honest about the whole words of the
\* map: every Available block there, the ragged ends of entries apart, is the
\* kernel's or held by a caller, so neither boot nor a sequence of allocations
\* and frees has mislaid one.
RefusalMeansHeld ==
  (BelowLimit /\ pc = "ready" /\ reply = [size |-> 1, addr |-> nullptr] /\ GetFreeBlockCount # 0) =>
    \A b \in Scanned :
      Available(b) => b \in HeldBlocks \cup Run(0, KernelBlocks) \/ AtRaggedEnd(b)

\* The frame allocator implements Allocator: initPMM does not touch `held'.
Blocks == INSTANCE Allocator
            WITH Block <- [base : 0 .. AddrBlocks - 1, size : Requests \ {0}]
ImplementsAllocator == Blocks!Spec
=============================================================================
