# TLA+ models of pros

pros is a small 32-bit x86 kernel: Multiboot entry, higher-half mapping, frame
allocator, paging, heap, interrupts, text terminal, a virtual file system and a
polled ATA driver. One processor runs one thread, `kmain`; interrupt stubs are
the only code that runs between its instructions. Nothing is persisted. What is
hard in it is therefore not concurrency in general but

* arithmetic at the edges of maps, buffers and 32-bit words;
* long sequences of legal calls that degrade a shared structure (bit map, chunk list, tree);
* data structures that lie in uncleared or shared memory;
* the interrupt path, which does interleave with everything, and the device
  side of the ATA ports.

## 1. Inventory

| Component | Source | State | Operations | What makes it correct |
|---|---|---|---|---|
| Physical memory manager | `MM/PMM.cpp`, `MM/MemoryManager.cpp` | bit map in RAM behind the kernel, `maxBlocks`, `usedBlocks`, `memorySize` | `init`'s walk, `initPMM`, `setRegionUsed/Free`, `getFreePhysicalPage`, `freePage` | no frame handed out twice, none of the kernel's or of reserved memory; the map says what is held; a refusal is honest |
| Virtual memory manager | `MM/VMM.cpp` | page directory, page tables (in frames), `currentPageDirectory` | `initVMM`, `setPageDirectory`, `mapPage` | the kernel stays mapped; each heap page has a frame of its own; nothing else is mapped |
| Kernel heap | `MM/Heap.cpp`, `MM/kmalloc.cpp` | chunk headers in the heap's own pages, `usedMemory` | constructor, `malloc`, `free` | live blocks never overlap or get written by the heap; the list tiles the heap; searches end |
| Virtual file system | `FS/VFS.cpp`, `Lib/GenericTree.hpp`, `Lib/List.hpp` | tree of mounts | `init`, `mount`, `openFile`, `read`, `findDirectory` | a path finds what was mounted on it last; siblings have different names |
| Interrupts | `Hardware/IDT.cpp`, `interrupts.asm` | descriptor table, two 8259 controllers, IF, the stubs' frames on the stack | constructor, `init`, `handleInterrupt` | no line stays in service; no stub ends another's; requests are served |
| ATA driver | `Driver/ATA.cpp` | the drive's registers, sector buffers | `identify`, `read`, `readSector` | `read` delivers the bytes asked for, writes nowhere else, returns |
| Terminal | `VGA.cpp` | screen memory, cursor and its registers, colours | `clear`, `putChar`, `scroll`, `updateCursor`, colours | the screen shows the end of what was printed, in the colours it was printed in; nothing is written behind the screen's memory |
| Log | `Lib/Log.cpp` | none but the place in a format | `log`, `klog`, `__log`, `printf`, `panic` | a format prints what it means and takes the arguments it names; numbers fit |
| Strings | `Lib/String.cpp` | none | `memset`, `strsep`, `itos`, ... | each does what its callers expect |
| Stack protector | `Lib/StackSmashProtector.cpp` | none | `__stack_chk_fail`, which panics | the panic's lines appear whatever was being printed |
| Kernel start | `Boot/boot.asm`, `main.cpp` | the boot page directory, the order of `kmain`'s calls | `kmain` | each part is used after it is ready; the file read is the one mounted; boot ends |
| Segments, ports | `Hardware/GDT.cpp`, `gdt.asm`, `Port.cpp` | constants | | |
| Partition table, Ext2, self tests | `FS/PartitionTable.cpp`, `FS/Ext2.cpp`, `Debug/Tests.hpp` | none that is used | stubs or not called | |

How they meet: `kmain` starts the parts in order and then mounts drives and
reads. The VMM takes frames from the PMM and backs the heap with them; `new`,
`strdup`, the tree and `readSector` take memory from the heap; `openFile` and
`VFS::read` pass control to the `Storage` of a mounted node, which is an ATA
object; both ATA objects write the same ports; reading a drive's status clears
its interrupt line, which the controllers may then report as spurious. All of
it logs. `memset` is the one helper whose behaviour matters everywhere: its
countdown writes the bytes 1 to `count` and never byte 0, so that each caller
keeps an old first byte and touches the byte behind. Every model that clears
memory contains exactly that.

## 2. Modules

| Module | What it is |
|---|---|
| `PMM` | the frame allocator and boot's walk over the memory map |
| `Allocator` | abstract: blocks are handed out disjoint and taken back by their holder |
| `VMM` | extends `PMM`: `initVMM` from the boot directory to the heap's last page |
| `MemoryProofs` | theorems about `PMM`, proved with TLAPS, and on top of them those about `VMM` |
| `Heap` | the chunk list, byte by byte |
| `HeapProofs` | theorems about `Heap` |
| `VFS` | the tree and the path walks, one token per step |
| `VFSProofs` | theorems about `VFS` |
| `MountTable` | abstract: a table from paths to what is mounted on them |
| `Interrupts` | controllers, acknowledge cycles, stubs, `handleInterrupt` |
| `InterruptsProofs` | theorems about `Interrupts` |
| `ATA` | the driver and the drives on its channel |
| `ATAProofs` | theorems about `ATA` |
| `Disk` | abstract: a read hands over the bytes it was asked for, in order |
| `Terminal` | `putChar` and `setTextColor` calls, one a step, of the log, `clear` and a panic |
| `TerminalProofs` | theorems about `Terminal` |
| `Paper` | abstract: an endless sheet that is written row by row |
| `Numbers` | `countDigit`, `itos` and `reverse` on a buffer |
| `Printf` | extends `Numbers`: `printf`'s walk over a format |
| `PrintfProofs` | a theorem about the numbers `Printf` prints |
| `Kernel` | composes `VFS` and `ATA` under `kmain`'s second stage, on one heap |
| `Arithmetic` | lemmas that several proofs share: `\div` and `%`, induction over the naturals, functions defined by recursion |
| `MC*` | values of the constants for TLC |

`PMM` and `Heap` implement `Allocator`, `VFS` implements `MountTable`, `ATA`
implements `Disk` and `Terminal` implements `Paper`; these are the properties
`ImplementsAllocator`, `ImplementsMountTable`, `ImplementsDisk` and
`ImplementsPaper` of their runs, and all five are also theorems.

### PMM

The map is the set of bits that are 1, including bits past its end, since the
search may run there. `pc` follows boot (`count`, `fill`, `regions`, `reserve`,
`ready`); each loop over the memory map is one action per turn. `held`
and `bootMap` are history variables. `Filled` is `memset(map, 0xF,
n)`: byte 0 untouched, one byte too far, half of each byte's bits. `usedBlocks`
is counted the wrong way round by `setRegionUsed/Free`, as in the code; so the
model's free count is wrong in the same way. Callers free only what they hold.

What memory may be used is stated apart from the code's arithmetic, address by
address (`AvailableAt`, `Describes`): a block is `Available` if the last entry
that has it calls *every* address of it available. `setRegionUsed/Free` round an
entry's start and its length down separately, so that at an end that does not
lie on a block boundary they mark blocks that the entry has only a part of, or
leave out its last one. Those blocks are `AtRaggedEnd`, the one exception in
`HandedOutMemory` and `RefusalMeansHeld`; see section 5.

### VMM

`tables` is what the frames hold when read as page tables, with a present bit
that RAM may have left. A frame is reached at `KernelPage + frame`, and whether
that is mapped is decided by walking `tables` as the processor does (`Mapped`):
a page structure outside the 4 MB window is a fault, `step = "fault"`, because
the stubs return to the faulting instruction for ever. The processor is taken
to walk the directory at every access; the translations it may have cached are
not modelled. `refused` remembers that `getFreePhysicalPage` answered nullptr,
which `initVMM` goes on with as frame 0.

### Heap

`mem` is the memory itself, byte by byte; a header's fields are four bytes each
of it (`Peek`, `Put`), and `allocated` is one. `malloc` rounds nothing, so that
after a request of five bytes (`strdup("root")`) the next header starts at an
odd address; overlapping headers, links into blocks, and what `memset` and
callers overwrite are all visible. The
search of `malloc` is one action per chunk, because on a broken list it need
not end. An access outside the mapped pages is `pc = "fault"`. `FreeOrder` says
how callers free: `"lifo"` contains the kernel of today, which frees nothing;
`"any"` is the other discipline the interface allows.
Abstractions: in the instances a byte has four bits, so that a word of four
bytes has sixteen. `free` looks at the pages behind all the pointers it will
follow before its first write, so that a fault leaves the memory as it was;
behind a fault nothing runs that could tell.

### VFS

Nodes are numbered as they are created; a list inserts at its head, so of two
children the later comes first. A path is its sequence of tokens; `strsep` is
`Token`/`After`. `mount` and `openFile` are walks of several steps with the
code's own variables. Storages answer `findDirectory` from a constant table
(`Found`). Paths are absolute, as all of the kernel's are. In the refinement the
call at work is `MountTable`'s `request`, so that a step must serve the path
that was asked for. What the table promises an open: a path it knows, a last "/"
aside, is answered with what is mounted on it. For any other path only the file
system on its longest known prefix has a say (`Below`): the answer is a file
that storages find, one after the other, from there on, or none. Which of these
it must be is left open, because the code does not keep its own promise there
(section 5): one name beyond the tree no storage is asked at all, further beyond
it is asked for the wrong names, and so it is for "/".

### Interrupts

A device line rises (requesting) and falls (taking the request back) at any
time. The processor notices a request between two instructions if IF is set and
the last instruction was not `sti`, then gives one or two acknowledge pulses;
lines move between them, which is how spurious vectors come about. A stub is an
element of `stack` that goes through master end-of-interrupt, slave
end-of-interrupt (`interrupt >= 40`), `sti`, `iret`; an NMI may arrive at each.
The controllers, lines and the processor are external and follow what the code
relies on; the constructor's ten writes drive the controllers' initialisation
sequence one at a time. Not in it: saved registers and segments, IDT entries
beyond "there is a table", ICW4's contents.

### ATA

Two driver objects and two drives on one channel. A drive takes a command, may
be late in showing BSY, is busy, and ends in data or an error; one that is
absent reads as zeros or, on an empty channel, as a floating bus. A byte is
named by drive, sector and position, so that a wrong byte in the caller's
buffer is a wrong name. `buffers` counts the sector buffers taken from
`kmalloc`, none of which is freed; when there are none left the driver faults
on its null pointer. The writes to the sector and address registers are one
step with the command, since no drive of the model looks at them before. In the
refinement `Disk`'s `answer` is what lies in the caller's buffer; it is
`spoilt`, so that only its length is promised, once the drive is absent, has
reported an error, or had its data port read before the data was due. A read of
nothing at offset 0 takes 2^32 - 1 for its last byte and counts as a read of
everything.

### Terminal

`todo` holds the calls of `putChar` and `setTextColor` that a `log`, `__log` or
`panic` has still to make; `PrintStep` makes one. Between any two of them
`Panic` may break in, as every function compiled with the stack protector may
raise it on return; what was being printed is dropped and the panic's own two
lines follow. A cell is a character, an ink and a ground; a blank has no ink.
`updateCursor` sets two byte registers, which hold anything until then: neither
the constructor nor `clear` writes them. `scrolled` is a history variable with
the rows that have left at the top, so that the refinement's `sheet` is
`scrolled` followed by the screen. Formats are taken as what `printf` makes of
them, tags are shorter than in the code, and a panic is not panicked in again.

### Numbers and Printf

`Numbers` is `itos` step by step: digits from the last one on, the zero byte,
`reverse`. Its buffer grows wherever it is written, so that a write behind the
`countDigit` bytes that `printf` reserves is visible. The parameter is a u32, so
that a negative int (`given`, the argument of `%d`) becomes the u32 of the same
bits and is printed as that: -1 is 4294967295. The branch that writes `'-'` is
dead for the same reason and is left out (section 5). `Printf` walks the
format: runs of plain characters, `%%`, `%c`, `%s`, the numbers `%d` and `%x`
(through `Numbers`), and an unknown conversion, which ends the interpretation.
What it prints is a sequence of characters and of numbered arguments, to be
compared with `Meaning`, the reading of the same format from its definition.

### Kernel

`Program` is `kmain`'s second stage call by call: both drives are made and
identified, seven nodes are mounted, `/dev/hda` is opened and its first sector
read. The calls are `VFS`'s and `ATA`'s own actions, instantiated, and never
overlap, since `kmain` waits for each. `VFS::read` returns 0 for a node without a storage,
and boot goes on. Each call takes from one heap what it takes
by `new`, `strdup` and `kmalloc`; when the heap is used up the kernel stops at
the page fault of a write through `nullptr`. `VFS::init`'s own allocations are
the `New(4)` at the start.

## 3. Runs

| Run | Shows | Expected |
|---|---|---|
| `pmm_small_machines` | the frame allocator on every map of up to three entries and every order of requests and frees | pass |
| `pmm_out_of_memory` | "PMM: Out of memory" is logged with Available memory free, on a machine with a reserved area above its RAM | violation |
| `vmm_boot` | boot through `initVMM` on machines from barely more RAM than the kernel to more than the window | pass |
| `heap_freed_in_reverse` | the heap with no frees or last-in first-out ones, and requests up to the edge of a word | pass |
| `heap_magic_any_order` | frees in another order lead a split over its neighbour's header; the magic check meets a wrong number | violation |
| `vfs_mounts_and_opens` | every order of mounts and opens on a small tree | pass |
| `vfs_storage_asked_for_the_rest` | a storage is not given what lies behind its mount point | violation |
| `interrupts_two_controllers` | two controllers of three lines, one NMI, faults | pass |
| `ata_two_drives` | identify and read on two drives, present or not, late or not, failing or not | pass |
| `terminal_as_paper` | logs at every level, plain text, `clear` and grounds in every order, with a panic between any two characters | pass |
| `formats_printed` | every format of up to five characters, with numbers of every length in both bases | pass |
| `kernel_boots` | `kmain`'s second stage on every machine, with enough heap, just enough, and too little at several places | pass |

### What the properties say

* **PMM.** `NoDoubleAllocation`, `BitmapExact` (map = boot map + held blocks, disjoint), `KernelReserved`, `HandedOutMemory` (only blocks Available at every address, or undescribed ones that `memset`'s pattern left clear; blocks at the ragged ends of unaligned entries are excepted), `RefusalMeansHeld` (while the counter is not 0, a refusal means that all blocks of the whole words that are Available at every address are held, with the same exception), `ImplementsAllocator`.
* **VMM.** `KernelStaysMapped`, `HeapBacked`, `NothingElseMapped` (a stray mapping through the directory's uncleared first byte happens only if the directory is not right behind the table), `FaultMeansTight` (unless memory ran out, a fault needs a machine with fewer than five free frames in the window; without the exception it is false, since the wrongly counted `usedBlocks` can refuse a frame while plenty are free), `InitEnds`.
* **Heap.** `TilesHeap` (the chunks cover the heap without gap or overlap), `HeldBlocksAreChunks`, `HonestUntilFreed` (until the first free, a refusal means that the request and its header do not fit), `GuardDecides` (the counter alone decides what the search would find, while nothing is freed), `FaultOnlyAtBrim` (the only fault is a request that leaves no room for the next header at the heap's end), `ImplementsAllocator`, `SearchEnds`.
* **VFS.** `SiblingsUnique`, `ImplementsMountTable` (whatever was mounted in which order, a path of the tree leads to what was mounted on it last, and any other to nothing but what storages find from its longest mounted prefix on).
* **Interrupts.** `InServiceIsHandled` (a line in service has a stub that will still end it), `EndsOnlyItsOwn` (a device's stub never ends another line), `StubsDoNotNest`, `EveryoneServed`.
* **ATA.** `ImplementsDisk` (a read hands over exactly its bytes, in order, none behind the caller's buffer whatever the drives do, and its own drive's bytes if that drive behaved), `NothingOwed` (no drive owes data between calls), `CallsEnd`.
* **Terminal.** `TypeOK` (no `putChar` leaves the cursor where the next one would write behind the screen), `ImplementsPaper` (what scrolled off, what the screen shows, the cursor registers and the colours are those of a sheet written row by row, through wraps, scrolls, clears and panics).
* **Printf.** `NumberPrinted` (the characters printed are the number without leading zeros, for a negative int the u32 of its bits, and `itos` writes exactly one byte behind them), `FormatPrinted` (the walk ends, has printed what the format means and taken no argument it does not name).
* **Kernel.** `MountedAsAsked`, `MbrIsFirstSector` (the boot record is the slave's first sector if there is a slave that behaves), `BootEnds`.

Every property of a passing run has a mutant in `PROJECT.json`: a definition
with a plausible slip (`LowBlocksButLast`, `OfSlaveLate`, `PollBusy`, ...)
under which TLC finds that property violated. The mutated definitions stand in
the modules just before the ones they replace and are used nowhere else.

### Bounds, and why they are enough

* `MCPMM`: two addresses per block, two bits per byte and four per word of the map, memories of up to twelve blocks: the map has several words, its last may be partial, entries overlap, and start and end inside blocks, so that a block may be available in part and reserved in part. Requests 0 to 3.
* `MCVMM`: twelve entries per table, kernel of six frames, heap of three pages; RAM from 6 to 23 frames with up to two holes at every place `initVMM` takes a frame from; garbage all ones or all zeros, in the map and in the page structures; and reserved areas above RAM as long as makes the counter of used blocks run out at each of `initVMM`'s requests.
* `MCHeap`: 120 bytes, room for up to five blocks: enough for a chunk with two live neighbours and one beyond. Requests of 0, 5, 39, 40 and 65520 bytes: aligned and unaligned, with a remainder smaller than, equal to and larger than a header, a byte short of and at the brim, and one that wraps a sixteen-bit word with the header added; in any order of frees 0, 3, 5, 8 and 40.
* `MCVFS`: two names, two files, paths of up to four tokens including empty ones.
* `MCInterrupts`: a line above the cascade, one below it (also the spurious one), three of the slave. `MaxNmis = 1` bounds NMIs; one is enough to hit every step of a stub.
* `MCATA`: sectors of four bytes, drives of two sectors, reads of nothing, inside a sector and over an edge, and beyond the disk. `Buffers = 2` is kmalloc's limit and ends every behaviour's reads.
* `MCTerminal`: four columns and two rows, so that every log line wraps, some fill the last column exactly and most scroll more than once; three values of a byte, so that the cursor needs both registers. `MaxCalls = 3` bounds the calls: the colours and the cursor that one leaves, a second meets and a third after a `clear` in between.
* `MCPrintf`: `MaxFormat = 5` has room for two conversions and a character before, between or behind them, and for `%%` next to either. Numbers have ten bits: 0, the first of each length in both bases, the largest and negative ints.
* `MCKernel`: sectors of four bytes; `kmain` takes 57 blocks, and the heaps have 70, 57, 56, 30, 5 and no blocks to spare. The calls are `kmain`'s own, unabridged.

`CHECK_DEADLOCK FALSE` is set where the system stops: a kernel at a fault, a
boot that is done, a terminal after a panic or out of calls, a format that is
printed, or (in `Interrupts` and `ATA`) where a stop would show up in a
liveness property anyway.

### Fairness

* `VMM`, `Heap`: weak fairness of the kernel's own steps (in `Heap`, of a call of `malloc` in progress; nobody has to call). One thread runs and nothing makes it wait. `PMM`, `VFS` and `Terminal` state no liveness and assume no fairness.
* `Interrupts`: weak fairness of the main program, of the stubs and of a begun acknowledge cycle; strong fairness of `Notice`, because the processor samples its interrupt pin between any two instructions while IF is set, also when a faulting instruction is restarted again and again. None of the devices: a line may stay high or toggle for ever, so lower lines are promised service only while higher ones are quiet.
* `ATA`: weak fairness of the driver and of each drive's progress: a drive finishes a command in the end, with data or an error. The driver has no timeout, so without this its poll loop would not end.
* `Printf`: weak fairness of its steps, for the same reason as above; it is called once.
* `Kernel`: weak fairness of whatever `kmain` does next and of each drive's progress, as in `ATA`.

## 4. Proofs

Every theorem holds for all values of the constants that satisfy the named
assumptions; TLC evaluates those on each run. The invariant of a component is
a conjunction of named parts, each proved to be kept by one lemma per action,
and TLC has checked it on the component's run before it was proved.

### The frame allocator

The first part of `MemoryProofs`, from `GeometryAssumption` and `InputAssumption` (positive block,
byte, word, address and counter sizes; a kernel of at least one block; any set
of memory maps; any finite garbage; any set of request sizes):

| Theorem | Statement |
|---|---|
| `TypeCorrect` | `Spec => []TypeOK` |
| `NoBlockTwice` | `Spec => []NoDoubleAllocation` |
| `MapIsExact` | `Spec => []BitmapExact` |
| `KernelIsReserved` | `Spec => []KernelReserved` |
| `OnlyAvailableMemory` | `Spec => []HandedOutMemory` |
| `RefusalIsHonest` | `Spec => []RefusalMeansHeld` |
| `Refinement` | `Spec => ImplementsAllocator` |

The argument is one inductive invariant, `IInv == TypeOK /\ Reservation`.
None of the three safety invariants is inductive alone: that a new run is
disjoint from the held ones needs that every held block is set in the map
(`BitmapExact`), which needs, for `FreePage`, that held blocks are disjoint
(`NoDoubleAllocation`), or the free of one would clear bits of another; and
that the kernel's bits survive frees needs that no held block overlaps what
boot set. `Reservation` says all of it at once: before `ready` nothing is held,
and from then on the map is the boot map and the held blocks, pairwise
disjoint, with the low blocks in the boot map. The steps of boot are proved to
keep `held` empty; `ReserveKernel` establishes the rest; `Allocate` keeps it
because `RunIsFree` looked at every bit of the run; `FreePage` because of
disjointness. `Refinement` maps `Allocate` to `Hand`, `FreePage` to `TakeBack`
and every other step to a stutter.

What the blocks are, `HandedOutMemory` and `RefusalMeansHeld`, is a second
invariant on top of it, `Survey`, in two parts. One follows the code's walk over
the memory map: a clear bit is one that the last entry counting for it so far
calls available, or that no entry has counted for and `memset`'s pattern leaves
clear; and a block available so far is clear but for the kernel's. Boot ends
with the whole map walked, and from there `BitmapExact` carries it: a bit set
later belongs to a held block. The other part compares the blocks the code
counts with the addresses the entries describe: away from an entry's ragged ends
the two agree for all addresses of a block (`EvenEnds`, `WholeMap`). With a
memory map of whole blocks there are no ragged ends, and the theorems have no
exception.

### The tree

`VFSProofs` proves, from `PathAssumption` alone (any sets of names, files and
paths of any length; storages that find files or nothing):

| Theorem | Statement |
|---|---|
| `TypeCorrect` | `Spec => []TypeOK` |
| `NoTwins` | `Spec => []SiblingsUnique` |
| `Refinement` | `Spec => ImplementsMountTable` |

The invariant adds one conjunct, `Tree`, to the first two: the nodes are a
sequence of nodes, and nobody is the root's parent, so that the root is no one's
twin. `mountRecursive` makes a node only when no child has its name, and that is
what `MountNew`'s guard gives; the other steps leave the nodes' names and
parents alone. It matters because `mount` goes on with the last child that
matches and `getMount` with the first.

The refinement maps the tree to the table by `PathOf`, a recursion from a node to
the root. That it has a value at every node follows from the tree's growing
downwards, each node having a larger number than its parent (`PathEquation`);
that no two nodes have the same path, so that the table is a function, from
`SiblingsUnique` (`PathInjective`); and a new leaf leaves the paths of the
others alone (`PathKept`). The invariant `Walk` says where a call stands: the
path it serves is that of the node it has reached followed by what is left of
it, and behind the last node of a look-up no child has the next name, so that
what it has walked is the longest path of the table (`LongestIs`); and while
`openFile` asks storages, its file so far is one they find from the mount's on
(`Below`), and is the mount's own for a path of the table. A call that
begins is `MountTable`'s `Ask`, a mount's new node is its `Grow`, the step that
ends a walk is its mount or its answer, and every other one is a stutter.

### Paging

The second part of `MemoryProofs`, from the frame allocator's assumptions and `PagingAssumption`
(tables of any size up to the address space, a heap of one to a whole table of
pages, a kernel index with room for the heap behind it, any garbage):

| Theorem | Statement |
|---|---|
| `PagingTypeCorrect` | `VMMSpec => []VMMTypeOK` |
| `KernelMapped` | `VMMSpec => []KernelStaysMapped` |
| `HeapIsBacked` | `VMMSpec => []HeapBacked` |
| `NothingStray` | `VMMSpec => []NothingElseMapped` |
| `FaultsAreTight` | `VMMSpec => []FaultMeansTight` |

The invariant is `VTypes /\ Progress`, and while memory has not run out
`HalfWay /\ Built`: what of the directory and the tables is complete at each of
`initVMM`'s steps, and where each mapped heap page leads. The hazard is
`memset`, which clears the first entry of the frame *behind* the one it is
given: a frame taken right below a page table would cost it an entry. It does
not happen because `initVMM` gives no frame back and the search starts from the
bottom: a new frame lies above every frame already held (lemma `OneByOne` of
the invariant), so that the frame behind it is none of the page structures.
`NothingStray` allows for directory entry 0, which `memset` leaves as RAM had
it. `Arithmetic` has the facts about `\div` and `%` by a constant that is not a
literal, which SMT does not find.

`FaultsAreTight` counts. `Tally` says that at most none, one, two and three
frames are held when `initVMM` asks for the page table, the directory and the
heap's table. If five frames of the window are free after boot, two of them are
still free then (`TwoLeft`). The frame handed out is the lowest free one of all,
so that at least one frame of the window lies behind it, and `memset`, which
writes that one's first byte, stays inside (`EnoughIsClearable`). A later access
does not fault, because the window stays mapped.

### The heap

`HeapProofs`, from `LayoutAssumption`: a heap of any number of bytes at any
address but 0, requests of any size up to the last one of a u32 and any user
data. Bytes have any number of values, `Range32` is the fourth power of it, and
heap and a header together take at most half of `Range32`, so that a request
large enough to wrap the guard's u32 sum is larger than any chunk. (The kernel's
heap is 1 MB at 0xC0400000.) Nothing is assumed of alignment.

| Theorem | Statement |
|---|---|
| `TypeCorrect` | `Spec => []TypeOK`, for frees in any order |
| `ListTilesHeap` | `FreeOrder = "lifo" /\ Spec => []TilesHeap` |
| `BlocksStayChunks` | ... `=> []HeldBlocksAreChunks` |
| `GuardIsExact` | ... `=> []GuardDecides` |
| `RefusalIsHonest` | ... `=> []HonestUntilFreed` |
| `FaultsAtTheBrim` | ... `=> []FaultOnlyAtBrim` |
| `Refinement` | ... `=> ImplementsAllocator` |

The hypothesis `FreeOrder = "lifo"` is needed: `heap_magic_any_order` shows
what else happens. It contains the kernel of today, which frees nothing.

`Layout` says what the list looks like then. The held blocks lie one behind
the other, each behind its own header (`Blocked`), whose links, mark and size
are right (`Linked`). Behind the newest there are two possibilities. `Open`:
one free chunk up to the heap's end. `Closed`: nothing; `free` has merged a
chunk into an allocated predecessor, so that the newest block's chunk has grown
up to the heap's end and no request finds room any more. This is why
`TilesHeap` can hold in spite of the wrong merges. `Accounted` bounds what is
handed out by `usedMemory`, strictly once `Closed`, so that the counter equals
the bytes held only as long as nothing was freed; `Searching` says where
`malloc`'s loop can stand. A split keeps all that because the guard on
`usedMemory` leaves room for the second header whenever the free chunk reaches
to the heap's end (`SplitPlace`); `SplitWrites` and `FreeWrites` say which words
the many writes of `malloc` and `free` leave as they were.

That a word reads as it was written, and that a write leaves the words it does
not meet alone, is arithmetic on bytes: `FourBytes` (four bytes and the word
they make are one to one), `Written`, `SameWord` and `SameHeader`. The rest
speaks of `word`, the value of the four bytes from any address on, so that
headers at any distance from each other are just words whose bytes are apart.

`TilesHeap` speaks of the list as `malloc` finds it, through the recursive
function `ChunkAt`. That it equals the held blocks' headers is proved by
exhibiting that function and showing that it satisfies the recursion at every
number: the set of numbers up to which the two agree is all of `Nat`
(`InductionOverNat` of `Arithmetic`, from the least counterexample that
well-foundedness gives).
The same is done for `BytesUpTo`.

### The interrupt path

`InterruptsProofs`, from `WiringAssumption` (controllers of any size, the
cascade on any line of the master with one below it, any number of NMIs):

| Theorem | Statement |
|---|---|
| `TypeCorrect` | `Spec => []TypeOK` |
| `DevicesDoNotNest` | `Spec => []StubsDoNotNest` |
| `InServiceHandled` | `Spec => []InServiceIsHandled` |
| `EndsItsOwn` | `Spec => EndsOnlyItsOwn` |

The invariant adds `Types`, `Programming` and `Nesting` to
`InServiceIsHandled`. `Programming` counts the constructor's writes, which
alternate between the controllers: until all ten are done no vector has an
offset that means anything. `Nesting` says why devices' stubs do not nest: the
innermost stub keeps IF clear until its last instruction, an NMI's stub is
always the innermost one and blocks further NMIs, and the IF a stub has pushed
says that the one below was at its `iret`. So the stub that ends a line is the
only one with anything to end, and a non-specific end of interrupt, which ends
the line of highest priority in service, meets its own.

### The drives

`ATAProofs`, from `DiskAssumption` (sectors of any even size smaller than a
u32's range, any number of them, any number of sector buffers) and
`RequestAssumption`, which is on the callers: no request names bytes beyond the
last one an offset can name. The sum of offset and size in `read` is a u32 and
would wrap there; `kmain` reads 512 bytes at 0.

| Theorem | Statement |
|---|---|
| `TypeCorrect` | `Spec => []TypeOK` |
| `DrivesSettled` | `Spec => []NothingOwed` |
| `Refinement` | `Spec => ImplementsDisk` |

`TypeOK` holds two facts that need an invariant: that the caller's buffer is
filled from the front without a gap, and that nothing is copied and no call
begins or ends once `kmalloc` has answered nullptr for a sector buffer.

`NothingOwed` speaks of calls that have returned; the invariant says where
driver and drive stand in between, while the port was not read early: the drive
that is not selected is settled; the selected one is settled until the command
is written, has no word read while the driver polls, and in the transfer stands
at the same word as the driver's loop (`InStep`). A drive that was still busy
at the first word would break that, and is exactly what `early` records. The
drive is done behind `2 * word + 2 = SectorSize`, the loop behind `Words`; that
these meet is the lemma `WordsOfSector`.

The refinement adds three parts. `Memory`: the buffers' domains, and that
nothing is written behind what has been filled. `Place`: how far `read` has
come, as one equation between the offset, the bytes filled and the sector
counter, with the first sector's offset in it, so that the loop ends with
exactly `Total` bytes. `Faithful`: unless the answer is `spoilt`, every byte
filled is the disk's, the drive at work has this sector's command, and the
words of the transfer so far are that sector's. `Finish` then delivers what
`Disk` promises; every other step is a stutter or one that spoils the answer.

### The screen

`TerminalProofs`, from `ScreenAssumption` and `CharacterAssumption` (any width
and height whose cells the two cursor registers can number; any messages of
non-empty characters; any grounds; neither blank nor newline among the control
characters that do nothing):

| Theorem | Statement |
|---|---|
| `CursorStaysOnScreen` | `Spec => []TypeOK` |
| `Refinement` | `Spec => ImplementsPaper` |

`TypeOK` is inductive as it stands; the work is `PutChar`, where a character in
the last column of the last row wraps and scrolls at once. The refinement needs
`IInv == TypeOK /\ Printable`: screen and scrolled rows have cells in them, and
behind each `setTextColor` that is still to come there comes a character
(`Paired`), so that the text to come tells which colour the pen gets. The lemmas
follow one `putChar` through its cases: in the row, at the row's end, in the last
row, where the screen's first row becomes the last of `scrolled` and
the sheet gains an empty one. `Written`, what the calls to come will print, is
the same for the rest of the calls once the first has been made, with the ink
that it leaves behind; that is shown with the two recursions unfolded
(`RecursionUpTo`).

### The numbers

`PrintfProofs` proves `EveryNumberPrinted == Spec => []NumberPrinted` from
`NumberAssumption`, for words of any width and any arguments of that width, with
or without a sign, in base 10 and 16. `given` ties the value that is printed to
the argument, which for an int below 0 is not the same.

The invariant has no powers of a base in it. A number's digits are described by
the chain of its quotients instead, `Quotients(r, m, v, base)`: `r[0] = v`, each
next one is the one before divided by the base, and, unless `v` is 0, only
`r[m]` may be 0.
While `itos` divides (`Writing`) the buffer holds the remainders of the chain so
far. While `reverse` swaps (`Turning`) the positions already swapped hold the
mirrored ones. At the end the recursions `countDigit` and `ValueOf` are unfolded
along the chain (`CountIs`, `ValueIs`): the number of digits is the chain's
length, and the value is the one that the chain began with. That such recursive
functions exist, so that they may be unfolded, is `RecursionBelow`, by
approximations on `0 .. n`.

### What is only model-checked

* Liveness (`InitEnds`, `SearchEnds`, `EveryoneServed`, `CallsEnd`, `FormatPrinted`, `BootEnds`): under fairness, and out of the prover's reach, as is `ENABLED`.
* `MountedAsAsked` and `MbrIsFirstSector` of `Kernel`. Its `Program` is a fixed sequence of calls, which TLC runs through on every machine; a theorem would need the state behind each call as an invariant, and would say little more than the theorems about `VFS` and `ATA`, whose actions these are.

## 5. What disagreed with the code's own words

* `PMM.cpp:87` "PMM: Out of memory": `usedBlocks` is counted the wrong way in `setRegionUsed/Free`, so the free count can be 0 with RAM free (`pmm_out_of_memory`).
* `Heap.cpp:36-37`: the magic number check can be met by legal calls, since `malloc` splits chunks that have no room for a second header (`heap_magic_any_order`).
* `VFS.cpp:6-7`: the file system at a mount point is to look in its own subdirectories; `openFile` hands it the path from its first slash (`vfs_storage_asked_for_the_rest`).

Noted, with no run of their own:

* the same counter can make `initVMM` lose its page directory with frames free: a refused frame is frame 0 to `initVMM`, which clears it and goes on. `FaultMeansTight`, stated at first without `~refused`, was refuted by such a machine.
* `PMM.cpp:63` logs the region "0x%x-0x%x is used" with the entry's own ends, but lines 60-61 (and 74-75) round start and length down separately. Of a reserved entry that starts or ends inside a block, the last addresses may not be marked, and a caller may be given them; a whole last block of an available one may be lost. The blocks in question are `AtRaggedEnd`; `HandedOutMemory`, stated at first without them, was refuted by a reserved entry from the middle of a block on.
* `VFS.cpp:6-7`: the file system looks for what is behind the mount point. For a path one name beyond the tree (`openFile("/a/b")` with a mount on `/a`) it is not asked at all: `getMount` has used up `filename`, the loop of line 212 makes no turn, and `/a`'s own node is returned. For "/" `getMount` uses up nothing, and the root's storage is asked for "". `MountTable` therefore promises no more of such an open than that only the storages below that mount have a say.
* `String.cpp:149-151` writes a '-' before a number below 0, but `itos` takes a u32: `%d` of a negative int (`Log.cpp:55-59`) prints the u32 of its bits. `NumberPrinted` says so.
* `free` never lowers `usedMemory`, so that "Out of memory" (`Heap.cpp:28`) comes too early after a free; `HonestUntilFreed` and `GuardDecides` therefore stop at the first one.
* `VFS.cpp:207` saves "initial address" after `getMount` has moved it.
* `printf`'s digit buffers are one byte short of `itos`'s terminator: `NumberPrinted` states that it is exactly one.
* `InterruptManager::init`'s `memset` writes the first byte of `masterCommandPort`'s vtable pointer; calls on the member do not use it.
* the stubs pass `Registers` by value, so that a handler's compiled code owns the saved registers `popa` restores; the models save and restore them.
* `PMM.cpp:44` and `:48` print formats that name more arguments than are passed; `FormatPrinted` says that `printf` then takes what is named.
* `klog` does not look at the serial line's status before it writes.

## 6. Not modelled

* `klog`'s serial port: a wire without state; the text is `log`'s. Of the component, `log`, `__log`, `printf` and `panic` are modelled.
* Segments and ports: five constant descriptors and single instructions, with nothing that changes or that another part tells apart.
* The partition table and Ext2: stubs that nothing calls; their bodies are commented out.
* The self tests, which nothing calls, and the vendored Multiboot header.
* `kmain`'s first stage as a sequence: it constructs the parts one after the other, and each part's module starts from its constructor. `VMM` composes the first two of them.
* Of the strings, `strlen`, `memcpy`, `strcpy` and `strcat` are used as what they say; `memcmp` and `strcmp` have no caller in what is modelled. `memset`, `strsep` and `strdup`'s allocation are part of their callers' actions.
* The debugging dumps of heap and tree only read.

## 7. Plan

1. Done: the six core components with `Allocator`, `MountTable` and `Disk`; the terminal with `Paper`; `Printf` and `Numbers`; the composition `Kernel`. Proofs of `PMM`, `VMM`, `Heap`, `VFS`, `Interrupts`, `ATA`, `Terminal` and `Numbers`: all their invariants, and the refinements of `Allocator` (twice), `MountTable`, `Disk` and `Paper`.
2. Proofs left: the two invariants of `Kernel`, from an invariant that gives the state behind each of `kmain`'s calls.
3. Models left: polling composed with `Interrupts`, since reading a drive's status takes IRQ 14 back.
