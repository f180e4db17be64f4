---------------------------------- MODULE VMM ----------------------------------
(***************************************************************************)
(* The virtual memory manager (Kernel/src/MM/VMM.cpp) on top of the frame  *)
(* allocator: once initPMM has returned, initVMM takes frames from it for  *)
(* the kernel's page table and page directory, maps the kernel, loads the  *)
(* directory and backs the kernel heap with frames.                        *)
(*                                                                         *)
(* Pages and frames are numbered; frame f is seen by the kernel at page    *)
(* KernelPage + f (PHYS_2_VIRT), if that page is mapped.  `tables' is what *)
(* the frames hold, read as page tables.                                   *)
(***************************************************************************)
EXTENDS PMM

CONSTANTS
  PerTable,         \* PAGES_PER_TABLE and PAGES_PER_DIR
  KernelIndex,      \* the directory index of 0xC0000000
  HeapPages,        \* pages of the kernel heap, which starts one table behind
  PageGarbage       \* the present bits RAM may hold at boot

ASSUME PagingAssumption ==
  /\ PerTable \in Nat \ {0} /\ PerTable <= AddrBlocks
  /\ HeapPages \in Nat \ {0} /\ HeapPages <= PerTable
  /\ KernelIndex \in Nat /\ KernelIndex + 1 < PerTable
  /\ 1 \in Requests
  /\ PageGarbage \subseteq BOOLEAN

VARIABLES
  step,             \* where initVMM is
  tables,           \* frame -> index -> [present, frame]
  table, dir,       \* the frames of the kernel's page table and page directory
  physicalAddress,  \* the frame to map next
  virtualAddress,   \* the page to map next
  refused           \* whether getFreePhysicalPage has answered nullptr to initVMM

vmmVars == <<step, tables, table, dir, physicalAddress, virtualAddress, refused>>
allVars == <<pmmVars, vmmVars>>

KernelPage == KernelIndex * PerTable
HeapPage == KernelPage + PerTable
Window == 0 .. PerTable - 1          \* the frames the kernel's table maps
Entry(present, frame) == [present |-> present, frame |-> frame]

\* PAGE_DIRECTORY_INDEX and PAGE_TABLE_INDEX.
DirIndex(page) == page \div PerTable
TableIndex(page) == page % PerTable
PHYS_2_VIRT(frame) == KernelPage + frame

\* What the processor makes of a page: before setPageDirectory with the boot
\* directory of boot.asm, a single large page, then with the kernel's own.
Mapped(t, page) ==
  IF step \in {"table", "dir"} THEN page - KernelPage \in Window
  ELSE LET de == t[dir][DirIndex(page)]
       IN  de.present /\ de.frame \in DOMAIN t /\ t[de.frame][TableIndex(page)].present

\* A frame the kernel can read and write through PHYS_2_VIRT.  Page structures
\* outside the window are never reached: the code faults before that.
Reachable(t, frame) == frame \in Window /\ Mapped(t, PHYS_2_VIRT(frame))

\* memset(f, 0, 4096), stopping inside the frame, and as it is: it writes all of
\* the frame but its first byte, and the first byte of the frame behind it; that
\* byte holds the present bit of entry 0.
ClearedInside(t, f) ==
  [t EXCEPT ![f] = [i \in Window |-> Entry(i = 0 /\ t[f][0].present, 0)]]

Cleared(t, f) ==
  [g \in DOMAIN t |-> [i \in Window |->
     IF g = f THEN Entry(i = 0 /\ t[f][0].present, 0)
     ELSE IF g = f + 1 /\ i = 0 THEN Entry(FALSE, t[g][0].frame)
     ELSE t[g][i]]]

\* Whether memset can do so, if it wrote two frames and as it is.
TwoClearable(t, f) == \A g \in f .. f + 2 : Mapped(t, PHYS_2_VIRT(g))

Clearable(t, f) == Reachable(t, f) /\ Mapped(t, PHYS_2_VIRT(f + 1))

-----------------------------------------------------------------------------
VMMInit ==
  /\ Init
  /\ step = "off"
  /\ \E garbage \in PageGarbage : tables = [f \in Window |-> [i \in Window |-> Entry(garbage, 0)]]
  /\ table = 0 /\ dir = 0
  /\ physicalAddress = 0 /\ virtualAddress = HeapPage
  /\ refused = FALSE

Boot ==
  /\ CountRegion \/ FillMap \/ AddRegion \/ ReserveKernel
  /\ step' = IF pc' = "ready" THEN "table" ELSE step
  /\ UNCHANGED <<tables, table, dir, physicalAddress, virtualAddress, refused>>

\* getFreePhysicalPage() and the frame it answers; nullptr is taken for frame 0.
GetPage == (Allocate(1) \/ Refuse(1)) /\ refused' = (refused \/ reply'.addr = nullptr)
NewFrame == reply'.addr \div BlockSize

\* The loop that fills the kernel's table, one turn short and as it is.
IdentityTableShort == [i \in Window |-> Entry(i < PerTable - 1, i)]

IdentityTable == [i \in Window |-> Entry(TRUE, i)]

\* The last part of the heap's loop: its condition with <= and as it is, its
\* step forgotten and as it is, its next frame dropped and as it is.
OnHeapOrBehind(page) == page <= HeapPage + HeapPages
SamePage == virtualAddress
SameFrame == physicalAddress

OnHeap(page) == page < HeapPage + HeapPages
NextPage == virtualAddress + 1
NextPhysical == NewFrame

\* The processor raises a page fault: nothing goes on (see the IDT's handlers).
Fault == step' = "fault" /\ UNCHANGED <<tables, table, dir, physicalAddress, virtualAddress>>

NewTable ==
  /\ step = "table"
  /\ GetPage
  /\ IF Clearable(tables, NewFrame)
     THEN /\ table' = NewFrame
          /\ tables' = Cleared(tables, NewFrame)
          /\ step' = "dir"
          /\ UNCHANGED <<dir, physicalAddress, virtualAddress>>
     ELSE Fault

\* The second frame becomes the directory: the loop fills the table, the
\* directory gets its entry, and setPageDirectory loads it.
NewDir ==
  LET d == NewFrame
      filled == [Cleared(tables, d) EXCEPT ![table] = IdentityTable]
  IN  /\ step = "dir"
      /\ GetPage
      /\ IF Clearable(tables, d)
         THEN /\ dir' = d
              /\ tables' = [filled EXCEPT ![d][KernelIndex] = Entry(TRUE, table)]
              /\ step' = "first"
              /\ UNCHANGED <<table, physicalAddress, virtualAddress>>
         ELSE Fault

\* The frame of the first heap page, and of the next one: the loop takes one
\* more before it looks whether it is done.
FirstFrame ==
  /\ step = "first"
  /\ GetPage
  /\ physicalAddress' = NewFrame
  /\ step' = "map"
  /\ UNCHANGED <<tables, table, dir, virtualAddress>>

NextFrame ==
  /\ step = "next"
  /\ GetPage
  /\ physicalAddress' = NextPhysical
  /\ virtualAddress' = NextPage
  /\ step' = IF OnHeap(virtualAddress') THEN "map" ELSE "done"
  /\ UNCHANGED <<tables, table, dir>>

\* mapPage(physicalAddress, virtualAddress), first without a table for the page.
HeapEntry == tables[dir][DirIndex(virtualAddress)]

MapNewTable ==
  /\ step = "map"
  /\ Reachable(tables, dir) /\ ~HeapEntry.present
  /\ GetPage
  /\ IF Clearable(tables, NewFrame)
     THEN /\ tables' = [Cleared(tables, NewFrame) EXCEPT
                          ![dir][DirIndex(virtualAddress)] = Entry(TRUE, NewFrame)]
          /\ UNCHANGED <<step, table, dir, physicalAddress, virtualAddress>>
     ELSE Fault

MapPage ==
  /\ step = "map"
  /\ Reachable(tables, dir) /\ HeapEntry.present
  /\ IF Reachable(tables, HeapEntry.frame)
     THEN /\ tables' = [tables EXCEPT
                          ![HeapEntry.frame][TableIndex(virtualAddress)] = Entry(TRUE, physicalAddress)]
          /\ step' = "next"
          /\ UNCHANGED <<table, dir, physicalAddress, virtualAddress>>
     ELSE Fault
  /\ UNCHANGED <<pmmVars, refused>>

\* With memory run out the heap's table may be "frame 0", and so may be the
\* directory that memset then clears: the next page walk fails.
LoseDir ==
  /\ step = "map" /\ ~Reachable(tables, dir)
  /\ Fault
  /\ UNCHANGED <<pmmVars, refused>>

VMMNext ==
  \/ Boot
  \/ NewTable \/ NewDir \/ FirstFrame \/ NextFrame
  \/ MapNewTable \/ MapPage \/ LoseDir

VMMSpec == VMMInit /\ [][VMMNext]_allVars /\ WF_allVars(VMMNext)

-----------------------------------------------------------------------------
VMMTypeOK ==
  /\ step \in {"off", "table", "dir", "first", "map", "next", "done", "fault"}
  /\ tables \in [Window -> [Window -> [present : BOOLEAN, frame : 0 .. AddrBlocks - 1]]]
  /\ table \in Window /\ dir \in Window
  /\ physicalAddress \in 0 .. AddrBlocks - 1
  /\ virtualAddress \in HeapPage .. HeapPage + HeapPages
  /\ refused \in BOOLEAN

Loaded == step \in {"first", "map", "next", "done"}   \* setPageDirectory is done
Backed == HeapPage .. virtualAddress - 1              \* the heap pages that are
FrameOf(page) == tables[tables[dir][DirIndex(page)].frame][TableIndex(page)].frame
Structures == {table, dir, tables[dir][DirIndex(HeapPage)].frame}

\* Unless memory ran out, every heap page that was mapped stays mapped, to a
\* frame of its own that the frame allocator counts as held and that is neither
\* the kernel's nor a page table nor the directory.
HeapBacked ==
  (Loaded /\ ~refused) =>
    \A p \in Backed :
      /\ Mapped(tables, p)
      /\ FrameOf(p) \in HeldBlocks \ (Structures \cup LowBlocks)
      /\ \A q \in Backed : p # q => FrameOf(p) # FrameOf(q)

\* From the moment the directory is loaded the kernel sees the first 4 MB where
\* PHYS_2_VIRT says, or initVMM would lose the code it is running.
KernelStaysMapped ==
  (Loaded /\ ~refused) => \A f \in Window : Mapped(tables, KernelPage + f) /\ FrameOf(KernelPage + f) = f

\* Page structures are reached through the window only.  Unless memory ran out,
\* initVMM faults only on a machine with fewer than five usable frames left in
\* the first 4 MB: the heap's table is the fourth frame it takes, and memset
\* writes to the one behind.  (After a refusal, which the counter may also cause
\* with frames left, the directory may be cleared: see LoseDir.)
FaultMeansTight == (step = "fault" /\ ~refused) => Cardinality(Window \ bootMap) < 5

\* Boot gets through initPMM and initVMM, or stops at a page fault.
InitEnds == <>(step \in {"done", "fault"})

\* What memset leaves undone in the directory's first byte it has already done
\* while clearing the frame before: if the directory lies right behind the
\* table, initVMM maps the first 4 MB and the heap and nothing else, whatever
\* the frames held; if not, at most the pages of directory entry 0 are stray.
NothingElseMapped ==
  (step = "done" /\ ~refused) =>
    \A p \in 0 .. PerTable * PerTable - 1 :
      Mapped(tables, p) => \/ DirIndex(p) = KernelIndex
                           \/ p \in Backed
                           \/ DirIndex(p) = 0 /\ dir # table + 1
=============================================================================
