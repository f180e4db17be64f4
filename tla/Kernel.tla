--------------------------------- MODULE Kernel ---------------------------------
(***************************************************************************)
(* kmain's second stage (Kernel/src/main.cpp): the drives are identified,  *)
(* nodes are mounted, and the master boot record is read through the file  *)
(* that openFile finds.  VFS and ATA do the work; both, and kmain itself,  *)
(* take blocks from one heap, which give nothing back.                     *)
(***************************************************************************)
EXTENDS Integers, Sequences, FiniteSets

CONSTANTS
  Heap,                        \* blocks the heap has room for
  Spares,                      \* blocks left for kmain to take
  SectorSize, Sectors, Width   \* of the drives

VARIABLES
  next,                        \* the place in Program of the next call
  blocks,                      \* blocks taken from the heap
  nodes, vfsPc, path, file, subroot, rest, filenameStart, start, answer,
  present, late, floating, selected, drive, ataPc, self, op, offset, size, counter,
  currentBuffer, word, ret, buf, early, failed

treeVars == <<nodes, vfsPc, path, file, subroot, rest, filenameStart, start, answer>>
diskVars == <<present, late, floating, selected, drive, ataPc, self, op, offset, size, counter,
              currentBuffer, word, ret, buf, early, failed>>
vars == <<next, blocks, treeVars, diskVars>>

\* What kmain mounts, in its order.  A node is known by its name; all flags are
\* 0, and only the first node has a storage.
Mounts ==
  << <<"ata device", <<"dev", "hda">> >>, <<"root", <<"">> >>,
     <<"test", <<"test">> >>, <<"asd", <<"asd">> >>,
     <<"another test", <<"test", "another">> >>,
     <<"test/another/sus", <<"test", "another", "sus">> >>,
     <<"amogus", <<"asd", "amogus">> >> >>
Nodes == {Mounts[i][1] : i \in DOMAIN Mounts}
Storage == [node \in {"ata device"} |-> "slave"]
nullptr == "nullptr"

Tree == INSTANCE VFS
  WITH Names <- {"dev", "hda", "test", "asd", "another", "sus", "amogus"}, Empty <- "",
       Files <- Nodes, None <- nullptr, Flags <- [node \in Nodes |-> 0],
       Stored <- DOMAIN Storage, Found <- [x \in Nodes \X {""} |-> nullptr],
       MountPaths <- {Mounts[i][2] : i \in DOMAIN Mounts}, OpenPaths <- {<<"dev", "hda">>},
       pc <- vfsPc
Disk == INSTANCE ATA
  WITH Buffers <- Heap, Offsets <- {0}, Sizes <- {SectorSize}, pc <- ataPc, buffers <- blocks

-----------------------------------------------------------------------------
\* The calls of kmain; `new' also for VFS::init's mount, name, tree node and list.
Call(what, arg) == [call |-> what, arg |-> arg]
New(n) == Call("new", n)
MountCalls ==
  [i \in 1 .. 2 * Len(Mounts) |-> IF i % 2 = 1 THEN New(1) ELSE Call("mount", Mounts[i \div 2])]
Program ==
  <<New(4), New(1), Call("identify", "master"), New(1), Call("identify", "slave")>>
    \o MountCalls
    \o <<Call("open", <<"dev", "hda">>), Call("read", SectorSize)>>

Loaded == next > Len(Program) /\ vfsPc = "idle" /\ ataPc = "idle"

\* kmalloc has answered nullptr and something was written there: the page fault
\* never ends.
OutOfMemory == blocks > Heap

Init ==
  /\ next = 1
  /\ blocks \in {Heap - spare : spare \in Spares}
  /\ Tree!Init
  /\ present \in SUBSET Disk!Drives /\ late \in BOOLEAN /\ floating \in {"zeros", "ones"}
  /\ IF present = {} THEN ~late ELSE floating = "zeros"
  /\ selected = "master" /\ drive = [d \in Disk!Drives |-> Disk!Done("idle")]
  /\ ataPc = "idle" /\ self = "master" /\ op = "none"
  /\ offset = 0 /\ size = 0 /\ counter = 0 /\ currentBuffer = 0 /\ word = 0
  /\ ret = Disk!Fresh /\ buf = <<>> /\ early = FALSE /\ failed = FALSE

\* The call that is next, of this kind.
Calls(kind) ==
  /\ vfsPc = "idle" /\ ataPc = "idle" /\ ~OutOfMemory
  /\ next <= Len(Program) /\ Program[next].call = kind
  /\ next' = next + 1
Arg == Program[next].arg
Takes(n) == blocks' = blocks + n

Allocate == Calls("new") /\ Takes(Arg) /\ UNCHANGED <<treeVars, diskVars>>

Identify == Calls("identify") /\ Disk!Identify(Arg) /\ UNCHANGED treeVars

\* mount copies all paths but "/", which is mounted once; openFile copies its
\* path twice.
Mount ==
  /\ Calls("mount")
  /\ IF Arg[2] = Tree!RootPath
     THEN Tree!MountRoot(Arg[1]) /\ Takes(0)
     ELSE Tree!Mount(Arg[2], Arg[1]) /\ Takes(1)
  /\ UNCHANGED diskVars

Open == Calls("open") /\ Tree!Open(Arg) /\ Takes(2) /\ UNCHANGED diskVars

\* VFS::read asks the storage of whatever openFile answered, and without one reads
\* nothing and returns 0; through nullptr it does not get any further.
Read ==
  /\ answer # nullptr
  /\ Calls("read")
  /\ IF answer \in DOMAIN Storage
     THEN Disk!Read(Storage[answer], 0, Arg)
     ELSE Takes(0) /\ UNCHANGED diskVars
  /\ UNCHANGED treeVars

\* The walks of mount and openFile; a new tree node is a mount, its name, the
\* node, its list of children and its place in the parent's.  The file kmain
\* opens is a mount: the lookup uses up its path, and no storage is searched.
TreeStep ==
  /\ ~OutOfMemory
  /\ \/ Tree!MountNew /\ Takes(5)
     \/ /\ \/ Tree!MountEnd \/ Tree!MountDown
           \/ Tree!LookupDown \/ Tree!LookupEnd \/ Tree!OpenEnd
        /\ Takes(0)
  /\ UNCHANGED <<next, diskVars>>

DriverStep == Disk!Driver /\ UNCHANGED <<next, treeVars>>
ShowBusy(d) == Disk!ShowBusy(d) /\ UNCHANGED <<next, treeVars>>
Complete(d) == Disk!Complete(d) /\ UNCHANGED <<next, treeVars>>

Running == Allocate \/ Identify \/ Mount \/ Open \/ Read \/ TreeStep \/ DriverStep
Next == Running \/ \E d \in Disk!Drives : ShowBusy(d) \/ Complete(d)

\* One thread runs kmain, and a drive gets done with a command in the end.
Spec ==
  /\ Init /\ [][Next]_vars
  /\ WF_vars(Running)
  /\ \A d \in Disk!Drives : WF_vars(ShowBusy(d)) /\ WF_vars(Complete(d))

-----------------------------------------------------------------------------
\* What is mounted when the kernel is loaded is what kmain asked for, each node
\* on its path, whatever was there or not when the path was mounted; and the
\* node that is read is the disk's, although "/" was mounted after it.
MountedAsAsked ==
  Loaded =>
    /\ answer = "ata device"
    /\ \A n \in DOMAIN nodes :
         LET asked == {m \in DOMAIN Mounts :
                         Mounts[m][2] = IF n = Tree!Root THEN Tree!RootPath ELSE Tree!PathOf[n]}
         IN  nodes[n].file = IF asked = {} THEN nullptr ELSE Mounts[CHOOSE m \in asked : TRUE][1]
    /\ Cardinality({n \in DOMAIN nodes : nodes[n].file # nullptr}) = Len(Mounts)

\* The boot record is the slave's first sector, if there is a slave that is
\* neither late nor failing: identifying the drives before has left nothing in
\* the ports, and looking up the file has led to the right one.
MbrIsFirstSector ==
  (Loaded /\ "slave" \in present /\ ~early /\ ~failed) =>
    /\ currentBuffer = SectorSize
    /\ \A i \in 0 .. SectorSize - 1 : buf[i] = Disk!Byte("slave", 0, i)

\* The kernel gets loaded, whatever drives there are, unless the heap is used
\* up: no walk, no wait for a drive and no nullptr stops it.
BootEnds == <>(Loaded \/ OutOfMemory)
=============================================================================
