-------------------------------- MODULE MCVMM --------------------------------
(***************************************************************************)
(* Machines for VMM with twelve entries per page table, so that the first  *)
(* 4 MB are twelve frames and the 2 MB of the kernel six of them: RAM from *)
(* barely more than the kernel to more than the window, whole or with one  *)
(* or two reserved frames where initVMM wants its own, or with a reserved  *)
(* area behind it as long as makes the counter of the frame allocator, for *)
(* which reserved blocks count as free ones, run out in initVMM.           *)
(***************************************************************************)
EXTENDS VMM

Ram(frames) == [addr |-> 0, len |-> frames, available |-> TRUE]
Hole(frame) == [addr |-> frame, len |-> 1, available |-> FALSE]
Above(len) == [addr |-> 24, len |-> len, available |-> FALSE]
RamSizes == {6, 7, 8, 10, 11, 12, 16, 20, 23}

RamMaps ==
  {<<Ram(n)>> : n \in RamSizes}
  \cup {<<Ram(n), Hole(h)>> : n \in RamSizes, h \in 6 .. 11}
  \cup {<<Ram(n), Hole(h), Hole(i)>> : n \in RamSizes, h \in 6 .. 8, i \in 9 .. 11}
  \cup {<<Ram(n), Above(n - 6 + k)>> : n \in {11, 12}, k \in 0 .. 3}

AllGarbage == {{}, 0 .. 31}
=============================================================================
