-------------------------------- MODULE MCPMM --------------------------------
(***************************************************************************)
(* Small machines for PMM: two addresses per block, two bits per byte of   *)
(* the bit map and four per word, so that a memory of 8 to 12 blocks spans *)
(* several words and its last word may be partial, as at full size.        *)
(***************************************************************************)
EXTENDS PMM

Entry(addr, len, available) == [addr |-> addr, len |-> len, available |-> available]

\* Low memory with the kernel, more memory behind it, a reserved area inside,
\* one above a hole, and one that starts and ends in the middle of a block.
SomeEntries == {
  Entry(0, 4, TRUE), Entry(4, 12, TRUE), Entry(8, 6, FALSE),
  Entry(20, 4, FALSE), Entry(13, 5, TRUE), Entry(15, 2, FALSE)}

MapsUpTo(n) == UNION {[1 .. k -> SomeEntries] : k \in 0 .. n}
SmallMaps == MapsUpTo(3)

\* RAM from address 0, and above it an area the machine keeps for devices.
ReservedAboveRam == {<<Entry(0, 16, TRUE), Entry(18, 14, FALSE)>>}

\* All RAM behind the kernel clear, or all ones.
AllGarbage == {{}, 0 .. 15}
=============================================================================
