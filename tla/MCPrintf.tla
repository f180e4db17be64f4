-------------------------------- MODULE MCPrintf --------------------------------
(***************************************************************************)
(* All formats of up to five characters for Printf, and numbers of up to   *)
(* ten bits: of every length in either base, with digits at both ends of   *)
(* their range, two negative ints, and the largest.                        *)
(***************************************************************************)
EXTENDS Printf

SomeValues == {0, 9, 10, 15, 16, 120, 255, 256, 1000, 1023, -1, -502}
=============================================================================
