-------------------------------- MODULE MCKernel --------------------------------
(***************************************************************************)
(* kmain with sectors of four bytes.  It takes 57 blocks: the heap has     *)
(* room for more, for just these, for all but the sector's buffer, and for *)
(* so few that the drivers or the mounts use it up.                        *)
(***************************************************************************)
EXTENDS Kernel
=============================================================================
