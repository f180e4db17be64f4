--------------------------------- MODULE MCATA ---------------------------------
(***************************************************************************)
(* Sectors of four bytes, two words each; reads of nothing, within one     *)
(* sector, up to and over a sector's edge, and of a sector no drive has.   *)
(***************************************************************************)
EXTENDS ATA
=============================================================================
