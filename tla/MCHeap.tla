-------------------------------- MODULE MCHeap --------------------------------
(***************************************************************************)
(* A heap of 120 bytes for Heap: room for four or five small blocks.  Its  *)
(* bytes have four bits, so that a word of four bytes has sixteen.         *)
(***************************************************************************)
EXTENDS Heap
=============================================================================
